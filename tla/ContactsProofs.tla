--------------------------- MODULE ContactsProofs ---------------------------
(***************************************************************************)
(* The properties of Contacts, for any nicknames and chats and any number  *)
(* of writes under way and of pages, links, registrations and sessions.    *)
(***************************************************************************)
EXTENDS Contacts, TLAPS, SequenceTheorems

USE DEF server, alias, store, invite, inbox, memory, outcome

\* The writes to the store, and those of a sequence of them.
Write == [key : {"list"}, value : SUBSET Chat]
           \cup [key : {"handled"}, value : SUBSET Nat]
Writes(f) == {f[i] : i \in DOMAIN f}

\* What belongs to a page that is not there, or that has no alias yet.
Places ==
  /\ page = "closed" => list = {} /\ ownAlias = None /\ adding = None
                        /\ flight = <<>>
  /\ handledLoaded <=> ownAlias # None
  /\ ownAlias = None => /\ handled = {} /\ pending = {}
                     /\ poll = None /\ shown = 0

\* The aliases that were heard of have a queue, and the numbers of the requests
\* that were found in it are of entries that it has.
Queues ==
  /\ \A n \in {drop, own, registering, claiming, ownAlias} \ {None} :
       intro[n] # None
  /\ ownAlias # None => pending \subseteq DOMAIN intro[ownAlias]
  /\ poll # None => poll.found \subseteq DOMAIN intro[ownAlias]

\* Somebody has proposed the chat in a request.
Requested(c) ==
  \E n \in Nick : intro[n] # None /\ \E k \in DOMAIN intro[n] : intro[n][k] = c

\* A chat that is somewhere in a list or a queue is in use, and is not the one
\* that the user is just proposing to somebody.
Used(c) ==
  \/ c \in list \/ c \in disk.list
  \/ \E w \in Writes(flight) : w.key = "list" /\ c \in w.value
  \/ Requested(c)
Proposals ==
  /\ \A c \in Chat : Used(c) => c \in proposed /\ c # adding
  /\ {link, stash, adding} \subseteq proposed \cup {None}

\* Only requests that were answered are handled; what a poll has counted, or
\* the page, was found or shown unless it was handled.
WasAnswered(seq) == \E a \in answered : a[2] = seq
Handling ==
  /\ \A seq \in handled \cup disk.handled : WasAnswered(seq)
  /\ \A w \in Writes(flight) :
       w.key = "handled" => \A seq \in w.value : WasAnswered(seq)
  /\ poll # None =>
       \A seq \in 1 .. poll.of : seq \in poll.found \/ seq \in handled
  /\ \A seq \in 1 .. shown : seq \in pending \/ seq \in handled
  /\ ~raced => \A seq \in pending : seq \notin handled

\* Once the writes f have landed on d in their order, v is stored under k.
Settles(f, d, k, v) ==
  /\ (\A i \in DOMAIN f : f[i].key # k) => d[k] = v
  /\ \A i \in DOMAIN f :
       /\ f[i].key = k
       /\ \A j \in DOMAIN f : j > i => f[j].key # k
       => f[i].value = v

\* The page and the store agree on what is kept, but for the writes under way.
Stored ==
  /\ page # "open" => \A w \in Writes(flight) : w.key # "list"
  /\ ~handledLoaded => \A w \in Writes(flight) : w.key # "handled"
  /\ ~disturbed /\ page = "open" => Settles(flight, disk, "list", list)
  /\ ~disturbed /\ handledLoaded => Settles(flight, disk, "handled", handled)

\* Nothing that was answered is forgotten, and no link is given up.
Remembered ==
  ~disturbed =>
    /\ \A a \in answered :
         a[2] \in IF handledLoaded THEN handled ELSE disk.handled
    /\ link # None => stash \in {None, link}

IInv == /\ TypeOK /\ Places /\ Queues /\ Proposals /\ Handling /\ Stored
        /\ Remembered /\ ContactsKeptUnlessDisturbed

-----------------------------------------------------------------------------
(* Writes *)

LEMMA WriteFacts ==
  ASSUME TypeOK
  PROVE  /\ flight \in Seq(Write) /\ Len(flight) \in Nat
         /\ DOMAIN flight = 1 .. Len(flight)
         /\ \A i \in DOMAIN flight : flight[i] \in Write
         /\ \A w \in Writes(flight) :
              /\ w.key = "list" => w.value \subseteq Chat
              /\ w.key = "handled" => w.value \subseteq Nat
              /\ w.key \in {"list", "handled"}
<1>1. flight \in Seq(Write)
  BY DEF TypeOK, Write
<1>2. DOMAIN flight = 1 .. Len(flight) /\ Len(flight) \in Nat
  BY <1>1
<1>3. \A i \in DOMAIN flight : flight[i] \in Write
  BY <1>1
<1>4. \A w \in Write : /\ w.key = "list" => w.value \subseteq Chat
                       /\ w.key = "handled" => w.value \subseteq Nat
                       /\ w.key \in {"list", "handled"}
  BY DEF Write
<1> QED BY <1>1, <1>2, <1>3, <1>4 DEF Writes

\* A write that begins comes last, and decides what its key settles to and no
\* other key's.
LEMMA Begins ==
  ASSUME NEW f \in Seq(Write), NEW w \in Write, NEW d
  PROVE  /\ Append(f, w) \in Seq(Write)
         /\ Writes(Append(f, w)) = Writes(f) \cup {w}
         /\ Settles(Append(f, w), d, w.key, w.value)
         /\ \A k, v :
              w.key # k /\ Settles(f, d, k, v) =>
                Settles(Append(f, w), d, k, v)
<1> DEFINE g == Append(f, w)
<1>1. /\ g \in Seq(Write) /\ Len(f) \in Nat
      /\ DOMAIN f = 1 .. Len(f) /\ DOMAIN g = 1 .. Len(f) + 1
      /\ \A i \in DOMAIN f : g[i] = f[i]
      /\ g[Len(f) + 1] = w
  OBVIOUS
<1> HIDE DEF g
<1>2. Writes(g) = Writes(f) \cup {w}
  BY <1>1 DEF Writes
<1>3. Settles(g, d, w.key, w.value)
  <2>1. Len(f) + 1 \in DOMAIN g /\ g[Len(f) + 1].key = w.key
    BY <1>1
  <2>2. ASSUME NEW i \in DOMAIN g,
               \A j \in DOMAIN g : j > i => g[j].key # w.key
        PROVE  g[i].value = w.value
    <3>1. i = Len(f) + 1
      BY <1>1, <2>1, <2>2
    <3> QED BY <1>1, <3>1
  <2> QED BY <2>1, <2>2 DEF Settles
<1>4. ASSUME NEW k, NEW v, w.key # k, Settles(f, d, k, v)
      PROVE  Settles(g, d, k, v)
  <2>1. ASSUME \A i \in DOMAIN g : g[i].key # k
        PROVE  d[k] = v
    <3>1. \A i \in DOMAIN f : f[i].key # k
      BY <1>1, <2>1
    <3> QED BY <1>4, <3>1 DEF Settles
  <2>2. ASSUME NEW i \in DOMAIN g, g[i].key = k,
               \A j \in DOMAIN g : j > i => g[j].key # k
        PROVE  g[i].value = v
    <3>1. i \in DOMAIN f /\ f[i] = g[i]
      BY <1>1, <1>4, <2>2
    <3>2. \A j \in DOMAIN f : j > i => f[j].key # k
      BY <1>1, <2>2
    <3> QED BY <1>4, <2>2, <3>1, <3>2 DEF Settles
  <2> QED BY <2>1, <2>2 DEF Settles
<1>5. g = Append(f, w)
  BY DEF g
<1> QED BY <1>1, <1>2, <1>3, <1>4, <1>5

\* One that lands makes room for those behind it.
LEMMA Lands ==
  ASSUME TypeOK, NEW i \in DOMAIN flight, Land(i)
  PROVE  /\ flight' \in Seq(Write)
         /\ DOMAIN flight' = 1 .. Len(flight) - 1
         /\ \A j \in DOMAIN flight' :
              flight'[j] = IF j < i THEN flight[j] ELSE flight[j + 1]
         /\ Writes(flight') \subseteq Writes(flight)
         /\ flight[i] \in Writes(flight)
         /\ disk' \in [list : SUBSET Chat, handled : SUBSET Nat]
         /\ disk' = [disk EXCEPT ![flight[i].key] = flight[i].value]
<1>1. /\ flight \in Seq(Write) /\ Len(flight) \in Nat
      /\ DOMAIN flight = 1 .. Len(flight)
      /\ \A j \in DOMAIN flight : flight[j] \in Write
  BY WriteFacts
<1>2. flight' = [j \in 1 .. Len(flight) - 1 |->
                  IF j < i THEN flight[j] ELSE flight[j + 1]]
  BY DEF Land
<1>3. DOMAIN flight' = 1 .. Len(flight) - 1
  BY <1>2
<1>4. \A j \in DOMAIN flight' :
        /\ flight'[j] = IF j < i THEN flight[j] ELSE flight[j + 1]
        /\ j \in DOMAIN flight /\ j + 1 \in DOMAIN flight
  BY <1>1, <1>2
<1>5. \A j \in DOMAIN flight' : flight'[j] \in Write
  BY <1>1, <1>4
<1>6. flight' \in Seq(Write)
  <2>1. Len(flight) - 1 \in Nat
    BY <1>1
  <2> QED BY <1>2, <1>3, <1>5, <2>1
<1>7. Writes(flight') \subseteq Writes(flight) /\ flight[i] \in Writes(flight)
  BY <1>4 DEF Writes
<1>8. disk' = [disk EXCEPT ![flight[i].key] = flight[i].value]
  BY DEF Land
<1>9. disk' \in [list : SUBSET Chat, handled : SUBSET Nat]
  <2>1. disk \in [list : SUBSET Chat, handled : SUBSET Nat]
    BY DEF TypeOK
  <2>2. CASE flight[i] \in [key : {"list"}, value : SUBSET Chat]
    BY <1>8, <2>1, <2>2
  <2>3. CASE flight[i] \in [key : {"handled"}, value : SUBSET Nat]
    BY <1>8, <2>1, <2>3
  <2> QED BY <1>1, <2>2, <2>3 DEF Write
<1> QED BY <1>3, <1>4, <1>6, <1>7, <1>8, <1>9

\* The list of the page is saved when it changes.
LEMMA Saves ==
  ASSUME TypeOK, NEW chats, chats \subseteq Chat
  PROVE  /\ Saved(chats) \in Seq(Write)
         /\ Writes(Saved(chats)) \subseteq
              Writes(flight) \cup {[key |-> "list", value |-> chats]}
         /\ page # "open" => Writes(Saved(chats)) = Writes(flight)
         /\ page = "open" /\ Settles(flight, disk, "list", list) =>
              Settles(Saved(chats), disk, "list", chats)
         /\ \A v : Settles(flight, disk, "handled", v) =>
                     Settles(Saved(chats), disk, "handled", v)
<1> DEFINE w == [key |-> "list", value |-> chats]
<1>1. /\ w \in Write /\ w.key = "list" /\ w.value = chats
      /\ flight \in Seq(Write)
  BY WriteFacts DEF Write
<1>2. CASE page = "open" /\ chats # list
  <2>1. Saved(chats) = Append(flight, w)
    BY <1>2 DEF Saved
  <2> HIDE DEF w
  <2>2. w = [key |-> "list", value |-> chats]
    BY DEF w
  <2>3. /\ Saved(chats) \in Seq(Write)
        /\ Writes(Saved(chats)) = Writes(flight) \cup {w}
        /\ Settles(Saved(chats), disk, "list", chats)
    BY <1>1, <2>1, Begins
  <2>4. ASSUME NEW v, Settles(flight, disk, "handled", v)
        PROVE  Settles(Saved(chats), disk, "handled", v)
    <3>1. w.key # "handled"
      BY <1>1
    <3> QED BY <1>1, <2>1, <2>4, <3>1, Begins
  <2> QED BY <1>2, <2>2, <2>3, <2>4
<1>3. CASE ~(page = "open" /\ chats # list)
  <2>1. Saved(chats) = flight
    BY <1>3 DEF Saved
  <2> QED BY <1>1, <1>3, <2>1
<1> QED BY <1>2, <1>3

\* Writes that land in their order settle nothing else.
LEMMA LandSettles ==
  ASSUME TypeOK, NEW i \in DOMAIN flight, Land(i), ~disturbed',
         NEW k, NEW v, Settles(flight, disk, k, v)
  PROVE  Settles(flight', disk', k, v)
<1>1. /\ Len(flight) \in Nat /\ DOMAIN flight = 1 .. Len(flight)
      /\ DOMAIN flight' = 1 .. Len(flight) - 1
      /\ \A j \in DOMAIN flight' :
           flight'[j] = IF j < i THEN flight[j] ELSE flight[j + 1]
      /\ flight[i] \in Write
      /\ disk' = [disk EXCEPT ![flight[i].key] = flight[i].value]
  BY WriteFacts, Lands
<1>2. \A j \in 1 .. i - 1 : flight[j].key # flight[i].key
  BY DEF Land
<1>3. flight[i].key \in DOMAIN disk
  <2>1. DOMAIN disk = {"list", "handled"}
    BY DEF TypeOK
  <2> QED BY <1>1, <2>1 DEF Write
<1>4. ASSUME \A j \in DOMAIN flight' : flight'[j].key # k
      PROVE  disk'[k] = v
  <2>1. \A j \in DOMAIN flight : j # i => flight[j].key # k
    <3> SUFFICES ASSUME NEW j \in DOMAIN flight, j # i
                 PROVE  flight[j].key # k
      OBVIOUS
    <3>1. CASE j < i
      <4>1. j \in DOMAIN flight' /\ flight'[j] = flight[j]
        BY <1>1, <3>1
      <4> QED BY <1>4, <4>1
    <3>2. CASE j > i
      <4>1. j - 1 \in DOMAIN flight' /\ flight'[j - 1] = flight[j]
        BY <1>1, <3>2
      <4> QED BY <1>4, <4>1
    <3> QED BY <1>1, <3>1, <3>2
  <2>2. CASE flight[i].key = k
    <3>1. flight[i].value = v
      BY <1>1, <2>1, <2>2 DEF Settles
    <3> QED BY <1>1, <1>3, <2>2, <3>1
  <2>3. CASE flight[i].key # k
    <3>1. disk[k] = v
      BY <2>1, <2>3 DEF Settles
    <3>2. disk'[k] = disk[k]
      BY <1>1, <2>3
    <3> QED BY <3>1, <3>2
  <2> QED BY <2>2, <2>3
<1>5. ASSUME NEW m \in DOMAIN flight', flight'[m].key = k,
             \A j \in DOMAIN flight' : j > m => flight'[j].key # k
      PROVE  flight'[m].value = v
  <2> DEFINE o == IF m < i THEN m ELSE m + 1
  <2>1. o \in DOMAIN flight /\ flight'[m] = flight[o] /\ o # i
    BY <1>1
  <2>2. ASSUME NEW j \in DOMAIN flight, j > o, flight[j].key = k
        PROVE  FALSE
    <3>1. CASE j < i
      <4>1. j \in DOMAIN flight' /\ flight'[j] = flight[j] /\ j > m
        BY <1>1, <2>2, <3>1
      <4> QED BY <1>5, <2>2, <4>1
    <3>2. CASE j > i
      <4>1. j - 1 \in DOMAIN flight' /\ flight'[j - 1] = flight[j] /\ j - 1 > m
        BY <1>1, <2>2, <3>2
      <4> QED BY <1>5, <2>2, <4>1
    <3>3. CASE j = i
      <4>1. o \in 1 .. i - 1
        BY <1>1, <2>1, <2>2, <3>3
      <4>2. flight[o].key # flight[i].key
        BY <1>2, <4>1
      <4> QED BY <1>5, <2>1, <2>2, <3>3, <4>2
    <3> QED BY <1>1, <3>1, <3>2, <3>3
  <2> HIDE DEF o
  <2> QED BY <1>5, <2>1, <2>2 DEF Settles
<1> QED BY <1>4, <1>5 DEF Settles

-----------------------------------------------------------------------------
(* The parts of the invariant, one after the other *)

\* What the user answers is a request of the queue, and up to two writes begin.
LEMMA Answers ==
  ASSUME TypeOK, Places, Queues, NEW seq \in pending, NEW accept \in BOOLEAN,
         Answer(seq, accept)
  PROVE  \E new \in SUBSET Chat :
           /\ ownAlias \in Nick /\ page # "closed" /\ handledLoaded
           /\ seq \in Nat /\ \A c \in new : Requested(c)
           /\ list' = list \cup new /\ wanted' = wanted \cup new
           /\ handled' = handled \cup {seq} /\ flight' \in Seq(Write)
           /\ \A w \in Writes(flight') :
                \/ w \in Writes(flight)
                \/ page = "open" /\ w = [key |-> "list", value |-> list']
                \/ w = [key |-> "handled", value |-> handled']
           /\ Settles(flight', disk, "handled", handled')
           /\ page = "open" /\ Settles(flight, disk, "list", list) =>
                Settles(flight', disk, "list", list')
<1> DEFINE new == IF accept THEN {intro[ownAlias][seq]} ELSE {}
           w == [key |-> "handled", value |-> handled \cup {seq}]
<1>1. /\ ownAlias \in Nick /\ page # "closed" /\ handledLoaded
      /\ intro[ownAlias] # None /\ seq \in DOMAIN intro[ownAlias]
  BY DEF TypeOK, Places, Queues
<1>2. intro[ownAlias] \in Seq(Chat)
  BY <1>1 DEF TypeOK
<1>3. intro[ownAlias][seq] \in Chat /\ seq \in Nat
  BY <1>1, <1>2
<1>4. new \in SUBSET Chat /\ \A c \in new : Requested(c)
  BY <1>1, <1>3 DEF Requested
<1>5. /\ list' = list \cup new /\ wanted' = wanted \cup new
      /\ handled' = handled \cup {seq}
      /\ flight' = Append(Saved(list \cup new), w)
  BY DEF Answer
<1>6. /\ w \in Write /\ w.key = "handled" /\ w.value = handled'
      /\ w = [key |-> "handled", value |-> handled']
  BY <1>3, <1>5 DEF TypeOK, Write
<1>7. list \cup new \subseteq Chat
  BY <1>4 DEF TypeOK
<1> HIDE DEF new, w
<1>8. /\ Saved(list \cup new) \in Seq(Write)
      /\ Writes(Saved(list \cup new)) \subseteq
           Writes(flight) \cup {[key |-> "list", value |-> list']}
      /\ page # "open" => Writes(Saved(list \cup new)) = Writes(flight)
      /\ page = "open" /\ Settles(flight, disk, "list", list) =>
           Settles(Saved(list \cup new), disk, "list", list')
  BY <1>5, <1>7, Saves
<1>9. /\ flight' \in Seq(Write)
      /\ Writes(flight') = Writes(Saved(list \cup new)) \cup {w}
      /\ Settles(flight', disk, "handled", handled')
      /\ Settles(Saved(list \cup new), disk, "list", list') =>
           Settles(flight', disk, "list", list')
  BY <1>5, <1>6, <1>8, Begins
<1>10. \A x \in Writes(flight') :
         \/ x \in Writes(flight)
         \/ page = "open" /\ x = [key |-> "list", value |-> list']
         \/ x = [key |-> "handled", value |-> handled']
  BY <1>6, <1>8, <1>9
<1> QED BY <1>1, <1>3, <1>4, <1>5, <1>8, <1>9, <1>10

LEMMA Types == ASSUME IInv, [Next]_vars PROVE TypeOK'
<1> USE DEF IInv, TypeOK
<1>1. CASE UNCHANGED vars
  BY <1>1 DEF vars
<1>2. ASSUME NEW n \in Nick, Register(n) PROVE TypeOK'
  BY <1>2, ContactsAssumption DEF Register, Event
<1>3. ASSUME NEW n \in Nick, PublishAliasLink(n) PROVE TypeOK'
  BY <1>3, ContactsAssumption DEF PublishAliasLink, Event
<1>4. ASSUME NEW lost \in BOOLEAN, Registered(lost) PROVE TypeOK'
  BY <1>4 DEF Registered
<1>5. ASSUME NEW lost \in BOOLEAN, ClaimAliasLink(lost) PROVE TypeOK'
  BY <1>5 DEF ClaimAliasLink
<1>6. CASE OpenAliasLink
  BY <1>6 DEF OpenAliasLink
<1>7. ASSUME NEW n \in Nick, NEW c \in Chat, Introduce(n, c) PROVE TypeOK'
  <2>1. intro[n] \in Seq(Chat)
    BY <1>7 DEF Introduce
  <2>2. Append(intro[n], c) \in Seq(Chat)
    BY <2>1
  <2> QED BY <1>7, <2>2 DEF Introduce
<1>8. CASE SignIn \/ SignOut \/ Redirect
  <2>1. CASE SignIn
    BY <2>1 DEF SignIn
  <2>2. CASE SignOut
    <3>1. events' \in 0 .. MaxEvents
      BY <2>2, ContactsAssumption DEF SignOut, Event
    <3>2. signedIn' \in BOOLEAN
      BY <2>2 DEF SignOut
    <3> QED BY <2>2, <3>1, <3>2 DEF SignOut
  <2>3. CASE Redirect
    BY <2>3 DEF Redirect, Stashed
  <2> QED BY <1>8, <2>1, <2>2, <2>3
<1>9. ASSUME NEW c \in Chat, OpenLink(c) PROVE TypeOK'
  <2>1. disturbed' \in BOOLEAN
    BY <1>9 DEF OpenLink
  <2> QED BY <1>9, <2>1, ContactsAssumption DEF OpenLink, Event
<1>10. ASSUME NEW c \in Chat, CreateInvite(c) PROVE TypeOK'
  <2>1. flight' \in Seq(Write)
    <3>1. list \cup {c} \subseteq Chat /\ flight' = Saved(list \cup {c})
      BY <1>10 DEF CreateInvite, Becomes
    <3> QED BY <3>1, Saves
  <2> QED BY <1>10, <2>1 DEF CreateInvite, Becomes, Write
<1>11. ASSUME NEW c \in Chat, AddByAlias(c) PROVE TypeOK'
  BY <1>11 DEF AddByAlias
<1>12. CASE Added
  <2>1. adding \in Chat
    BY <1>12 DEF Added
  <2>2. flight' \in Seq(Write)
    <3>1. /\ list \cup {adding} \subseteq Chat
          /\ flight' = Saved(list \cup {adding})
      BY <1>12, <2>1 DEF Added, Becomes
    <3> QED BY <3>1, Saves
  <2> QED BY <1>12, <2>1, <2>2 DEF Added, Becomes, Write
<1>13. ASSUME NEW c \in list, DeleteChat(c) PROVE TypeOK'
  <2>1. flight' \in Seq(Write)
    BY <1>13, Saves DEF DeleteChat, Becomes
  <2> QED BY <1>13, <2>1 DEF DeleteChat, Becomes, Write
<1>14. CASE OpenPage
  BY <1>14, ContactsAssumption DEF OpenPage, Invited, Event
<1>15. CASE Restore
  <2>1. Merged \subseteq Chat /\ [key |-> "list", value |-> Merged] \in Write
    BY DEF Merged, Write
  <2>2. flight' \in Seq(Write)
    <3>1. flight \in Seq(Write)
      BY WriteFacts
    <3> QED BY <1>15, <2>1, <3>1, Begins DEF Restore
  <2> QED BY <1>15, <2>1, <2>2 DEF Restore, Write
<1>16. ASSUME NEW reload \in BOOLEAN, ClosePage(reload)
       PROVE  TypeOK'
  <2>1. disturbed' \in BOOLEAN
    BY <1>16 DEF ClosePage
  <2>2. <<>> \in Seq(Write)
    OBVIOUS
  <2> QED BY <1>16, <2>1, <2>2 DEF ClosePage, Write
<1>17. CASE Poll
  <2>1. ownAlias' \in Nick /\ intro[ownAlias'] \in Seq(Chat)
    BY <1>17 DEF Poll, Queues
  <2>2. /\ Unhandled(ownAlias', handled') \subseteq Nat
        /\ Len(intro[ownAlias']) \in Nat
    BY <2>1 DEF Unhandled
  <2> QED BY <1>17, <2>1, <2>2 DEF Poll, Loaded
<1>18. CASE Show
  BY <1>18 DEF Show
<1>19. ASSUME NEW i \in DOMAIN flight, Land(i) PROVE TypeOK'
  <2>1. /\ flight' \in Seq(Write)
        /\ disk' \in [list : SUBSET Chat, handled : SUBSET Nat]
    BY <1>19, Lands
  <2> QED BY <1>19, <2>1 DEF Land, Write
<1>20. ASSUME NEW seq \in pending, NEW accept \in BOOLEAN, Answer(seq, accept)
       PROVE TypeOK'
  <2>1. PICK new \in SUBSET Chat :
          /\ ownAlias \in Nick /\ seq \in Nat
          /\ list' = list \cup new /\ wanted' = wanted \cup new
          /\ handled' = handled \cup {seq} /\ flight' \in Seq(Write)
    <3> HIDE DEF IInv, TypeOK
    <3>1. TypeOK /\ Places /\ Queues
      BY DEF IInv
    <3> QED BY <1>20, <3>1, Answers
  <2> QED BY <1>20, <2>1 DEF Answer, Write
<1> QED
  BY <1>1, <1>2, <1>3, <1>4, <1>5, <1>6, <1>7, <1>8, <1>9, <1>10, <1>11, <1>12,
     <1>13, <1>14, <1>15, <1>16, <1>17, <1>18, <1>19, <1>20 DEF Next

LEMMA PlacesKept == ASSUME IInv, [Next]_vars PROVE Places'
<1> USE DEF IInv, Places
<1>1. CASE UNCHANGED <<page, list, inbox, adding, flight, link, shown>>
  BY <1>1
<1>2. ASSUME NEW c \in Chat, OpenLink(c) PROVE Places'
  BY <1>2 DEF OpenLink
<1>3. CASE Redirect
  BY <1>3 DEF Redirect
<1>4. ASSUME NEW i \in DOMAIN flight, Land(i) PROVE Places'
  <2>1. flight # <<>>
    BY <1>4
  <2> QED BY <1>4, <2>1 DEF Land
<1>5. CASE OpenPage
  BY <1>5 DEF OpenPage
<1>6. CASE Restore
  BY <1>6 DEF Restore
<1>7. ASSUME NEW c \in Chat, CreateInvite(c) \/ AddByAlias(c) PROVE Places'
  BY <1>7 DEF CreateInvite, AddByAlias, Becomes
<1>8. CASE Added
  BY <1>8 DEF Added, Becomes
<1>9. ASSUME NEW c \in list, DeleteChat(c) PROVE Places'
  BY <1>9 DEF DeleteChat, Becomes
<1>10. ASSUME NEW reload \in BOOLEAN, ClosePage(reload)
       PROVE  Places'
  BY <1>10 DEF ClosePage
<1>11. CASE Poll
  BY <1>11 DEF Poll
<1>12. CASE Show
  BY <1>12 DEF Show
<1>13. ASSUME NEW seq \in pending, NEW accept \in BOOLEAN, Answer(seq, accept)
       PROVE  Places'
  <2>1. ownAlias # None /\ page # "closed"
    BY <1>13
  <2> QED BY <1>13, <2>1 DEF Answer
<1> QED
  BY <1>1, <1>2, <1>3, <1>4, <1>5, <1>6, <1>7, <1>8, <1>9, <1>10, <1>11, <1>12,
     <1>13
     DEF Next, vars, Register, PublishAliasLink, Registered, ClaimAliasLink,
         OpenAliasLink, Introduce, SignIn, SignOut

LEMMA QueuesKept == ASSUME IInv, [Next]_vars PROVE Queues'
<1> DEFINE heard == {drop, own, registering, claiming, ownAlias} \ {None}
<1>1. /\ intro \in [Nick -> Seq(Chat) \cup {None}] /\ None \notin Seq(Chat)
      /\ heard \subseteq Nick
      /\ \A n \in heard : intro[n] \in Seq(Chat) /\ intro[n] # None
      /\ ownAlias # None => pending \subseteq DOMAIN intro[ownAlias]
      /\ poll # None => ownAlias # None
      /\ poll # None => poll.found \subseteq DOMAIN intro[ownAlias]
      /\ ownAlias = None => pending = {}
      /\ None \notin Nick
  BY ContactsAssumption DEF IInv, TypeOK, Queues, Places
<1>2. CASE UNCHANGED <<intro, drop, alias, ownAlias, pending, poll>>
  BY <1>2 DEF IInv, Queues
<1>3. ASSUME NEW n \in Nick, Register(n) \/ PublishAliasLink(n) PROVE Queues'
  <2>1. intro[n] = None /\ intro' = [intro EXCEPT ![n] = <<>>]
    BY <1>3 DEF Register, PublishAliasLink
  <2>2. intro'[n] = <<>> /\ <<>> # None
    <3>1. <<>> \in Seq(Chat)
      OBVIOUS
    <3> QED BY <1>1, <2>1, <3>1
  <2>3. \A m \in heard : m # n /\ intro'[m] = intro[m]
    BY <1>1, <2>1
  <2>4. /\ heard' \subseteq heard \cup {n}
        /\ UNCHANGED <<ownAlias, pending, poll>>
    BY <1>3 DEF Register, PublishAliasLink
  <2>5. \A m \in heard' : intro'[m] # None
    BY <1>1, <2>2, <2>3, <2>4
  <2>6. ownAlias # None => intro'[ownAlias] = intro[ownAlias]
    BY <2>3
  <2> QED BY <1>1, <2>4, <2>5, <2>6 DEF Queues
<1>4. ASSUME NEW lost \in BOOLEAN, Registered(lost) \/ ClaimAliasLink(lost)
      PROVE  Queues'
  <2>1. heard' \subseteq heard /\ UNCHANGED <<intro, ownAlias, pending, poll>>
    BY <1>4 DEF Registered, ClaimAliasLink
  <2> QED BY <1>1, <2>1 DEF Queues
<1>5. CASE OpenAliasLink
  <2>1. heard' \subseteq heard /\ UNCHANGED <<intro, ownAlias, pending, poll>>
    BY <1>5 DEF OpenAliasLink
  <2> QED BY <1>1, <2>1 DEF Queues
<1>6. ASSUME NEW n \in Nick, NEW c \in Chat, Introduce(n, c) PROVE Queues'
  <2>1. intro[n] \in Seq(Chat) /\ intro' = [intro EXCEPT ![n] = Append(@, c)]
    BY <1>1, <1>6 DEF Introduce
  <2>2. Append(intro[n], c) \in Seq(Chat)
    BY <2>1
  <2>3. DOMAIN intro[n] \subseteq DOMAIN Append(intro[n], c)
    BY <2>1
  <2>4. intro'[n] # None
    BY <1>1, <2>1, <2>2
  <2>5. heard' = heard /\ UNCHANGED <<ownAlias, pending, poll>>
    BY <1>6 DEF Introduce
  <2>6. \A m \in heard :
          intro'[m] # None /\ DOMAIN intro[m] \subseteq DOMAIN intro'[m]
    BY <1>1, <2>1, <2>3, <2>4
  <2> QED BY <1>1, <2>5, <2>6 DEF Queues
<1>7. ASSUME NEW reload \in BOOLEAN, ClosePage(reload)
      PROVE  Queues'
  <2>1. /\ heard' \subseteq heard
        /\ ownAlias' = None /\ poll' = None /\ UNCHANGED intro
    BY <1>7 DEF ClosePage
  <2> QED BY <1>1, <2>1 DEF Queues
<1>8. CASE Poll
  <2>1. /\ heard' \subseteq heard /\ ownAlias' \in heard
        /\ ownAlias # None => ownAlias' = ownAlias
        /\ UNCHANGED <<intro, pending>>
        /\ poll'.found \subseteq DOMAIN intro[ownAlias']
    BY <1>8 DEF Poll, Unhandled
  <2> QED BY <1>1, <2>1 DEF Queues
<1>9. CASE Show
  <2>1. heard' = heard /\ pending' = poll.found /\ poll' = None /\ poll # None
        /\ UNCHANGED <<intro, ownAlias>>
    BY <1>9 DEF Show
  <2> QED BY <1>1, <2>1 DEF Queues
<1>10. ASSUME NEW seq \in pending, NEW accept \in BOOLEAN, Answer(seq, accept)
       PROVE  Queues'
  <2>1. heard' = heard /\ pending' \subseteq pending
        /\ UNCHANGED <<intro, ownAlias, poll>>
    BY <1>10 DEF Answer
  <2> QED BY <1>1, <2>1 DEF Queues
<1> QED
  BY <1>2, <1>3, <1>4, <1>5, <1>6, <1>7, <1>8, <1>9, <1>10
     DEF Next, vars, SignIn, SignOut, Redirect, OpenLink, CreateInvite,
         AddByAlias, DeleteChat, OpenPage, Restore, Added, Becomes, Land

\* A chat that gets into a list or a queue was in one, or is not being proposed
\* to somebody.
LEMMA ProposalsGrow ==
  ASSUME IInv, proposed \subseteq proposed', adding' \in {adding, None},
         \A c \in Chat :
           Used(c)' => Used(c) \/ (c \in proposed' /\ c # adding),
         {link', stash'} \subseteq proposed' \cup {None}
  PROVE  Proposals'
<1>1. \A c \in Chat : Used(c)' => c \in proposed' /\ c # adding'
  BY ContactsAssumption DEF IInv, Proposals
<1>2. {link', stash', adding'} \subseteq proposed' \cup {None}
  BY DEF IInv, Proposals
<1> QED BY <1>1, <1>2 DEF Proposals

\* A list that is saved.
LEMMA ProposalsSaved ==
  ASSUME IInv, NEW chats, chats \subseteq Chat, list' = chats,
         flight' = Saved(chats), UNCHANGED <<intro, disk, link, stash>>,
         proposed \subseteq proposed', adding' \in {adding, None},
         \A c \in chats : Used(c) \/ (c \in proposed' /\ c # adding)
  PROVE  Proposals'
<1>1. Writes(flight') \subseteq
        Writes(flight) \cup {[key |-> "list", value |-> chats]}
  BY Saves DEF IInv
<1>2. ASSUME NEW c \in Chat, Used(c)'
      PROVE  Used(c) \/ (c \in proposed' /\ c # adding)
  <2>1. Requested(c)' => Requested(c)
    BY DEF Requested
  <2>2. ASSUME NEW w \in Writes(flight'), w.key = "list", c \in w.value
        PROVE  Used(c) \/ c \in chats
    BY <1>1, <2>2 DEF Used
  <2>3. Used(c) \/ c \in chats
    BY <1>2, <2>1, <2>2 DEF Used
  <2> QED BY <2>3
<1>3. {link', stash'} \subseteq proposed' \cup {None}
  BY DEF IInv, Proposals
<1> QED BY <1>2, <1>3, ProposalsGrow

LEMMA ProposalsKept == ASSUME IInv, [Next]_vars PROVE Proposals'
<1>1. TypeOK /\ Places /\ Queues /\ Proposals /\ None \notin Chat
  BY ContactsAssumption DEF IInv
<1>2. CASE UNCHANGED <<intro, proposed, disk, flight, list, adding, link,
                       stash>>
  <2>1. \A c \in Chat : Used(c)' => Used(c)
    BY <1>2 DEF Used, Requested, Writes
  <2> QED BY <1>1, <1>2, <2>1, ProposalsGrow DEF Proposals
<1>3. ASSUME NEW n \in Nick, Register(n) \/ PublishAliasLink(n)
      PROVE  Proposals'
  <2>1. /\ intro[n] = None /\ intro' = [intro EXCEPT ![n] = <<>>]
        /\ UNCHANGED <<proposed, disk, flight, list, adding, link, stash>>
    BY <1>3 DEF Register, PublishAliasLink
  <2>2. ASSUME NEW c \in Chat, Requested(c)' PROVE Requested(c)
    <3>1. PICK m \in Nick : /\ intro'[m] # None
                            /\ \E k \in DOMAIN intro'[m] : intro'[m][k] = c
      BY <2>2 DEF Requested
    <3>2. m # n
      <4>1. intro'[n] = <<>>
        BY <1>1, <2>1 DEF TypeOK
      <4> QED BY <3>1, <4>1
    <3>3. intro'[m] = intro[m]
      BY <1>1, <2>1, <3>2 DEF TypeOK
    <3> QED BY <3>1, <3>3 DEF Requested
  <2>3. \A c \in Chat : Used(c)' => Used(c)
    BY <2>1, <2>2 DEF Used, Writes
  <2> QED BY <1>1, <2>1, <2>3, ProposalsGrow DEF Proposals
<1>4. ASSUME NEW n \in Nick, NEW d \in Chat, Introduce(n, d) PROVE Proposals'
  <2>1. /\ intro[n] # None /\ intro' = [intro EXCEPT ![n] = Append(@, d)]
        /\ d \notin proposed /\ proposed' = proposed \cup {d}
        /\ UNCHANGED <<disk, flight, list, adding, link, stash>>
    BY <1>4 DEF Introduce
  <2>2. ASSUME NEW c \in Chat, Requested(c)' PROVE Requested(c) \/ c = d
    <3>1. PICK m \in Nick : /\ intro'[m] # None
                            /\ \E k \in DOMAIN intro'[m] : intro'[m][k] = c
      BY <2>2 DEF Requested
    <3>2. CASE m # n
      <4>1. intro'[m] = intro[m]
        BY <1>1, <2>1, <3>2 DEF TypeOK
      <4> QED BY <3>1, <4>1 DEF Requested
    <3>3. CASE m = n
      <4>1. intro[n] \in Seq(Chat) /\ intro'[n] = Append(intro[n], d)
        BY <1>1, <2>1 DEF TypeOK
      <4>2. PICK k \in DOMAIN intro'[n] : intro'[n][k] = c
        BY <3>1, <3>3
      <4>3. (k \in DOMAIN intro[n] /\ intro[n][k] = c) \/ c = d
        BY <4>1, <4>2
      <4> QED BY <2>1, <4>3 DEF Requested
    <3> QED BY <3>2, <3>3
  <2>3. d \in proposed' /\ d # adding
    BY <1>1, <2>1 DEF Proposals
  <2>4. \A c \in Chat : Used(c)' => Used(c) \/ c = d
    BY <2>1, <2>2 DEF Used, Writes
  <2>5. {link', stash'} \subseteq proposed' \cup {None}
    BY <1>1, <2>1 DEF Proposals
  <2> QED BY <2>1, <2>3, <2>4, <2>5, ProposalsGrow
<1>5. ASSUME NEW d \in Chat, OpenLink(d) PROVE Proposals'
  <2>1. /\ proposed' = proposed \cup {d} /\ link' = d
        /\ UNCHANGED <<intro, disk, flight, list, adding, stash>>
    BY <1>5 DEF OpenLink
  <2>2. \A c \in Chat : Used(c)' => Used(c)
    BY <2>1 DEF Used, Requested, Writes
  <2>3. {link', stash'} \subseteq proposed' \cup {None}
    BY <1>1, <2>1 DEF Proposals
  <2> QED BY <2>1, <2>2, <2>3, ProposalsGrow
<1>6. CASE Redirect
  <2>1. /\ {link', stash'} \subseteq {link, None}
        /\ UNCHANGED <<intro, proposed, disk, flight, list, adding>>
    BY <1>6 DEF Redirect, Stashed
  <2>2. \A c \in Chat : Used(c)' => Used(c)
    BY <2>1 DEF Used, Requested, Writes
  <2>3. {link', stash'} \subseteq proposed' \cup {None}
    BY <1>1, <2>1 DEF Proposals
  <2> QED BY <2>1, <2>2, <2>3, ProposalsGrow
<1>7. ASSUME NEW i \in DOMAIN flight, Land(i) PROVE Proposals'
  <2>1. /\ Writes(flight') \subseteq Writes(flight)
        /\ flight[i] \in Writes(flight)
        /\ disk' = [disk EXCEPT ![flight[i].key] = flight[i].value]
        /\ UNCHANGED <<intro, proposed, list, adding, link, stash>>
    BY <1>1, <1>7, Lands DEF Land
  <2>2. disk'.list = disk.list
          \/ (flight[i].key = "list" /\ disk'.list = flight[i].value)
    BY <1>1, <2>1 DEF TypeOK
  <2>3. \A c \in Chat : Used(c)' => Used(c)
    BY <2>1, <2>2 DEF Used, Requested
  <2> QED BY <1>1, <2>1, <2>3, ProposalsGrow DEF Proposals
<1>8. CASE OpenPage
  <2>1. /\ list' \subseteq {link, stash} \ {None}
        /\ {link', stash'} \subseteq {stash, None}
        /\ adding = None /\ adding' = None
        /\ UNCHANGED <<intro, proposed, disk, flight>>
    BY <1>1, <1>8 DEF OpenPage, Invited, Places
  <2>2. \A c \in Chat : Used(c)' => Used(c) \/ c \in list'
    BY <2>1 DEF Used, Requested, Writes
  <2>3. \A c \in list' : c \in proposed' /\ c # adding
    BY <1>1, <2>1 DEF Proposals
  <2>4. {link', stash'} \subseteq proposed' \cup {None}
    BY <1>1, <2>1 DEF Proposals
  <2> QED BY <2>1, <2>2, <2>3, <2>4, ProposalsGrow
<1>9. CASE Restore
  <2>1. /\ list' = disk.list \cup list
        /\ flight' = Append(flight, [key |-> "list", value |-> list'])
        /\ UNCHANGED <<intro, proposed, disk, adding, link, stash>>
    BY <1>9 DEF Restore, Merged
  <2>2. [key |-> "list", value |-> list'] \in Write
    BY <1>1, <2>1 DEF TypeOK, Write
  <2>3. Writes(flight') =
          Writes(flight) \cup {[key |-> "list", value |-> list']}
    <3>1. flight \in Seq(Write)
      BY <1>1, WriteFacts
    <3> QED BY <2>1, <2>2, <3>1, Begins
  <2>4. \A w \in Writes(flight') : w \in Writes(flight) \/ w.value = list'
    BY <2>3
  <2>5. \A c \in Chat : Used(c)' => Used(c)
    <3>1. \A c \in list' : Used(c)
      BY <2>1 DEF Used
    <3>2. \A c \in Chat : Requested(c)' => Requested(c)
      BY <2>1 DEF Requested
    <3> QED BY <2>1, <2>4, <3>1, <3>2 DEF Used
  <2> QED BY <1>1, <2>1, <2>5, ProposalsGrow DEF Proposals
<1>10. ASSUME NEW d \in Chat, CreateInvite(d) PROVE Proposals'
  <2>1. /\ d \notin proposed /\ proposed' = proposed \cup {d}
        /\ list' = list \cup {d} /\ flight' = Saved(list \cup {d})
        /\ UNCHANGED <<intro, disk, adding, link, stash>>
    BY <1>10 DEF CreateInvite, Becomes
  <2>2. d # adding /\ list \cup {d} \subseteq Chat
    BY <1>1 , <2>1 DEF Proposals, TypeOK
  <2>3. \A c \in list \cup {d} : Used(c) \/ (c \in proposed' /\ c # adding)
    BY <2>1, <2>2 DEF Used
  <2> QED BY <2>1, <2>2, <2>3, ProposalsSaved
<1>11. ASSUME NEW d \in Chat, AddByAlias(d) PROVE Proposals'
  <2>1. /\ d \notin proposed /\ proposed' = proposed \cup {d} /\ adding' = d
        /\ UNCHANGED <<intro, disk, flight, list, link, stash>>
    BY <1>11 DEF AddByAlias
  <2>2. \A c \in Chat : Used(c)' => Used(c)
    BY <2>1 DEF Used, Requested, Writes
  <2>3. \A c \in Chat : Used(c)' => c \in proposed' /\ c # adding'
    BY <1>1, <2>1, <2>2 DEF Proposals
  <2>4. {link', stash', adding'} \subseteq proposed' \cup {None}
    BY <1>1, <2>1 DEF Proposals
  <2> QED BY <2>3, <2>4 DEF Proposals
<1>12. CASE Added
  <2>1. /\ adding \in Chat /\ adding' = None
        /\ list' = list \cup {adding} /\ flight' = Saved(list \cup {adding})
        /\ UNCHANGED <<intro, proposed, disk, link, stash>>
    BY <1>1, <1>12 DEF Added, Becomes, TypeOK
  <2>2. list \cup {adding} \subseteq Chat
    BY <1>1, <2>1 DEF TypeOK
  <2>3. Writes(flight') \subseteq
          Writes(flight) \cup {[key |-> "list", value |-> list']}
    BY <1>1, <2>1, <2>2, Saves
  <2>4. \A c \in Chat : Used(c)' => Used(c) \/ c = adding
    BY <2>1, <2>3 DEF Used, Requested
  <2>5. \A c \in Chat : Used(c)' => c \in proposed' /\ c # adding'
    BY <1>1, <2>1, <2>4 DEF Proposals
  <2>6. {link', stash', adding'} \subseteq proposed' \cup {None}
    BY <1>1, <2>1 DEF Proposals
  <2> QED BY <2>5, <2>6 DEF Proposals
<1>13. ASSUME NEW d \in list, DeleteChat(d) PROVE Proposals'
  <2>1. /\ list' = list \ {d} /\ flight' = Saved(list \ {d})
        /\ UNCHANGED <<intro, proposed, disk, adding, link, stash>>
    BY <1>13 DEF DeleteChat, Becomes
  <2>2. list \ {d} \subseteq Chat /\ \A c \in list \ {d} : Used(c)
    BY <1>1 DEF TypeOK, Used
  <2> QED BY <2>1, <2>2, ProposalsSaved
<1>14. ASSUME NEW reload \in BOOLEAN, ClosePage(reload)
       PROVE  Proposals'
  <2>1. /\ list' = {} /\ flight' = <<>> /\ adding' = None
        /\ link' \in {link, None} /\ UNCHANGED <<intro, proposed, disk, stash>>
    BY <1>14 DEF ClosePage
  <2>2. \A c \in Chat : Used(c)' => Used(c)
    BY <2>1 DEF Used, Requested, Writes
  <2> QED BY <1>1, <2>1, <2>2, ProposalsGrow DEF Proposals
<1>15. ASSUME NEW seq \in pending, NEW accept \in BOOLEAN, Answer(seq, accept)
       PROVE  Proposals'
  <2>1. PICK new \in SUBSET Chat :
          /\ \A c \in new : Requested(c)
          /\ list' = list \cup new
          /\ \A w \in Writes(flight') :
               \/ w \in Writes(flight)
               \/ w = [key |-> "list", value |-> list']
               \/ w = [key |-> "handled", value |-> handled']
    BY <1>1, <1>15, Answers
  <2>2. UNCHANGED <<intro, proposed, disk, adding, link, stash>>
    BY <1>15 DEF Answer
  <2>3. \A w \in Writes(flight') :
          w.key = "list" => w \in Writes(flight) \/ w.value = list'
    BY <2>1
  <2>4. \A c \in Chat : Used(c)' => Used(c)
    BY <2>1, <2>2, <2>3 DEF Used, Requested
  <2> QED BY <1>1, <2>2, <2>4, ProposalsGrow DEF Proposals
<1> QED
  BY <1>2, <1>3, <1>4, <1>5, <1>6, <1>7, <1>8, <1>9, <1>10, <1>11, <1>12,
     <1>13, <1>14, <1>15
     DEF Next, vars, Registered, ClaimAliasLink, OpenAliasLink, SignIn,
         SignOut, Poll, Show

\* The actions that only write the list.
ListAction ==
  \/ Restore \/ Added
  \/ \E c \in Chat : CreateInvite(c)
  \/ \E c \in list : DeleteChat(c)

LEMMA ListWrites ==
  ASSUME IInv, ListAction
  PROVE  /\ UNCHANGED <<disk, inbox, answered, shown, raced>>
         /\ disturbed => disturbed'
         /\ page' # "open" => Writes(flight') = Writes(flight) /\ page # "open"
         /\ \A w \in Writes(flight') : w \in Writes(flight) \/ w.key = "list"
         /\ \A v : Settles(flight, disk, "handled", v) =>
                     Settles(flight', disk', "handled", v)
         /\ /\ page' = "open"
            /\ page = "open" => Settles(flight, disk, "list", list)
            => Settles(flight', disk', "list", list')
<1>1. TypeOK
  BY DEF IInv
<1>2. CASE Restore
  <2>1. /\ flight' = Append(flight, [key |-> "list", value |-> list'])
        /\ page' = "open" /\ disk' = disk
        /\ UNCHANGED <<inbox, answered, shown, raced, disturbed>>
    BY <1>2 DEF Restore
  <2>2. [key |-> "list", value |-> list'] \in Write
    BY <1>1, <1>2 DEF TypeOK, Restore, Merged, Write
  <2>3. flight \in Seq(Write)
    BY <1>1, WriteFacts
  <2>4. /\ Writes(flight') =
             Writes(flight) \cup {[key |-> "list", value |-> list']}
        /\ Settles(flight', disk, "list", list')
        /\ \A v : Settles(flight, disk, "handled", v) =>
                    Settles(flight', disk, "handled", v)
    <3> DEFINE w == [key |-> "list", value |-> list']
    <3>1. /\ w \in Write /\ w.key = "list" /\ w.value = list'
          /\ "list" # "handled"
      BY <2>2
    <3>2. flight' = Append(flight, w)
      BY <2>1
    <3> HIDE DEF w
    <3>3. Writes(flight') = Writes(flight) \cup {w}
      BY <2>3, <3>1, <3>2, Begins
    <3>4. Settles(flight', disk, "list", list')
      BY <2>3, <3>1, <3>2, Begins
    <3>5. \A v : Settles(flight, disk, "handled", v) =>
                   Settles(flight', disk, "handled", v)
      BY <2>3, <3>1, <3>2, Begins
    <3> QED BY <3>3, <3>4, <3>5 DEF w
  <2> QED BY <2>1, <2>4
<1>3. ASSUME NEW chats, chats \subseteq Chat, Becomes(chats),
             UNCHANGED <<disk, page, inbox, answered, shown, raced>>,
             disturbed => disturbed'
      PROVE  /\ page' # "open" =>
                  Writes(flight') = Writes(flight) /\ page # "open"
             /\ \A w \in Writes(flight') :
                  w \in Writes(flight) \/ w.key = "list"
             /\ \A v : Settles(flight, disk, "handled", v) =>
                         Settles(flight', disk', "handled", v)
             /\ page' = "open" /\ Settles(flight, disk, "list", list)
                  => Settles(flight', disk', "list", list')
  <2>1. flight' = Saved(chats) /\ list' = chats
    BY <1>3 DEF Becomes
  <2>2. /\ Writes(flight') \subseteq
             Writes(flight) \cup {[key |-> "list", value |-> chats]}
        /\ page # "open" => Writes(flight') = Writes(flight)
        /\ page = "open" /\ Settles(flight, disk, "list", list) =>
             Settles(flight', disk, "list", chats)
        /\ \A v : Settles(flight, disk, "handled", v) =>
                    Settles(flight', disk, "handled", v)
    BY <1>1, <1>3, <2>1, Saves
  <2> QED BY <1>3, <2>1, <2>2
<1>4. CASE Added
  <2>1. /\ list \cup {adding} \subseteq Chat /\ Becomes(list \cup {adding})
        /\ UNCHANGED <<disk, page, inbox, answered, shown, raced, disturbed>>
    BY <1>1, <1>4 DEF Added, TypeOK
  <2> QED BY <1>3, <2>1
<1>5. ASSUME NEW c \in Chat, CreateInvite(c)
      PROVE  /\ list \cup {c} \subseteq Chat /\ Becomes(list \cup {c})
             /\ UNCHANGED <<disk, page, inbox, answered, shown, raced,
                            disturbed>>
  BY <1>1, <1>5 DEF CreateInvite, TypeOK
<1>6. ASSUME NEW c \in list, DeleteChat(c)
      PROVE  /\ list \ {c} \subseteq Chat /\ Becomes(list \ {c})
             /\ UNCHANGED <<disk, page, inbox, answered, shown, raced>>
             /\ disturbed => disturbed'
  BY <1>1, <1>6 DEF DeleteChat, TypeOK
<1>7. CASE \E c \in Chat : CreateInvite(c)
  <2>1. PICK c \in Chat : CreateInvite(c)
    BY <1>7
  <2>2. /\ list \cup {c} \subseteq Chat /\ Becomes(list \cup {c})
        /\ UNCHANGED <<disk, page, inbox, answered, shown, raced, disturbed>>
    BY <1>5, <2>1
  <2> QED BY <1>3, <2>2
<1>8. CASE \E c \in list : DeleteChat(c)
  <2>1. PICK c \in list : DeleteChat(c)
    BY <1>8
  <2>2. /\ list \ {c} \subseteq Chat /\ Becomes(list \ {c})
        /\ UNCHANGED <<disk, page, inbox, answered, shown, raced>>
        /\ disturbed => disturbed'
    BY <1>6, <2>1
  <2> QED BY <1>3, <2>2
<1> QED BY <1>2, <1>4, <1>7, <1>8 DEF ListAction

LEMMA HandlingKept == ASSUME IInv, [Next]_vars PROVE Handling'
<1>1. TypeOK /\ Places /\ Queues /\ Handling
  BY DEF IInv
<1>2. CASE UNCHANGED <<disk, flight, inbox, answered, shown, raced>>
  BY <1>1, <1>2 DEF Handling, WasAnswered
<1>3. CASE ListAction
  <2>1. /\ UNCHANGED <<disk, inbox, answered, shown, raced>>
        /\ \A w \in Writes(flight') : w \in Writes(flight) \/ w.key = "list"
    BY <1>3, ListWrites
  <2> QED BY <1>1, <2>1 DEF Handling, WasAnswered
<1>4. ASSUME NEW i \in DOMAIN flight, Land(i) PROVE Handling'
  <2>1. /\ Writes(flight') \subseteq Writes(flight)
        /\ flight[i] \in Writes(flight)
        /\ disk' = [disk EXCEPT ![flight[i].key] = flight[i].value]
        /\ UNCHANGED <<inbox, answered, shown, raced>>
    BY <1>1, <1>4, Lands DEF Land
  <2>2. disk'.handled = disk.handled
          \/ (flight[i].key = "handled" /\ disk'.handled = flight[i].value)
    BY <1>1, <2>1 DEF TypeOK
  <2> QED BY <1>1, <2>1, <2>2 DEF Handling, WasAnswered
<1>5. ASSUME NEW reload \in BOOLEAN, ClosePage(reload)
      PROVE  Handling'
  <2>1. /\ flight' = <<>> /\ handled' = {} /\ pending' = {} /\ poll' = None
        /\ shown' = 0 /\ UNCHANGED <<disk, answered>>
    BY <1>5 DEF ClosePage
  <2>2. Writes(flight') = {}
    BY <2>1 DEF Writes
  <2> QED BY <1>1, <2>1, <2>2 DEF Handling, WasAnswered
<1>6. CASE Poll
  <2>1. /\ ownAlias' \in Nick /\ intro[ownAlias'] \in Seq(Chat)
        /\ poll' = [found |-> DOMAIN intro[ownAlias'] \ handled',
                    of |-> Len(intro[ownAlias'])]
        /\ handled' = IF handledLoaded THEN handled ELSE disk.handled
        /\ UNCHANGED <<disk, flight, answered, pending, shown, raced>>
    BY <1>1, <1>6 DEF TypeOK, Queues, Poll, Unhandled, Loaded
  <2>2. \A seq \in 1 .. poll'.of : seq \in poll'.found \/ seq \in handled'
    BY <2>1
  <2>3. ~handledLoaded => shown = 0 /\ pending = {}
    BY <1>1 DEF Places
  <2>4. \A seq \in handled' \cup disk.handled : WasAnswered(seq)
    BY <1>1, <2>1 DEF Handling
  <2>5. \A seq \in 1 .. shown : seq \in pending \/ seq \in handled'
    BY <1>1, <2>1, <2>3 DEF Handling
  <2>6. ~raced => \A seq \in pending : seq \notin handled'
    BY <1>1, <2>1, <2>3 DEF Handling
  <2> QED BY <1>1, <2>1, <2>2, <2>4, <2>5, <2>6 DEF Handling, WasAnswered
<1>7. CASE Show
  <2>1. /\ poll # None /\ pending' = poll.found /\ shown' = poll.of
        /\ raced' = (poll.found \cap handled # {}) /\ poll' = None
        /\ UNCHANGED <<disk, flight, answered, handled>>
    BY <1>7 DEF Show
  <2> QED BY <1>1, <2>1 DEF Handling, WasAnswered
<1>8. ASSUME NEW seq \in pending, NEW accept \in BOOLEAN, Answer(seq, accept)
      PROVE  Handling'
  <2>1. /\ handled' = handled \cup {seq} /\ pending' = pending \ {seq}
        /\ answered' = answered \cup {<<ownAlias, seq>>}
        /\ UNCHANGED <<disk, poll, shown, raced>>
    BY <1>8 DEF Answer
  <2>2. \A w \in Writes(flight') :
          \/ w \in Writes(flight)
          \/ w.key = "list"
          \/ w.key = "handled" /\ w.value = handled'
    BY <1>1, <1>8, Answers
  <2>3. WasAnswered(seq)' /\ \A k : WasAnswered(k) => WasAnswered(k)'
    <3>1. <<ownAlias, seq>> \in answered' /\ <<ownAlias, seq>>[2] = seq
      BY <2>1
    <3>2. WasAnswered(seq)'
      BY <3>1 DEF WasAnswered
    <3>3. answered \subseteq answered'
      BY <2>1
    <3> HIDE <2>1
    <3> QED BY <3>2, <3>3 DEF WasAnswered
  <2>4. \A k \in handled' \cup disk'.handled : WasAnswered(k)'
    BY <1>1, <2>1, <2>3 DEF Handling
  <2>5. \A w \in Writes(flight') :
          w.key = "handled" => \A k \in w.value : WasAnswered(k)'
    BY <1>1, <2>2, <2>3, <2>4 DEF Handling
  <2>6. poll' # None =>
          \A k \in 1 .. poll'.of : k \in poll'.found \/ k \in handled'
    BY <1>1, <2>1 DEF Handling
  <2>7. \A k \in 1 .. shown' : k \in pending' \/ k \in handled'
    BY <1>1, <2>1 DEF Handling
  <2>8. ~raced' => \A k \in pending' : k \notin handled'
    BY <1>1, <2>1 DEF Handling
  <2> QED BY <2>4, <2>5, <2>6, <2>7, <2>8 DEF Handling
<1> QED
  BY <1>2, <1>3, <1>4, <1>5, <1>6, <1>7, <1>8
     DEF Next, ListAction, vars, Register, PublishAliasLink, Registered,
         ClaimAliasLink, OpenAliasLink, Introduce, SignIn, SignOut, Redirect,
         OpenLink, AddByAlias, OpenPage

LEMMA StoredKept == ASSUME IInv, [Next]_vars PROVE Stored'
<1>1. TypeOK /\ Places /\ Queues /\ Stored
  BY DEF IInv
<1>2. CASE /\ UNCHANGED <<disk, flight, page, list, handled, handledLoaded>>
           /\ disturbed => disturbed'
  BY <1>1, <1>2 DEF Stored
<1>3. CASE ListAction
  <2>1. /\ UNCHANGED <<handled, handledLoaded>>
        /\ disturbed => disturbed'
        /\ page' # "open" => Writes(flight') = Writes(flight) /\ page # "open"
        /\ \A w \in Writes(flight') : w \in Writes(flight) \/ w.key = "list"
        /\ Settles(flight, disk, "handled", handled) =>
             Settles(flight', disk', "handled", handled)
        /\ /\ page' = "open"
           /\ page = "open" => Settles(flight, disk, "list", list)
           => Settles(flight', disk', "list", list')
    BY <1>3, ListWrites
  <2>2. page' # "open" => \A w \in Writes(flight') : w.key # "list"
    BY <1>1, <2>1 DEF Stored
  <2>3. ~handledLoaded' => \A w \in Writes(flight') : w.key # "handled"
    BY <1>1, <2>1 DEF Stored
  <2>4. ~disturbed' /\ page' = "open" => Settles(flight', disk', "list", list')
    BY <1>1, <2>1 DEF Stored
  <2>5. ~disturbed' /\ handledLoaded' =>
          Settles(flight', disk', "handled", handled')
    BY <1>1, <2>1 DEF Stored
  <2> QED BY <2>2, <2>3, <2>4, <2>5 DEF Stored
<1>4. ASSUME NEW i \in DOMAIN flight, Land(i) PROVE Stored'
  <2>1. /\ UNCHANGED <<page, list, handled, handledLoaded>>
        /\ disturbed => disturbed'
    BY <1>4 DEF Land
  <2>2. Writes(flight') \subseteq Writes(flight)
    BY <1>1, <1>4, Lands
  <2>3. ASSUME ~disturbed', NEW k, NEW v, Settles(flight, disk, k, v)
        PROVE  Settles(flight', disk', k, v)
    BY <1>1, <1>4, <2>3, LandSettles
  <2> QED BY <1>1, <2>1, <2>2, <2>3 DEF Stored
<1>5. CASE OpenPage
  <2>1. /\ page' = "restoring" /\ flight = <<>>
        /\ UNCHANGED <<disk, flight, handled, handledLoaded, disturbed>>
    BY <1>1, <1>5 DEF OpenPage, Places
  <2>2. Writes(flight') = {}
    BY <2>1 DEF Writes
  <2>3. ~disturbed' /\ handledLoaded' =>
          Settles(flight', disk', "handled", handled')
    BY <1>1, <2>1 DEF Stored
  <2> QED BY <2>1, <2>2, <2>3 DEF Stored
<1>6. ASSUME NEW reload \in BOOLEAN, ClosePage(reload)
      PROVE  Stored'
  <2>1. page' = "closed" /\ flight' = <<>> /\ ~handledLoaded'
    BY <1>6 DEF ClosePage
  <2>2. Writes(flight') = {}
    BY <2>1 DEF Writes
  <2> QED BY <2>1, <2>2 DEF Stored
<1>7. CASE Poll
  <2>1. /\ handled' = IF handledLoaded THEN handled ELSE disk.handled
        /\ handledLoaded' /\ UNCHANGED <<disk, flight, page, list, disturbed>>
    BY <1>7 DEF Poll, Loaded
  <2>2. ASSUME ~handledLoaded
        PROVE  Settles(flight, disk, "handled", disk.handled)
    <3>1. \A i \in DOMAIN flight : flight[i].key # "handled"
      BY <1>1, <2>2 DEF Stored, Writes
    <3> QED BY <3>1 DEF Settles
  <2> QED BY <1>1, <2>1, <2>2 DEF Stored
<1>8. ASSUME NEW seq \in pending, NEW accept \in BOOLEAN, Answer(seq, accept)
      PROVE  Stored'
  <2>1. UNCHANGED <<disk, page, handledLoaded, disturbed>>
    BY <1>8 DEF Answer
  <2>2. /\ handledLoaded
        /\ \A w \in Writes(flight') :
             \/ w \in Writes(flight)
             \/ page = "open" /\ w.key = "list"
             \/ w.key = "handled"
        /\ Settles(flight', disk, "handled", handled')
        /\ page = "open" /\ Settles(flight, disk, "list", list) =>
             Settles(flight', disk, "list", list')
    BY <1>1, <1>8, Answers
  <2>3. page' # "open" => \A w \in Writes(flight') : w.key # "list"
    BY <1>1, <2>1, <2>2 DEF Stored
  <2> QED BY <1>1, <2>1, <2>2, <2>3 DEF Stored
<1>9. ASSUME NEW c \in Chat, OpenLink(c) PROVE Stored'
  BY <1>2, <1>9 DEF OpenLink
<1> QED
  BY <1>2, <1>3, <1>4, <1>5, <1>6, <1>7, <1>8, <1>9
     DEF Next, ListAction, vars, Register, PublishAliasLink, Registered,
         ClaimAliasLink, OpenAliasLink, Introduce, SignIn, SignOut, Redirect,
         AddByAlias, Show

LEMMA RememberedKept == ASSUME IInv, [Next]_vars PROVE Remembered'
<1>1. TypeOK /\ Places /\ Queues /\ Stored /\ Remembered
  BY DEF IInv
<1>2. CASE /\ UNCHANGED <<answered, handled, handledLoaded, disk, link, stash>>
           /\ disturbed => disturbed'
  BY <1>1, <1>2 DEF Remembered
<1>3. ASSUME NEW c \in Chat, OpenLink(c) PROVE Remembered'
  <2>1. /\ link' = c
        /\ UNCHANGED <<answered, handled, handledLoaded, disk, stash>>
        /\ disturbed => disturbed'
        /\ ~disturbed' => stash \in {None, c}
    BY <1>3 DEF OpenLink
  <2> QED BY <1>1, <2>1 DEF Remembered
<1>4. CASE Redirect \/ OpenPage
  <2>1. /\ link' = None
        /\ UNCHANGED <<answered, handled, handledLoaded, disk, disturbed>>
    BY <1>4 DEF Redirect, OpenPage
  <2> QED BY <1>1, <2>1 DEF Remembered
<1>5. CASE ListAction
  <2>1. /\ UNCHANGED <<answered, handled, handledLoaded, disk>>
        /\ disturbed => disturbed'
    BY <1>5, ListWrites
  <2>2. UNCHANGED <<link, stash>>
    BY <1>5 DEF ListAction, Restore, Added, CreateInvite, DeleteChat
  <2> QED BY <1>1, <2>1, <2>2 DEF Remembered
<1>6. ASSUME NEW i \in DOMAIN flight, Land(i) PROVE Remembered'
  <2>1. /\ UNCHANGED <<answered, handled, handledLoaded, link, stash>>
        /\ disturbed => disturbed'
    BY <1>6 DEF Land
  <2>2. ~handledLoaded => disk'.handled = disk.handled
    <3>1. /\ flight[i] \in Writes(flight)
          /\ disk' = [disk EXCEPT ![flight[i].key] = flight[i].value]
      BY <1>1, <1>6, Lands
    <3>2. ~handledLoaded => flight[i].key # "handled"
      BY <1>1, <3>1 DEF Stored
    <3> QED BY <1>1, <3>1, <3>2 DEF TypeOK
  <2> QED BY <1>1, <2>1, <2>2 DEF Remembered
<1>7. ASSUME NEW reload \in BOOLEAN, ClosePage(reload)
      PROVE  Remembered'
  <2>1. /\ ~handledLoaded' /\ link' \in {link, None}
        /\ UNCHANGED <<answered, disk, stash>>
        /\ disturbed => disturbed'
        /\ ~disturbed' => flight = <<>>
    BY <1>7 DEF ClosePage
  <2>2. ~disturbed' /\ handledLoaded => disk.handled = handled
    BY <1>1, <2>1 DEF Stored, Settles
  <2> QED BY <1>1, <2>1, <2>2 DEF Remembered
<1>8. CASE Poll
  <2>1. /\ handled' = IF handledLoaded THEN handled ELSE disk.handled
        /\ handledLoaded'
        /\ UNCHANGED <<disk, answered, link, stash, disturbed>>
    BY <1>8 DEF Poll, Loaded
  <2> QED BY <1>1, <2>1 DEF Remembered
<1>9. ASSUME NEW seq \in pending, NEW accept \in BOOLEAN, Answer(seq, accept)
      PROVE  Remembered'
  <2>1. /\ answered' = answered \cup {<<ownAlias, seq>>}
        /\ handled' = handled \cup {seq}
        /\ UNCHANGED <<disk, handledLoaded, link, stash, disturbed>>
    BY <1>9 DEF Answer
  <2>2. handledLoaded
    BY <1>1, <1>9 DEF Places
  <2>3. \A a \in answered' : a \in answered \/ a[2] = seq
    BY <2>1
  <2> QED BY <1>1, <2>1, <2>2, <2>3 DEF Remembered
<1> QED
  BY <1>2, <1>3, <1>4, <1>5, <1>6, <1>7, <1>8, <1>9
     DEF Next, ListAction, vars, Register, PublishAliasLink, Registered,
         ClaimAliasLink, OpenAliasLink, Introduce, SignIn, SignOut,
         AddByAlias, Show

LEMMA ContactsKept ==
  ASSUME IInv, [Next]_vars
  PROVE  ContactsKeptUnlessDisturbed'
<1> DEFINE waiting == {link, stash, adding} \ {None}
           kept == IF page = "open" THEN list ELSE disk.list \cup list
<1>1. /\ TypeOK /\ Places /\ Queues /\ Proposals /\ Stored /\ Remembered
      /\ ContactsKeptUnlessDisturbed /\ None \notin Chat
  BY ContactsAssumption DEF IInv
<1>2. ~disturbed => wanted = waiting \cup kept
  BY <1>1 DEF ContactsKeptUnlessDisturbed
<1> SUFFICES ASSUME ~disturbed' PROVE wanted' = waiting' \cup kept'
  BY DEF ContactsKeptUnlessDisturbed
<1> USE DEF TypeOK
<1>3. CASE UNCHANGED <<wanted, link, stash, adding, page, list, disk,
                       disturbed>>
  BY <1>2, <1>3
<1>4. ASSUME NEW c \in Chat, OpenLink(c) PROVE wanted' = waiting' \cup kept'
  BY <1>1, <1>2, <1>4 DEF OpenLink
<1>5. CASE Redirect
  <2>1. /\ stash' = link /\ link' = None /\ stash \in {None, link}
        /\ UNCHANGED <<wanted, adding, page, list, disk, disturbed>>
    BY <1>1, <1>5 DEF Redirect, Stashed, Remembered
  <2> QED BY <1>2, <2>1
<1>6. ASSUME NEW i \in DOMAIN flight, Land(i)
      PROVE  wanted' = waiting' \cup kept'
  <2>1. /\ UNCHANGED <<wanted, link, stash, adding, page, list>>
        /\ ~disturbed
    BY <1>6 DEF Land
  <2>2. page # "open" => disk'.list = disk.list
    <3>1. /\ flight[i] \in Writes(flight)
          /\ disk' = [disk EXCEPT ![flight[i].key] = flight[i].value]
      <4> HIDE DEF TypeOK
      <4> QED BY <1>1, <1>6, Lands
    <3>2. page # "open" => flight[i].key # "list"
      BY <1>1, <3>1 DEF Stored
    <3> QED BY <1>1, <3>1, <3>2
  <2> QED BY <1>2, <2>1, <2>2
<1>7. CASE OpenPage
  <2>1. /\ list = {} /\ page = "closed" /\ page' = "restoring"
        /\ list' \cup ({stash', link'} \ {None}) = {link, stash} \ {None}
        /\ UNCHANGED <<wanted, adding, disk, disturbed>>
    BY <1>1, <1>7 DEF OpenPage, Invited, Places
  <2> QED BY <1>2, <2>1
<1>8. CASE Restore
  BY <1>2, <1>8 DEF Restore, Merged
<1>9. ASSUME NEW c \in Chat, CreateInvite(c)
      PROVE  wanted' = waiting' \cup kept'
  BY <1>2, <1>9 DEF CreateInvite, Becomes
<1>10. ASSUME NEW c \in Chat, AddByAlias(c)
       PROVE  wanted' = waiting' \cup kept'
  BY <1>1, <1>2, <1>10 DEF AddByAlias
<1>11. CASE Added
  BY <1>1, <1>2, <1>11 DEF Added, Becomes
<1>12. ASSUME NEW c \in list, DeleteChat(c)
       PROVE  wanted' = waiting' \cup kept'
  <2>1. /\ list' = list \ {c} /\ wanted' = wanted \ {c} /\ ~disturbed
        /\ c \notin {link, stash} /\ (page = "restoring" => c \notin disk.list)
        /\ UNCHANGED <<link, stash, adding, page, disk>>
    BY <1>12 DEF DeleteChat, Becomes
  <2>2. c \in Chat /\ c # adding
    BY <1>1 DEF Proposals, Used
  <2>3. page # "closed"
    BY <1>1 DEF Places
  <2>4. c \notin waiting
    BY <1>1, <2>1, <2>2, <2>3
  <2>5. kept' = kept \ {c}
    BY <1>1, <2>1, <2>3
  <2> QED BY <1>2, <2>1, <2>4, <2>5
<1>13. ASSUME NEW reload \in BOOLEAN, ClosePage(reload)
       PROVE  wanted' = waiting' \cup kept'
  <2>1. /\ page' = "closed" /\ list' = {} /\ adding' = None /\ adding = None
        /\ flight = <<>> /\ (page = "restoring" => list = {}) /\ ~disturbed
        /\ page # "closed" /\ link' = link /\ UNCHANGED <<wanted, stash, disk>>
    BY <1>13 DEF ClosePage
  <2>2. page = "open" => disk.list = list
    BY <1>1, <2>1 DEF Stored, Settles
  <2> QED BY <1>1, <1>2, <2>1, <2>2
<1>14. ASSUME NEW seq \in pending, NEW accept \in BOOLEAN, Answer(seq, accept)
       PROVE  wanted' = waiting' \cup kept'
  <2>1. PICK new : list' = list \cup new /\ wanted' = wanted \cup new
    BY <1>14 DEF Answer
  <2>2. UNCHANGED <<link, stash, adding, page, disk, disturbed>>
    BY <1>14 DEF Answer
  <2> QED BY <1>2, <2>1, <2>2
<1> HIDE DEF waiting, kept
<1> QED
  BY <1>3, <1>4, <1>5, <1>6, <1>7, <1>8, <1>9, <1>10, <1>11, <1>12, <1>13,
     <1>14
     DEF Next, vars, Register, PublishAliasLink, Registered, ClaimAliasLink,
         OpenAliasLink, Introduce, SignIn, SignOut, Poll, Show

-----------------------------------------------------------------------------
(* Theorems *)

LEMMA Initially == Init => IInv
<1> SUFFICES ASSUME Init PROVE IInv
  OBVIOUS
<1> USE DEF Init
<1>1. Writes(flight) = {}
  BY DEF Writes
<1>2. TypeOK
  <2>1. [n \in Nick |-> None] \in [Nick -> Seq(Chat) \cup {None}]
    OBVIOUS
  <2>2. [list |-> {}, handled |-> {}]
          \in [list : SUBSET Chat, handled : SUBSET Nat]
    OBVIOUS
  <2>3. <<>> \in Seq([key : {"list"}, value : SUBSET Chat]
                     \cup [key : {"handled"}, value : SUBSET Nat])
    OBVIOUS
  <2>4. events \in 0 .. MaxEvents /\ shown \in Nat
    BY ContactsAssumption
  <2>5. /\ signedIn \in BOOLEAN /\ handledLoaded \in BOOLEAN
        /\ disturbed \in BOOLEAN /\ raced \in BOOLEAN
    OBVIOUS
  <2> QED BY <2>1, <2>2, <2>3, <2>4, <2>5 DEF TypeOK
<1>3. Places /\ Queues /\ Handling /\ Remembered /\ ContactsKeptUnlessDisturbed
  BY <1>1 DEF Places, Queues, Handling, Remembered, ContactsKeptUnlessDisturbed
<1>4. Proposals
  BY <1>1 DEF Proposals, Used, Requested
<1>5. Stored
  BY <1>1 DEF Stored
<1> QED BY <1>2, <1>3, <1>4, <1>5 DEF IInv

\* The invariant that all the others follow from: what a page holds, the queues
\* behind the aliases, chats that are in use before they are listed, requests
\* that are handled once they were answered, and writes that settle, when they
\* land in their order, to what the page shows.
THEOREM Invariance == Spec => []IInv
<1>1. IInv /\ [Next]_vars => IInv'
  BY Types, PlacesKept, QueuesKept, ProposalsKept, HandlingKept, StoredKept,
     RememberedKept, ContactsKept DEF IInv
<1> QED BY <1>1, Initially, PTL DEF Spec

\* The types of the alias, the store, the page and its inbox.
THEOREM ContactTypes == Spec => []TypeOK
<1>1. IInv => TypeOK
  BY DEF IInv
<1> QED BY <1>1, Invariance, PTL

\* For any number of pages, sign-ins, links and writes that overlap: the list
\* and the links that wait hold the contacts of the user and no others, unless
\* something was disturbed.
THEOREM ContactsStay == Spec => []ContactsKeptUnlessDisturbed
<1>1. IInv => ContactsKeptUnlessDisturbed
  BY DEF IInv
<1> QED BY <1>1, Invariance, PTL

\* A request that was answered does not come back, whatever pages were opened
\* in between, unless a poll was overtaken or a write was lost.
THEOREM AnsweredStayHidden == Spec => []AnsweredHiddenUnlessRaced
<1>1. IInv => AnsweredHiddenUnlessRaced
  <2> SUFFICES ASSUME IInv, ~raced, ~disturbed, NEW seq \in pending,
                      <<ownAlias, seq>> \in answered
               PROVE  FALSE
    BY DEF AnsweredHiddenUnlessRaced
  <2>1. handledLoaded /\ seq \notin handled
    BY DEF IInv, Places, Handling
  <2>2. \A a \in answered : a[2] \in handled
    BY <2>1 DEF IInv, Remembered
  <2>3. <<ownAlias, seq>>[2] \in handled
    BY <2>2
  <2> QED BY <2>1, <2>3
<1> QED BY <1>1, Invariance, PTL

\* No request that a poll has seen is lost from view before it is answered, in
\* whatever order the others are.
THEOREM RequestsStayShown == Spec => []ShownUntilAnswered
<1>1. IInv => ShownUntilAnswered
  <2> SUFFICES ASSUME IInv, \A a \in answered : a[1] = ownAlias,
                      NEW seq \in 1 .. shown, seq \notin pending
               PROVE  <<ownAlias, seq>> \in answered
    BY DEF ShownUntilAnswered
  <2>1. seq \in handled
    BY DEF IInv, Handling
  <2>2. PICK a \in answered : a[2] = seq
    BY <2>1 DEF IInv, Handling, WasAnswered
  <2>3. a = <<a[1], a[2]>>
    BY DEF IInv, TypeOK
  <2> QED BY <2>2, <2>3
<1> QED BY <1>1, Invariance, PTL

=============================================================================
