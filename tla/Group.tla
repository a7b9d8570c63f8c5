------------------------------- MODULE Group -------------------------------
(***************************************************************************)
(* A group chat: the log of the group (workers/messaging GroupDO), and on  *)
(* every device the MLS session (packages/vortic-core/src/group.rs), the   *)
(* sealed copy of it (apps/web lib/group.ts), the hook that follows the    *)
(* log (hooks/useGroupTransport.ts) and the page (pages/GroupChats.tsx).   *)
(*                                                                         *)
(* An MLS epoch is the sequence of the commits that led to it: two commits *)
(* made in the same epoch lead to different ones.  A device decrypts what  *)
(* was encrypted in the epoch it is in, once, and nothing of its own.      *)
(***************************************************************************)
EXTENDS Integers, Sequences, FiniteSets, SequencesExt

CONSTANTS
  Nothing,
  Device,        \* the devices
  Creator,       \* the one that creates the group
  Invite,        \* the invite links, each of them two queues
  Text,          \* bound of the model: the messages sent
  MaxAdds,       \* bound of the model: the key packages that are made, and the
                 \* polls that find one
  MaxPolls,      \* bound of the model: polls under way at once
  MaxFaults      \* bound of the model: pushes that fail, sockets that drop,
                 \* groups that are left, pages that are reloaded, polls for
                 \* a welcome that outlast the interval, and one for a kind
                 \* of blobs that cannot be read

\* A key package is of a device, made for an invite.  A commit adds one; the
\* number tells the commits of a device apart that add the same.
Package == Device \X Invite
Commit == Device \X Package \X Nat
Epoch == Seq(Commit)

\* A session: the epoch it is in, as the commits that led there, the number of
\* those it began with, and the texts of the epoch whose keys it has used.
Sessions == [epoch : Epoch, start : Nat, used : SUBSET Text]
Session(epoch, start) == [epoch |-> epoch, start |-> start, used |-> {}]

\* An entry of the log was made by a device in an epoch.
Commits == [kind : {"commit"}, by : Device, epoch : Epoch, what : Commit]
Texts == [kind : {"text"}, by : Device, epoch : Epoch, what : Text]

\* The group in the list of a page: texts shown and links that wait.
Listed == [shown : Seq(Text), invites : SUBSET Invite]

ASSUME GroupAssumption ==
  /\ Creator \in Device
  /\ Nothing \notin Device \cup Invite \cup Package \cup Sessions \cup Commits
                  \cup Texts \cup Listed \cup Seq(Nat)
  /\ Text \cap Commit = {}
  /\ MaxAdds \in Nat /\ MaxPolls \in Nat /\ MaxFaults \in Nat

\* padToBucket appends random bytes up to a power of two, nothing takes them
\* off, and tls_deserialize_exact refuses bytes it has no use for: a blob can
\* be read only if its own size is a power of two.  Bound of the model: blobs of
\* one kind at most have another size.
BlobKind == {"package", "welcome", "commit", "text"}

VARIABLES
  fits,       \* fits[k]: blobs of kind k have such a size
  entries,    \* GroupDO table entries; seq is the place in the log
  toCreator,  \* toCreator[i]: the key packages in the queue of i
  toInvitee,  \* toInvitee[i]: the welcomes in the other queue of i
  disk,       \* disk[d]: the sealed session, Nothing without
  seals,      \* the calls of saveGroupSession under way: the session as it
              \* was then, and the entry it was read from or made for, Nothing
              \* when it came with a welcome
  pending,    \* pending[d]: the key package whose secrets are sealed
  joining,    \* joining[d]: the invite whose welcome the page polls for
  live,       \* live[d]: sessionRef of the hook
  open,       \* the devices on which the group is the active one
  maxSeq,     \* maxSeqRef
  socket,     \* socket[d]: the frames under way to d, Nothing without
  list,       \* list[d]: the group in the list of the page: the texts shown
              \* and pendingInviteIds; Nothing without
  polls,      \* the polls of invites that are under way
  sending,    \* the texts whose push is under way
  last,       \* history: the last addition, who made it and where it led
  raced,      \* history: members were added at the same time, by a device
              \* that had not heard of the last addition, or unheard, or their
              \* commits reached the log in another order than they were made,
              \* or an older session was sealed over one with such a commit
  excused,    \* history: devices that dropped entries for want of a session,
              \* forgot texts when their page was reloaded, left the group
              \* while one was being sealed, or sealed an older session over a
              \* newer one
  written,    \* history: the texts that were sent
  adds,       \* history: number of polls that found a key package
  faults      \* history: number of faults

server == <<entries, toCreator, toInvitee>>
store == <<disk, seals, pending>>
hook == <<live, open, maxSeq, socket>>
page == <<joining, list, polls, sending>>
history == <<last, raced, excused, written, adds, faults>>
groupVars == <<fits, server, store, hook, page, history>>

GroupInit ==
  /\ fits \in {f \in [BlobKind -> BOOLEAN] :
                \E k \in BlobKind : \A l \in BlobKind \ {k} : f[l]}
  /\ entries = <<>>
  /\ toCreator = [i \in Invite |-> <<>>]
  /\ toInvitee = [i \in Invite |-> <<>>]
  /\ disk = [d \in Device |->
       IF d = Creator THEN Session(<<>>, 0) ELSE Nothing]
  /\ seals = {} /\ pending = [d \in Device |-> Nothing]
  /\ joining = [d \in Device |-> Nothing]
  /\ live = disk
  /\ open = {Creator}
  /\ maxSeq = [d \in Device |-> 0]
  /\ socket = [d \in Device |-> IF d = Creator THEN <<>> ELSE Nothing]
  /\ list = [d \in Device |->
       IF d = Creator THEN [shown |-> <<>>, invites |-> {}] ELSE Nothing]
  /\ polls = {} /\ sending = {}
  /\ last = [by |-> Creator, epoch |-> <<>>] /\ raced = FALSE /\ excused = {}
  /\ written = {} /\ adds = 0
  /\ faults = IF \A k \in BlobKind : fits[k] THEN 0 ELSE 1

Fault == faults < MaxFaults /\ faults' = faults + 1

PollsOf(d) == {p \in polls : p.by = d}

-----------------------------------------------------------------------------
(* The sealed session: saveGroupSession exports it at once, and the writes of *)
(* sealToStore are not ordered                                                *)

Seal(d, session, entry) == [by |-> d, session |-> session, entry |-> entry]

\* The session of an entry of the device's own is still being sealed.
Sealing(e) == \E s \in seals : s.by = e.by /\ s.entry = e

\* Mutant: a session is sealed once, and not again when it has changed.
SealedOnce(s) ==
  IF disk[s.by] = Nothing THEN [disk EXCEPT ![s.by] = s.session] ELSE disk

Sealed(s) == [disk EXCEPT ![s.by] = s.session]

\* What comes after: a text that was read is shown.
Shows(s) ==
  s.entry # Nothing /\ s.entry.kind = "text" /\ s.entry.by # s.by

\* The sealed session was ahead of the one that is sealed over it; and it had a
\* commit of the device's own that this one has not.
Reverts(s) ==
  LET old == disk[s.by]
      new == s.session
  IN  IF old.epoch = new.epoch THEN ~(old.used \subseteq new.used)
                               ELSE ~IsPrefix(old.epoch, new.epoch)

Forgets(s) ==
  \E k \in Len(s.session.epoch) + 1 .. Len(disk[s.by].epoch) :
    disk[s.by].epoch[k][1] = s.by

\* The session has used the key of a text, or is beyond its epoch.
Spent(session, e) ==
  e.what \in session.used \/ Len(session.epoch) > Len(e.epoch)

\* A write lands.  handleIncomingMessage drops the text when the group is no
\* longer the active one, or shows it in another.
SealLands(s) ==
  /\ s \in seals /\ s.entry # Nothing
  /\ seals' = seals \ {s}
  /\ disk' = Sealed(s)
  /\ list' = IF Shows(s) /\ s.by \in open
             THEN [list EXCEPT ![s.by].shown = Append(@, s.entry.what)]
             ELSE list
  /\ raced' = (raced \/ Forgets(s))
  /\ excused' = IF Reverts(s) \/ (Shows(s) /\ s.by \notin open)
                THEN excused \cup {s.by} ELSE excused
  /\ UNCHANGED <<fits, server, pending, hook, joining, polls, sending, last,
                 written, adds, faults>>

-----------------------------------------------------------------------------
(* GroupDO *)

\* Push stores an entry and sends it to every socket but the ones that carry
\* the tag it came with.
Push(entry, tag) ==
  /\ entries' = Append(entries, entry)
  /\ socket' = [d \in Device |->
       IF socket[d] = Nothing \/ d = tag THEN socket[d]
       ELSE Append(socket[d], Len(entries) + 1)]


\* Subscribe sends what the log has after since_seq, the subscriber's own
\* entries among it.
Backlog(since) == [k \in 1 .. (Len(entries) - since) |-> since + k]

-----------------------------------------------------------------------------
(* The hook: load, connect, follow, send *)

\* The user selects the group: both effects of the hook run, the session is
\* being loaded and the socket connects with since_seq 0.  When exactly it does
\* makes no difference: what is pushed before is in the backlog.
Select(d) ==
  /\ d \notin open /\ list[d] # Nothing
  /\ open' = open \cup {d}
  /\ socket' = [socket EXCEPT ![d] = Backlog(0)]
  /\ UNCHANGED <<fits, server, store, live, maxSeq, page, history>>

\* A poll that holds the session of the hook keeps it when the hook lets go.
Orphaned(d) ==
  {IF p.by = d /\ p.live /\ p.at = "pull"
   THEN [p EXCEPT !.live = FALSE, !.held = live[d]] ELSE p : p \in polls}

\* The user leaves it: the hook lets go of the session and forgets maxSeq.
Leave(d) ==
  /\ d \in open
  /\ Fault
  /\ open' = open \ {d}
  /\ socket' = [socket EXCEPT ![d] = Nothing]
  /\ polls' = Orphaned(d)
  /\ live' = [live EXCEPT ![d] = Nothing]
  /\ maxSeq' = [maxSeq EXCEPT ![d] = 0]
  /\ UNCHANGED <<fits, server, store, joining, list, sending, last,
                 raced, excused, written, adds>>

\* The sealed session arrives.  A poll that is under way goes on with another
\* copy of it, and a text whose session is still being sealed is read again.
Load(d) ==
  /\ d \in open /\ live[d] = Nothing
  /\ live' = [live EXCEPT ![d] = disk[d]]
  /\ raced' = (raced \/ PollsOf(d) # {})
  /\ excused' = IF \E s \in seals : s.by = d /\ Shows(s)
                THEN excused \cup {d} ELSE excused
  /\ UNCHANGED <<fits, server, store, open, maxSeq, socket, page, last,
                 adds, faults, written>>

\* The socket closes, its frames are lost, and the hook connects again.
Reconnect(d) ==
  /\ d \in open
  /\ Fault
  /\ socket' = [socket EXCEPT ![d] = Backlog(maxSeq[d])]
  /\ UNCHANGED <<fits, server, store, live, open, maxSeq, page, last, raced,
                 excused, written, adds>>

\* processMessage takes an entry: made by another, in the epoch of the session,
\* and not read before.
Processes(d, session, e) ==
  /\ fits[e.kind]
  /\ e.by # d
  /\ e.epoch = session.epoch
  /\ e.what \notin session.used

Processed(session, e) ==
  IF e.kind = "commit"
  THEN Session(Append(session.epoch, e.what), session.start)
  ELSE [session EXCEPT !.used = @ \cup {e.what}]

\* processEntry, up to where it waits for the seal: entries up to maxSeq are
\* dropped; maxSeq goes up before the session is looked at.
ProcessEntry(d) ==
  /\ socket[d] \notin {Nothing, <<>>}
  /\ LET seq == Head(socket[d])
         e == entries[seq]
         session == live[d]
         fresh == seq > maxSeq[d]
         taken == fresh /\ session # Nothing /\ Processes(d, session, e)
         next == Processed(session, e)
     IN  /\ socket' = [socket EXCEPT ![d] = Tail(@)]
         /\ maxSeq' = [maxSeq EXCEPT ![d] = IF fresh THEN seq ELSE @]
         /\ live' = IF taken THEN [live EXCEPT ![d] = next] ELSE live
         /\ seals' = IF taken THEN seals \cup {Seal(d, next, e)} ELSE seals
         /\ excused' = IF fresh /\ session = Nothing THEN excused \cup {d}
                                                  ELSE excused
  /\ UNCHANGED <<fits, server, disk, pending, open, page, last, raced, adds,
                 faults, written>>

\* sendMessage encrypts, seals the session and then pushes.  The page shows the
\* text before.  Bound of the model: nothing is sent before another has joined.
SendMessage(d, t) ==
  /\ d \in open /\ live[d] # Nothing
  /\ t \notin written
  /\ \E o \in Device \ {d} : list[o] # Nothing
  /\ written' = written \cup {t}
  /\ list' = [list EXCEPT ![d].shown = Append(@, t)]
  /\ LET e == [kind |-> "text", by |-> d, epoch |-> live[d].epoch, what |-> t]
     IN  /\ seals' = seals \cup {Seal(d, live[d], e)}
         /\ sending' = sending \cup {e}
  /\ UNCHANGED <<fits, server, disk, pending, hook, joining, polls, last, raced,
                 excused, adds, faults>>

PushText(e) ==
  /\ e \in sending /\ ~Sealing(e)
  /\ sending' = sending \ {e}
  /\ Push(e, e.by)
  /\ UNCHANGED <<fits, toCreator, toInvitee, store, live, open, maxSeq, joining,
                 list, polls, history>>

\* The page is loaded again: what was under way in it stops, seals and a wait
\* for a welcome among it, and a commit that was not pushed will never be.  The
\* list is sealed some time after each change, and the last text may not be in
\* it; and one that waits for its seal may have its key used up by a later one.
Forgetting(d) ==
  IF list[d] # Nothing /\ list[d].shown # <<>>
  THEN {list[d], [list[d] EXCEPT !.shown = Front(@)]} ELSE {list[d]}

Reload(d) ==
  /\ list[d] # Nothing \/ joining[d] # Nothing
  /\ Fault
  /\ \E l \in Forgetting(d) :
       /\ list' = [list EXCEPT ![d] = l]
       /\ excused' = IF \/ l # list[d]
                        \/ \E s \in seals : /\ s.by = d /\ Shows(s)
                                            /\ Spent(disk[d], s.entry)
                     THEN excused \cup {d} ELSE excused
  /\ seals' = {s \in seals : s.by # d}
  /\ joining' = [joining EXCEPT ![d] = Nothing]
  /\ live' = [live EXCEPT ![d] = Nothing]
  /\ open' = open \ {d}
  /\ maxSeq' = [maxSeq EXCEPT ![d] = 0]
  /\ socket' = [socket EXCEPT ![d] = Nothing]
  /\ polls' = polls \ PollsOf(d)
  /\ sending' = {s \in sending : s.by # d}
  /\ raced' = (raced \/ \E p \in PollsOf(d) : p.at = "commit")
  /\ UNCHANGED <<fits, server, disk, pending, last, adds, written>>

-----------------------------------------------------------------------------
(* Invites: the joiner *)

\* handleInvite.  Bound of the model: no link is made while one is unopened.
MakeInvite(d, i) ==
  /\ d \in open
  /\ toCreator[i] = <<>>
  /\ \A o \in Device : list[o] # Nothing =>
       \A n \in list[o].invites : toCreator[n] # <<>>
  /\ list' = [list EXCEPT ![d].invites = @ \cup {i}]
  /\ UNCHANGED <<fits, server, store, hook, joining, polls, sending, history>>

\* Opening the link makes a key package, seals its secrets and pushes it.
RequestToJoin(d, i) ==
  /\ disk[d] = Nothing /\ joining[d] = Nothing
  /\ \E o \in Device : list[o] # Nothing /\ i \in list[o].invites
  /\ <<d, i>> \notin Range(toCreator[i])
  /\ FoldFunction(LAMBDA q, n : n + Len(q), 0, toCreator) < MaxAdds
  /\ pending' = [pending EXCEPT ![d] = <<d, i>>]
  /\ joining' = [joining EXCEPT ![d] = i]
  /\ toCreator' = [toCreator EXCEPT ![i] = Append(@, <<d, i>>)]
  /\ UNCHANGED <<fits, entries, toInvitee, disk, seals, hook, list, polls,
                 sending, history>>

\* pollForWelcome, up to where it waits for the seal: the first welcome of the
\* queue, whosever it is.  One it cannot use ends the wait.
PollForWelcome(d) ==
  /\ joining[d] # Nothing /\ toInvitee[joining[d]] # <<>>
  /\ LET welcome == Head(toInvitee[joining[d]])
         session == Session(welcome.epoch, Len(welcome.epoch))
     IN  IF fits["welcome"] /\ welcome.for = pending[d]
         THEN /\ seals' = seals \cup {Seal(d, session, Nothing)}
              /\ UNCHANGED joining
         ELSE joining' = [joining EXCEPT ![d] = Nothing] /\ UNCHANGED seals
  /\ UNCHANGED <<fits, server, disk, pending, hook, list, polls, sending,
                 history>>

\* Its write lands: the wait is over, the list has the group and the group is
\* selected.  The interval does not wait for a poll that is under way, and
\* another may have begun meanwhile, with the same welcome.
Joined(s, again) ==
  /\ s \in seals /\ s.entry = Nothing
  /\ IF again THEN Fault /\ UNCHANGED seals
              ELSE seals' = seals \ {s} /\ UNCHANGED faults
  /\ disk' = Sealed(s)
  /\ pending' = [pending EXCEPT ![s.by] = Nothing]
  /\ joining' = [joining EXCEPT ![s.by] = Nothing]
  /\ open' = open \cup {s.by}
  /\ IF disk[s.by] = Nothing
     THEN /\ list' = [list EXCEPT ![s.by] = [shown |-> <<>>, invites |-> {}]]
          /\ UNCHANGED <<raced, excused>>
     ELSE /\ raced' = (raced \/ Forgets(s))
          /\ excused' = IF Reverts(s) THEN excused \cup {s.by} ELSE excused
          /\ UNCHANGED list
  /\ socket' = IF s.by \in open THEN socket
               ELSE [socket EXCEPT ![s.by] = Backlog(0)]
  /\ UNCHANGED <<fits, server, live, maxSeq, polls, sending, last, written,
                 adds>>

-----------------------------------------------------------------------------
(* Invites: the device that made the link *)

\* Everything that was pushed has reached the session of d.
Heard(d) == live[d] # Nothing /\ socket[d] = <<>> /\ d \notin excused

\* The interval looks at every pending invite: with the session of the hook
\* when the group is the active one, else with one of its own.
Poll(d, i) ==
  /\ list[d] # Nothing /\ i \in list[d].invites
  /\ toCreator[i] # <<>>
  /\ adds < MaxAdds /\ Cardinality(polls) < MaxPolls
  /\ d \in open => live[d] # Nothing
  /\ polls' = polls \cup
       {[by |-> d, invite |-> i, at |-> "pull", n |-> adds,
         live |-> d \in open, tag |-> IF d \in open THEN d ELSE Nothing,
         held |-> IF d \in open THEN Nothing ELSE disk[d]]}
  /\ adds' = adds + 1
  /\ raced' = \/ raced
              \/ \E p \in polls : p.by # d \/ ~p.live \/ d \notin open
              \/ last.by # d /\ ~Heard(d)
  /\ UNCHANGED <<fits, server, store, hook, joining, list, sending, last,
                 excused, faults, written>>

\* add_member: the first key package of the queue.  One that is padded, or in
\* the group already, is refused and the poll ends.
Adds(p) ==
  LET session == IF p.live THEN live[p.by] ELSE p.held
      package == Head(toCreator[p.invite])
      commit == <<p.by, package, p.n>>
  IN  [ok |-> /\ fits["package"]
              /\ \A k \in DOMAIN session.epoch : session.epoch[k][2] # package,
       entry |-> [kind |-> "commit", by |-> p.by, epoch |-> session.epoch,
                  what |-> commit],
       session |-> Session(Append(session.epoch, commit), session.start)]

\* Two polls that were left with the same session of the hook.
SameSession(p, q) ==
  /\ p.by = q.by /\ p.tag # Nothing /\ q.tag # Nothing
  /\ ~p.live /\ ~q.live /\ q.at = "pull"

\* The commit is merged at once, and the session goes to be sealed.
AddMember(p) ==
  /\ p \in polls /\ p.at = "pull"
  /\ LET a == Adds(p)
     IN  IF a.ok
         THEN /\ polls' = {[p EXCEPT !.at = "commit", !.held = a.entry]} \cup
                   {IF SameSession(p, q) THEN [q EXCEPT !.held = a.session]
                                         ELSE q : q \in polls \ {p}}
              /\ live' = IF p.live THEN [live EXCEPT ![p.by] = a.session]
                                   ELSE live
              /\ seals' = seals \cup {Seal(p.by, a.session, a.entry)}
              /\ last' = [by |-> p.by, epoch |-> a.session.epoch]
         ELSE polls' = polls \ {p} /\ UNCHANGED <<live, seals, last>>
  /\ UNCHANGED <<fits, server, disk, pending, open, maxSeq, socket, joining,
                 list, sending, raced, excused, adds, faults, written>>

\* Sealed, the commit goes to the log, with the tag of the hook if its session
\* was used.  An older commit of another poll may still be under way.
PushCommit(p) ==
  /\ p \in polls /\ p.at = "commit" /\ ~Sealing(p.held)
  /\ Push(p.held, p.tag)
  /\ polls' = (polls \ {p}) \cup {[p EXCEPT !.at = "welcome"]}
  /\ raced' = (raced \/ \E q \in polls :
       q.at = "commit" /\ Len(q.held.epoch) < Len(p.held.epoch))
  /\ UNCHANGED <<fits, toCreator, toInvitee, store, live, open, maxSeq, joining,
                 list, sending, last, excused, written, adds, faults>>

\* Mutant: the welcome does not wait for the commit.
WelcomeDueEarly(p) == p.at \in {"commit", "welcome"}

WelcomeDue(p) == p.at = "welcome"

\* Then the welcome goes to the joiner, and the invite is no longer pending.
PushWelcome(p) ==
  /\ p \in polls /\ WelcomeDue(p)
  /\ toInvitee' = [toInvitee EXCEPT ![p.invite] = Append(@,
       [for |-> p.held.what[2], epoch |-> Append(p.held.epoch, p.held.what)])]
  /\ polls' = polls \ {p}
  /\ list' = [list EXCEPT ![p.by].invites = @ \ {p.invite}]
  /\ UNCHANGED <<fits, entries, toCreator, store, hook, joining, sending,
                 history>>

\* A push of a text, a commit or a welcome fails, or is refused because the log
\* is full.  The invite stays pending.
PushFails ==
  /\ Fault
  /\ \/ \E e \in sending :
          ~Sealing(e) /\ sending' = sending \ {e} /\ UNCHANGED <<polls, raced>>
     \/ \E p \in polls :
          /\ p.at \in {"commit", "welcome"} /\ ~Sealing(p.held)
          /\ polls' = polls \ {p}
          /\ raced' = (raced \/ p.at = "commit")
          /\ UNCHANGED sending
  /\ UNCHANGED <<fits, server, store, hook, joining, list, last, excused, adds,
                 written>>

-----------------------------------------------------------------------------
GroupNext ==
  \/ \E d \in Device :
       \/ Select(d) \/ Leave(d) \/ Load(d) \/ Reconnect(d)
       \/ ProcessEntry(d) \/ Reload(d) \/ PollForWelcome(d)
       \/ \E t \in Text : SendMessage(d, t)
       \/ \E i \in Invite : MakeInvite(d, i) \/ RequestToJoin(d, i) \/ Poll(d, i)
  \/ \E s \in seals :
       SealLands(s) \/ \E again \in BOOLEAN : Joined(s, again)
  \/ \E e \in sending : PushText(e)
  \/ \E p \in polls : AddMember(p) \/ PushCommit(p) \/ PushWelcome(p)
  \/ PushFails

GroupSpec == GroupInit /\ [][GroupNext]_groupVars

-----------------------------------------------------------------------------
(* Properties *)

Welcomes == [for : Package, epoch : Epoch]
Seals ==
  [by : Device, session : Sessions, entry : Commits \cup Texts \cup {Nothing}]
Polls(ats, held) ==
  [by : Device, invite : Invite, at : ats, n : Nat, live : BOOLEAN,
   tag : Device \cup {Nothing}, held : held]

GroupTypeOK ==
  /\ fits \in [BlobKind -> BOOLEAN]
  /\ entries \in Seq(Commits \cup Texts)
  /\ toCreator \in [Invite -> Seq(Package)]
  /\ toInvitee \in [Invite -> Seq(Welcomes)]
  /\ disk \in [Device -> Sessions \cup {Nothing}]
  /\ seals \subseteq Seals
  /\ pending \in [Device -> Package \cup {Nothing}]
  /\ joining \in [Device -> Invite \cup {Nothing}]
  /\ live \in [Device -> Sessions \cup {Nothing}]
  /\ open \subseteq Device
  /\ maxSeq \in [Device -> Nat]
  /\ socket \in [Device -> Seq(Nat) \cup {Nothing}]
  /\ list \in [Device -> Listed \cup {Nothing}]
  /\ polls \subseteq Polls({"pull"}, Sessions \cup {Nothing}) \cup
                      Polls({"commit", "welcome"}, Commits)
  /\ sending \subseteq Texts
  /\ last \in [by : Device, epoch : Epoch] /\ raced \in BOOLEAN
  /\ excused \subseteq Device /\ written \subseteq Text
  /\ adds \in Nat /\ faults \in Nat

Members == {d \in Device : disk[d] # Nothing}

\* group.ts:136, useGroupTransport.ts:63.  The commits of the group form one
\* history: the epochs of any two devices are on one path, though every device
\* merges its own commits before it knows their place in the log.  It takes
\* that members are added one at a time, by a device that has heard of the
\* last one, that commits can be read, that they reach the log in the order
\* they were made in and that none is lost before it, neither on the way nor
\* from the sealed session.
OneHistoryUnlessRaced ==
  ~raced /\ fits["commit"] =>
    \A c, d \in Members : \/ IsPrefix(disk[c].epoch, disk[d].epoch)
                          \/ IsPrefix(disk[d].epoch, disk[c].epoch)

\* group.ts:248-249.  Whoever has joined was added by a commit that is in the
\* log: no device writes in an epoch that the others have no way to reach.
JoinedIsLogged ==
  \A d \in Members \ {Creator} :
    \E k \in DOMAIN entries :
      /\ entries[k].kind = "commit"
      /\ Append(entries[k].epoch, entries[k].what) =
           SubSeq(disk[d].epoch, 1, disk[d].start)

\* The session of d was in the epoch of e at some time.
Read(d, e) ==
  /\ IsPrefix(e.epoch, live[d].epoch)
  /\ Len(e.epoch) >= live[d].start

\* In the log e comes before the commit that began its epoch or after one that
\* ended it; or d has ended it by a commit of its own.
Displaced(d, seq) ==
  LET e == entries[seq]
      at == Len(e.epoch) + 1
  IN  \/ \E k \in DOMAIN entries :
           /\ entries[k].kind = "commit"
           /\ \/ k < seq /\ e.epoch = entries[k].epoch
              \/ k > seq /\ e.epoch = Append(entries[k].epoch, entries[k].what)
      \/ at \in DOMAIN live[d].epoch /\ live[d].epoch[at][1] = d

=============================================================================
