---------------------------- MODULE AccountProofs ----------------------------
(***************************************************************************)
(* What the devices of an account share: the properties of Linking, for    *)
(* any number of devices, codes and events, and those of Vault, for any    *)
(* number of devices, files, chats, requests and faults.                   *)
(*                                                                         *)
(* A key of a session is used once because a copy of a session, wherever   *)
(* it is, knows of every key that was used of its handshake.  Only a       *)
(* device with another copy at hand can make that false, and that is what  *)
(* forked records.                                                         *)
(*                                                                         *)
(* As long as the backup was not deleted nor begun twice, the generation   *)
(* of every version is also the number of its etag, wherever a copy of the *)
(* two is held.  So the comparison of generations before the write and the *)
(* condition on the etag in it are about the same version.                 *)
(***************************************************************************)
EXTENDS Linking, Vault, TLAPS, FiniteSetTheorems

-----------------------------------------------------------------------------
(* Linking *)

(* What makes a key of a session good for one frame. *)

\* The copy s of a session knows of every key that its handshake has used, if
\* that was not forked.
Knows(s) ==
  s # None =>
    /\ s.root <= roots
    /\ s.root \notin forked =>
         \A f \in sealed : f[1] = s.root => f[2] < s.next

Copies ==
  /\ \A d \in Device : Knows(session[d]) /\ Knows(staged[d])
  /\ \A d \in Device : taken[d] # None => Knows(taken[d].session)
  /\ \A c \in Code : link[c] # None => Knows(link[c].session)

\* A device that has a session beside its import is clearing that.
OwnCopy ==
  \A d \in Device :
    /\ session[d] # None /\ staged[d] # None
    /\ session[d].root = staged[d].root /\ session[d].root \notin forked
    => hydrating[d] = "clearing"

Rooted == \A f \in sealed : f[1] <= roots
KeyInv == Copies /\ OwnCopy /\ Rooted /\ KeyUsedOnceUnlessForked

\* A payload waits or was fetched, and not by two.
CodeInv ==
  \A c \in Code :
    /\ link[c] # None => c <= codes /\ applied[c] = {}
    /\ c <= codes /\ applied[c] = {} => link[c] # None \/ c \in lost
    /\ c > codes => applied[c] = {}
    /\ \A d, e \in applied[c] : d = e

\* What may write to the store of a device that does not have the chat.
DeletionInv ==
  /\ at \subseteq listed
  /\ listed \cap deleted = {}
  /\ holding \subseteq at
  /\ \A d \in Device : hydrating[d] = "reading" => d \in at
  /\ deleted \cap (minting \cup consuming) \subseteq raced
  /\ DeletedLeavesNothingUnlessRaced

IInv == TypeOK /\ KeyInv /\ CodeInv /\ DeletionInv

-----------------------------------------------------------------------------
\* Type correctness, by action.
LEMMA TypeStep == TypeOK /\ [Next]_vars => TypeOK'
<1> SUFFICES ASSUME TypeOK, [Next]_vars PROVE TypeOK'
  OBVIOUS
<1> USE DEF writers, device, store, transfer, history
<1>1. ASSUME NEW d \in Device, Open(d) PROVE TypeOK'
  BY <1>1 DEF Open, TypeOK
<1>2. ASSUME NEW d \in Device, Leave(d) PROVE TypeOK'
  BY <1>2 DEF Leave, Gone, Event, TypeOK
<1>3. ASSUME NEW d \in Device, Close(d) PROVE TypeOK'
  <2>1. session' \in [Device -> Session \cup {None}]
        /\ hydrating' \in [Device -> {None, "reading", "clearing"}]
    BY <1>3 DEF Close, Gone, Event, TypeOK
  <2>2. taken' \in [Device -> Payload \cup {None}]
    BY <1>3 DEF Close, Gone, Event, TypeOK
  <2>3. lost' \subseteq Nat /\ raced' \subseteq Device
    BY <1>3 DEF Close, TypeOK, Payload
  <2>4. events' \in Nat /\ lease' \in Device \cup {None}
    BY <1>3 DEF Close, Gone, Event, TypeOK
  <2> QED
    BY <1>3, <2>1, <2>2, <2>3, <2>4 DEF Close, Gone, Event, TypeOK
<1>4. ASSUME NEW d \in Device, Lapse(d) PROVE TypeOK'
  BY <1>4 DEF Lapse, Event, TypeOK
<1>5. ASSUME NEW d \in Device, Acquire(d) PROVE TypeOK'
  BY <1>5 DEF Acquire, Holds, Event, TypeOK
<1>6. ASSUME NEW d \in Device, Hydrate(d) PROVE TypeOK'
  BY <1>6 DEF Hydrate, Holds, Event, TypeOK
<1>7. ASSUME NEW d \in Device, Clear(d) PROVE TypeOK'
  BY <1>7 DEF Clear, Holds, Event, AfterHydration, TypeOK
<1>8. ASSUME NEW d \in Device, Mint(d) PROVE TypeOK'
  BY <1>8 DEF Mint, Left, TypeOK
<1>9. ASSUME NEW d \in Device, Handshake(d) PROVE TypeOK'
  <2>1. [root |-> roots + 1, next |-> 1] \in Session
    BY <1>9 DEF TypeOK, Session
  <2>2. session' \in [Device -> Session \cup {None}]
    BY <1>9, <2>1 DEF Handshake, Agreed, Event, TypeOK
  <2>3. roots' \in Nat /\ events' \in Nat
    BY <1>9 DEF Handshake, Agreed, Event, TypeOK
  <2> QED
    BY <1>9, <2>1, <2>2, <2>3 DEF Handshake, Event, TypeOK
<1>10. ASSUME NEW d \in Device, Send(d) PROVE TypeOK'
  <2>1. session[d] \in Session
    BY <1>10 DEF Send, TypeOK
  <2>2. session[d].root \in Nat /\ session[d].next \in Nat
    BY <1>10, <2>1 DEF Session
  <2>3. [root |-> session[d].root, next |-> session[d].next + 1] \in Session
    BY <1>10, <2>2 DEF Session
  <2>4. session' \in [Device -> Session \cup {None}]
    BY <1>10, <2>3 DEF Send, TypeOK
  <2>5. <<session[d].root, session[d].next, events>> \in Nat \X Nat \X Nat
    BY <1>10, <2>2 DEF TypeOK
  <2>6. sealed' \subseteq Nat \X Nat \X Nat
    BY <1>10, <2>5 DEF Send, TypeOK
  <2>7. forked' \subseteq Nat
    BY <1>10, <2>2 DEF Send, TypeOK
  <2>8. events' \in Nat
    BY <1>10 DEF Send, Event, TypeOK
  <2> QED
    BY <1>10, <2>1, <2>2, <2>3, <2>4, <2>5, <2>6, <2>7, <2>8
       DEF Send, Event, Elsewhere, TypeOK
<1>11. ASSUME NEW d \in Device, MakeCode(d) PROVE TypeOK'
  <2> DEFINE new == [code |-> codes + 1, session |-> session[d],
                     records |-> d \in records]
  <2>1. codes + 1 \in Code /\ codes + 1 \in Nat /\ codes' \in 0 .. MaxCodes
    BY <1>11, LinkingAssumption DEF MakeCode, TypeOK, Code
  <2>2. new \in Payload
    BY <1>11, <2>1 DEF TypeOK, Payload
  <2>3. link' \in [Code -> Payload \cup {None}]
    BY <1>11, <2>1, <2>2 DEF MakeCode, TypeOK
  <2> QED
    BY <1>11, <2>1, <2>2, <2>3 DEF MakeCode, TypeOK
<1>12. ASSUME NEW d \in Device, ApplyToStore(d) PROVE TypeOK'
  <2>1. taken[d] \in Payload
    BY <1>12 DEF ApplyToStore, TypeOK
  <2>2. taken[d].session \in Session \cup {None}
    BY <1>12, <2>1 DEF Payload
  <2>3. staged' \in [Device -> Session \cup {None}]
        /\ records' \subseteq Device
    BY <1>12, <2>2 DEF ApplyToStore, TypeOK
  <2>4. session[d] # None => session[d].root \in Nat
    BY <1>12 DEF TypeOK, Session
  <2>5. forked' \subseteq Nat
    BY <1>12, <2>4 DEF ApplyToStore, TypeOK
  <2> QED
    BY <1>12, <2>1, <2>2, <2>3, <2>4, <2>5 DEF ApplyToStore, TypeOK
<1>13. ASSUME NEW d \in Device, ApplyToList(d) PROVE TypeOK'
  BY <1>13 DEF ApplyToList, TypeOK
<1>14. ASSUME NEW d \in Device, Delete(d) PROVE TypeOK'
  BY <1>14 DEF Delete, Gone, Event, Cleared, TypeOK
<1>15. ASSUME NEW d \in Device, NEW c \in Code, Take(d, c) PROVE TypeOK'
  BY <1>15 DEF Take, AfterTake, TypeOK
<1>16. ASSUME NEW c \in Code, Expire(c) PROVE TypeOK'
  <2>1. link' \in [Code -> Payload \cup {None}]
    BY <1>16 DEF Expire, TypeOK
  <2>2. lost' \subseteq Nat
    BY <1>16, LinkingAssumption DEF Expire, TypeOK, Code
  <2> QED
    BY <1>16, <2>1, <2>2 DEF Expire, TypeOK
<1>17. CASE UNCHANGED vars
  BY <1>17 DEF vars, TypeOK
<1>18. ASSUME NEW d \in Device, Unwritten(d) PROVE TypeOK'
  BY <1>18 DEF Unwritten, TypeOK
<1>19. ASSUME NEW d \in Device, Consume(d) PROVE TypeOK'
  BY <1>19 DEF Consume, TypeOK
<1>20. ASSUME NEW d \in Device, Consumed(d) PROVE TypeOK'
  <2>1. [root |-> roots + 1, next |-> 1] \in Session
    BY <1>20 DEF TypeOK, Session
  <2>2. session' \in [Device -> Session \cup {None}] /\ roots' \in Nat
    BY <1>20, <2>1 DEF Consumed, Agreed, TypeOK
  <2>3. consuming' \subseteq Device /\ records' \subseteq Device
        /\ events' \in Nat
    BY <1>20 DEF Consumed, Left, Event, TypeOK
  <2> QED
    BY <1>20, <2>2, <2>3 DEF Consumed, TypeOK
<1> QED
  BY <1>1, <1>2, <1>3, <1>4, <1>5, <1>6, <1>7, <1>8, <1>9, <1>10, <1>11, <1>12,
     <1>13, <1>14, <1>15, <1>16, <1>17, <1>18, <1>19, <1>20 DEF Next

\* What a device may still write to its store, by action.
LEMMA DeletionStep == IInv /\ [Next]_vars => DeletionInv'
<1> SUFFICES ASSUME IInv, [Next]_vars PROVE DeletionInv'
  OBVIOUS
<1> USE DEF writers, device, store, transfer, history
<1>1. ASSUME NEW d \in Device, Open(d) PROVE DeletionInv'
  BY <1>1 DEF Open, IInv, TypeOK, DeletionInv, DeletedLeavesNothingUnlessRaced
<1>2. ASSUME NEW d \in Device, Leave(d) PROVE DeletionInv'
  <2>1. /\ at' \subseteq listed' /\ listed' \cap deleted' = {}
        /\ holding' \subseteq at'
    BY <1>2 DEF Leave, Gone, Event, IInv, TypeOK, DeletionInv,
           DeletedLeavesNothingUnlessRaced
  <2>2. \A e \in Device : hydrating'[e] = "reading" => e \in at'
    BY <1>2, LinkingAssumption DEF Leave, Gone, Event, IInv, TypeOK,
           DeletionInv, DeletedLeavesNothingUnlessRaced
  <2>3. deleted' \cap (minting' \cup consuming') \subseteq raced'
    BY <1>2 DEF Leave, Gone, Event, IInv, TypeOK, DeletionInv,
           DeletedLeavesNothingUnlessRaced
  <2>4. DeletedLeavesNothingUnlessRaced'
    BY <1>2 DEF Leave, Gone, Event, IInv, TypeOK, DeletionInv,
           DeletedLeavesNothingUnlessRaced
  <2> QED
    BY <1>2, <2>1, <2>2, <2>3, <2>4 DEF Leave, Gone, Event, IInv, TypeOK,
           DeletionInv, DeletedLeavesNothingUnlessRaced
<1>3. ASSUME NEW d \in Device, Close(d) PROVE DeletionInv'
  <2>1. /\ at' \subseteq listed' /\ listed' \cap deleted' = {}
        /\ holding' \subseteq at'
    BY <1>3 DEF Close, Gone, Event, IInv, TypeOK, DeletionInv,
           DeletedLeavesNothingUnlessRaced
  <2>2. \A e \in Device : hydrating'[e] = "reading" => e \in at'
    BY <1>3, LinkingAssumption DEF Close, Gone, Event, IInv, TypeOK,
           DeletionInv, DeletedLeavesNothingUnlessRaced
  <2>3. deleted' \cap (minting' \cup consuming') \subseteq raced'
    BY <1>3 DEF Close, Gone, Event, IInv, TypeOK, DeletionInv,
           DeletedLeavesNothingUnlessRaced
  <2>4. DeletedLeavesNothingUnlessRaced'
    BY <1>3 DEF Close, Gone, Event, IInv, TypeOK, DeletionInv,
           DeletedLeavesNothingUnlessRaced
  <2> QED
    BY <1>3, <2>1, <2>2, <2>3, <2>4 DEF Close, Gone, Event, IInv, TypeOK,
           DeletionInv, DeletedLeavesNothingUnlessRaced
<1>4. ASSUME NEW d \in Device, Lapse(d) PROVE DeletionInv'
  BY <1>4 DEF Lapse, Event, IInv, TypeOK, DeletionInv,
         DeletedLeavesNothingUnlessRaced
<1>5. ASSUME NEW d \in Device, Acquire(d) PROVE DeletionInv'
  BY <1>5 DEF Acquire, Holds, IInv, TypeOK, DeletionInv,
         DeletedLeavesNothingUnlessRaced
<1>6. ASSUME NEW d \in Device, Hydrate(d) PROVE DeletionInv'
  BY <1>6 DEF Hydrate, Holds, IInv, TypeOK, DeletionInv,
         DeletedLeavesNothingUnlessRaced
<1>7. ASSUME NEW d \in Device, Clear(d) PROVE DeletionInv'
  <2>1. /\ at' \subseteq listed' /\ listed' \cap deleted' = {}
        /\ holding' \subseteq at'
    BY <1>7 DEF Clear, Holds, AfterHydration, IInv, TypeOK, DeletionInv,
           DeletedLeavesNothingUnlessRaced
  <2>2. \A e \in Device : hydrating'[e] = "reading" => e \in at'
    BY <1>7, LinkingAssumption DEF Clear, Holds, AfterHydration, IInv, TypeOK,
           DeletionInv, DeletedLeavesNothingUnlessRaced
  <2>3. deleted' \cap (minting' \cup consuming') \subseteq raced'
    BY <1>7 DEF Clear, Holds, AfterHydration, IInv, TypeOK, DeletionInv,
           DeletedLeavesNothingUnlessRaced
  <2>4. DeletedLeavesNothingUnlessRaced'
    BY <1>7 DEF Clear, Holds, AfterHydration, IInv, TypeOK, DeletionInv,
           DeletedLeavesNothingUnlessRaced
  <2> QED
    BY <1>7, <2>1, <2>2, <2>3, <2>4 DEF Clear, Holds, AfterHydration, IInv,
           TypeOK, DeletionInv, DeletedLeavesNothingUnlessRaced
<1>8. ASSUME NEW d \in Device, Mint(d) PROVE DeletionInv'
  BY <1>8 DEF Mint, Left, IInv, TypeOK, DeletionInv,
         DeletedLeavesNothingUnlessRaced
<1>9. ASSUME NEW d \in Device, Handshake(d) PROVE DeletionInv'
  BY <1>9 DEF Handshake, Event, IInv, TypeOK, DeletionInv,
         DeletedLeavesNothingUnlessRaced
<1>10. ASSUME NEW d \in Device, Send(d) PROVE DeletionInv'
  BY <1>10 DEF Send, Event, Elsewhere, IInv, TypeOK, DeletionInv,
         DeletedLeavesNothingUnlessRaced
<1>11. ASSUME NEW d \in Device, MakeCode(d) PROVE DeletionInv'
  BY <1>11 DEF MakeCode, IInv, TypeOK, DeletionInv,
         DeletedLeavesNothingUnlessRaced
<1>12. ASSUME NEW d \in Device, ApplyToStore(d) PROVE DeletionInv'
  BY <1>12 DEF ApplyToStore, IInv, TypeOK, DeletionInv,
         DeletedLeavesNothingUnlessRaced
<1>13. ASSUME NEW d \in Device, ApplyToList(d) PROVE DeletionInv'
  BY <1>13 DEF ApplyToList, IInv, TypeOK, DeletionInv,
         DeletedLeavesNothingUnlessRaced
<1>14. ASSUME NEW d \in Device, Delete(d) PROVE DeletionInv'
  <2>1. /\ at' \subseteq listed' /\ listed' \cap deleted' = {}
        /\ holding' \subseteq at'
    BY <1>14 DEF Delete, Gone, Event, Cleared, IInv, TypeOK, DeletionInv,
           DeletedLeavesNothingUnlessRaced
  <2>2. \A e \in Device : hydrating'[e] = "reading" => e \in at'
    BY <1>14, LinkingAssumption DEF Delete, Gone, Event, Cleared, IInv, TypeOK,
           DeletionInv, DeletedLeavesNothingUnlessRaced
  <2>3. deleted' \cap (minting' \cup consuming') \subseteq raced'
    BY <1>14 DEF Delete, Gone, Event, Cleared, IInv, TypeOK, DeletionInv,
           DeletedLeavesNothingUnlessRaced
  <2>4. DeletedLeavesNothingUnlessRaced'
    BY <1>14 DEF Delete, Gone, Event, Cleared, IInv, TypeOK, DeletionInv,
           DeletedLeavesNothingUnlessRaced
  <2> QED
    BY <1>14, <2>1, <2>2, <2>3, <2>4 DEF Delete, Gone, Event, Cleared, IInv,
           TypeOK, DeletionInv, DeletedLeavesNothingUnlessRaced
<1>15. ASSUME NEW d \in Device, NEW c \in Code, Take(d, c) PROVE DeletionInv'
  BY <1>15 DEF Take, AfterTake, IInv, TypeOK, DeletionInv,
         DeletedLeavesNothingUnlessRaced
<1>16. ASSUME NEW c \in Code, Expire(c) PROVE DeletionInv'
  BY <1>16 DEF Expire, IInv, TypeOK, DeletionInv,
         DeletedLeavesNothingUnlessRaced
<1>17. CASE UNCHANGED vars
  BY <1>17 DEF vars, IInv, TypeOK, DeletionInv, DeletedLeavesNothingUnlessRaced
<1>18. ASSUME NEW d \in Device, Unwritten(d) PROVE DeletionInv'
  BY <1>18 DEF Unwritten, IInv, TypeOK, DeletionInv,
         DeletedLeavesNothingUnlessRaced
<1>19. ASSUME NEW d \in Device, Consume(d) PROVE DeletionInv'
  BY <1>19 DEF Consume, IInv, TypeOK, DeletionInv,
         DeletedLeavesNothingUnlessRaced
<1>20. ASSUME NEW d \in Device, Consumed(d) PROVE DeletionInv'
  BY <1>20 DEF Consumed, Left, Event, IInv, TypeOK, DeletionInv,
         DeletedLeavesNothingUnlessRaced
<1> QED
  BY <1>1, <1>2, <1>3, <1>4, <1>5, <1>6, <1>7, <1>8, <1>9, <1>10, <1>11, <1>12,
     <1>13, <1>14, <1>15, <1>16, <1>17, <1>18, <1>19, <1>20 DEF Next

\* Where the payload of a code is, by action.
LEMMA CodeStep == IInv /\ [Next]_vars => CodeInv'
<1> SUFFICES ASSUME IInv, [Next]_vars PROVE CodeInv'
  OBVIOUS
<1> USE DEF writers, device, store, transfer, history
<1>1. ASSUME NEW d \in Device, Open(d) PROVE CodeInv'
  BY <1>1 DEF Open, IInv, TypeOK, CodeInv
<1>2. ASSUME NEW d \in Device, Leave(d) PROVE CodeInv'
  BY <1>2 DEF Leave, Gone, Event, IInv, TypeOK, CodeInv
<1>3. ASSUME NEW d \in Device, Close(d) PROVE CodeInv'
  BY <1>3 DEF Close, Gone, Event, IInv, TypeOK, CodeInv
<1>4. ASSUME NEW d \in Device, Lapse(d) PROVE CodeInv'
  BY <1>4 DEF Lapse, Event, IInv, TypeOK, CodeInv
<1>5. ASSUME NEW d \in Device, Acquire(d) PROVE CodeInv'
  BY <1>5 DEF Acquire, Holds, IInv, TypeOK, CodeInv
<1>6. ASSUME NEW d \in Device, Hydrate(d) PROVE CodeInv'
  BY <1>6 DEF Hydrate, Holds, IInv, TypeOK, CodeInv
<1>7. ASSUME NEW d \in Device, Clear(d) PROVE CodeInv'
  BY <1>7 DEF Clear, Holds, AfterHydration, IInv, TypeOK, CodeInv
<1>8. ASSUME NEW d \in Device, Mint(d) PROVE CodeInv'
  BY <1>8 DEF Mint, Left, IInv, TypeOK, CodeInv
<1>9. ASSUME NEW d \in Device, Handshake(d) PROVE CodeInv'
  BY <1>9 DEF Handshake, Event, IInv, TypeOK, CodeInv
<1>10. ASSUME NEW d \in Device, Send(d) PROVE CodeInv'
  BY <1>10 DEF Send, Event, Elsewhere, IInv, TypeOK, CodeInv
<1>11. ASSUME NEW d \in Device, MakeCode(d) PROVE CodeInv'
  <2> DEFINE new == [code |-> codes + 1, session |-> session[d],
                     records |-> d \in records]
  <2>1. codes \in Nat /\ codes + 1 \in Code /\ codes' = codes + 1
    BY <1>11, LinkingAssumption DEF MakeCode, IInv, TypeOK, Code
  <2>2. link' = [link EXCEPT ![codes + 1] = new]
        /\ applied' = applied /\ lost' = lost
    BY <1>11 DEF MakeCode
  <2>3. new \in Payload
    BY <1>11, <2>1 DEF IInv, TypeOK, Payload
  <2>4. new # None
    BY <1>11, <2>3, LinkingAssumption DEF Payload
  <2>5. link'[codes + 1] # None
        /\ \A c \in Code : c # codes + 1 => link'[c] = link[c]
    BY <1>11, <2>1, <2>2, <2>4 DEF IInv, TypeOK
  <2>6. \A c \in Code : c \in Int
    BY <1>11, LinkingAssumption DEF Code
  <2> QED
    BY <1>11, <2>1, <2>2, <2>3, <2>4, <2>5, <2>6 DEF MakeCode, IInv, CodeInv
<1>12. ASSUME NEW d \in Device, ApplyToStore(d) PROVE CodeInv'
  BY <1>12 DEF ApplyToStore, IInv, TypeOK, CodeInv
<1>13. ASSUME NEW d \in Device, ApplyToList(d) PROVE CodeInv'
  BY <1>13 DEF ApplyToList, IInv, TypeOK, CodeInv
<1>14. ASSUME NEW d \in Device, Delete(d) PROVE CodeInv'
  BY <1>14 DEF Delete, Gone, Event, Cleared, IInv, TypeOK, CodeInv
<1>15. ASSUME NEW d \in Device, NEW c \in Code, Take(d, c) PROVE CodeInv'
  <2>1. link'[c] = None /\ (\A b \in Code : b # c => link'[b] = link[b])
    BY <1>15 DEF Take, AfterTake, IInv, TypeOK
  <2>2. applied[c] = {} /\ applied'[c] = {d}
        /\ (\A b \in Code : b # c => applied'[b] = applied[b])
    BY <1>15 DEF Take, IInv, TypeOK, CodeInv
  <2>3. codes' = codes /\ lost' = lost /\ c <= codes
    BY <1>15 DEF Take, IInv, CodeInv
  <2>4. \A b \in Code : b \in Int /\ codes \in Int
    BY <1>15, LinkingAssumption DEF IInv, TypeOK, Code
  <2> QED
    BY <1>15, <2>1, <2>2, <2>3, <2>4 DEF Take, AfterTake, IInv, CodeInv
<1>16. ASSUME NEW c \in Code, Expire(c) PROVE CodeInv'
  BY <1>16 DEF Expire, IInv, TypeOK, CodeInv
<1>17. CASE UNCHANGED vars
  BY <1>17 DEF vars, IInv, TypeOK, CodeInv
<1>18. ASSUME NEW d \in Device, Unwritten(d) PROVE CodeInv'
  BY <1>18 DEF Unwritten, IInv, TypeOK, CodeInv
<1>19. ASSUME NEW d \in Device, Consume(d) PROVE CodeInv'
  BY <1>19 DEF Consume, IInv, TypeOK, CodeInv
<1>20. ASSUME NEW d \in Device, Consumed(d) PROVE CodeInv'
  BY <1>20 DEF Consumed, Event, IInv, TypeOK, CodeInv
<1> QED
  BY <1>1, <1>2, <1>3, <1>4, <1>5, <1>6, <1>7, <1>8, <1>9, <1>10, <1>11, <1>12,
     <1>13, <1>14, <1>15, <1>16, <1>17, <1>18, <1>19, <1>20 DEF Next

-----------------------------------------------------------------------------
(* Keys *)

\* Known keys stay known while no other is used.
LEMMA KnowsKept ==
  ASSUME NEW s, Knows(s), sealed' = sealed, forked \subseteq forked',
         roots' >= roots, roots \in Nat, roots' \in Nat,
         s \in Session \cup {None}
  PROVE  Knows(s)'
BY DEF Knows, Session

\* The copies of sessions are sessions.
LEMMA CopyTypes ==
  TypeOK =>
    /\ \A d \in Device :
         /\ session[d] \in Session \cup {None}
         /\ staged[d] \in Session \cup {None}
         /\ taken[d] # None => taken[d].session \in Session \cup {None}
    /\ \A c \in Code :
         link[c] # None => link[c].session \in Session \cup {None}
    /\ roots \in Nat
BY DEF TypeOK, Payload

\* A step that uses no key and only moves, copies or drops sessions.
Moved ==
  /\ sealed' = sealed /\ roots' = roots /\ forked \subseteq forked'
  /\ \A d \in Device :
       /\ session'[d] \in {None, session[d], staged[d]}
       /\ \/ staged'[d] \in {None, staged[d]}
          \/ taken[d] # None /\ staged'[d] = taken[d].session
       /\ \/ taken'[d] \in {None, taken[d]}
          \/ \E c \in Code : link[c] # None /\ taken'[d] = link[c]
  /\ \A c \in Code :
       \/ link'[c] \in {None, link[c]}
       \/ \E d \in Device : link'[c].session = session[d]

\* Each copy after such a step is one that was there before.
LEMMA MovedKeeps ==
  ASSUME IInv, Moved
  PROVE  Copies' /\ Rooted' /\ KeyUsedOnceUnlessForked'
<1>1. Copies /\ Rooted /\ KeyUsedOnceUnlessForked
  BY DEF IInv, KeyInv
<1>2. TypeOK /\ roots \in Nat /\ roots' \in Nat /\ roots' >= roots
  BY DEF IInv, TypeOK, Moved
<1>3. ASSUME NEW s \in Session \cup {None}, Knows(s) PROVE Knows(s)'
  BY <1>2, <1>3, KnowsKept DEF Moved
<1>4. Knows(None)
  BY DEF Knows
<1>5. ASSUME NEW d \in Device
      PROVE  /\ Knows(session[d]) /\ Knows(staged[d])
             /\ taken[d] # None => Knows(taken[d].session)
  BY <1>1 DEF Copies
<1>6. ASSUME NEW c \in Code, link[c] # None PROVE Knows(link[c].session)
  BY <1>1, <1>6 DEF Copies
<1>7. ASSUME NEW d \in Device PROVE Knows(session[d])' /\ Knows(staged[d])'
  <2>1. \E s \in Session \cup {None} : Knows(s) /\ session'[d] = s
    BY <1>2, <1>4, <1>5, CopyTypes DEF Moved
  <2>2. \E s \in Session \cup {None} : Knows(s) /\ staged'[d] = s
    BY <1>2, <1>4, <1>5, CopyTypes DEF Moved
  <2>3. ASSUME NEW s \in Session \cup {None}, Knows(s), session'[d] = s
        PROVE  Knows(session[d])'
    <3>1. Knows(s)'
      BY <1>3, <2>3
    <3> QED BY <3>1, <2>3 DEF Knows
  <2>4. ASSUME NEW s \in Session \cup {None}, Knows(s), staged'[d] = s
        PROVE  Knows(staged[d])'
    <3>1. Knows(s)'
      BY <1>3, <2>4
    <3> QED BY <3>1, <2>4 DEF Knows
  <2> QED BY <2>1, <2>2, <2>3, <2>4
<1>8. ASSUME NEW d \in Device, taken'[d] # None
      PROVE  Knows(taken[d].session)'
  <2>1. \E s \in Session \cup {None} : Knows(s) /\ taken'[d].session = s
    BY <1>2, <1>5, <1>6, <1>8, CopyTypes DEF Moved
  <2>2. ASSUME NEW s \in Session \cup {None}, Knows(s), taken'[d].session = s
        PROVE  Knows(taken[d].session)'
    <3>1. Knows(s)'
      BY <1>3, <2>2
    <3> QED BY <3>1, <2>2 DEF Knows
  <2> QED BY <2>1, <2>2
<1>9. ASSUME NEW c \in Code, link'[c] # None
      PROVE  Knows(link[c].session)'
  <2>1. \E s \in Session \cup {None} : Knows(s) /\ link'[c].session = s
    BY <1>2, <1>5, <1>6, <1>9, CopyTypes DEF Moved
  <2>2. ASSUME NEW s \in Session \cup {None}, Knows(s), link'[c].session = s
        PROVE  Knows(link[c].session)'
    <3>1. Knows(s)'
      BY <1>3, <2>2
    <3> QED BY <3>1, <2>2 DEF Knows
  <2> QED BY <2>1, <2>2
<1>10. Copies'
  BY <1>7, <1>8, <1>9 DEF Copies
<1>11. Rooted' /\ KeyUsedOnceUnlessForked'
  BY <1>1 DEF Moved, Rooted, KeyUsedOnceUnlessForked
<1> QED BY <1>10, <1>11

\* A handshake makes a session that no frame was sealed with.
LEMMA AgreedKeeps ==
  ASSUME IInv, NEW d \in Device, Agreed(d),
         UNCHANGED <<sealed, forked, staged, taken, link, hydrating>>
  PROVE  KeyInv'
<1> DEFINE new == [root |-> roots + 1, next |-> 1]
<1>1. /\ sealed' = sealed /\ forked' = forked /\ roots' = roots + 1
      /\ UNCHANGED <<staged, taken, link, hydrating>>
      /\ session' = [session EXCEPT ![d] = new]
  BY DEF Agreed
<1>2. new.root = roots + 1 /\ new # None /\ roots \in Nat
  BY LinkingAssumption DEF IInv, TypeOK, Session
<1> HIDE DEF new
<1>3. Copies /\ OwnCopy /\ Rooted /\ KeyUsedOnceUnlessForked /\ TypeOK
  BY DEF IInv, KeyInv
<1>4. ASSUME NEW s, s = new PROVE Knows(s)'
  BY <1>1, <1>2, <1>3, <1>4 DEF Knows, Rooted, TypeOK
<1>5. ASSUME NEW s \in Session \cup {None}, Knows(s) PROVE Knows(s)'
  BY <1>1, <1>2, <1>5, KnowsKept
<1>6. Copies'
  <2>1. ASSUME NEW e \in Device
        PROVE  Knows(session[e])' /\ Knows(staged[e])'
    <3>1. Knows(staged[e])' /\ Knows(session[e])
          /\ session[e] \in Session \cup {None}
      <4>1. Knows(staged[e]) /\ Knows(session[e])
        BY <1>3 DEF Copies
      <4>2. staged[e] \in Session \cup {None}
            /\ session[e] \in Session \cup {None}
        BY <1>3, CopyTypes
      <4>3. ASSUME NEW s \in Session \cup {None}, Knows(s), staged[e] = s
            PROVE  Knows(staged[e])'
        BY <1>1, <1>5, <4>3 DEF Knows
      <4> QED BY <4>1, <4>2, <4>3
    <3>2. ASSUME NEW s \in Session \cup {None}, Knows(s), session'[e] = s
          PROVE  Knows(session[e])'
      <4>1. Knows(s)'
        BY <1>5, <3>2
      <4> QED BY <4>1, <3>2 DEF Knows
    <3>3. CASE e = d
      <4>1. session'[e] = new
        BY <1>1, <1>3, <3>3 DEF TypeOK
      <4>2. ASSUME NEW s, s = new PROVE Knows(session[e])'
        <5>1. Knows(s)'
          BY <1>4, <4>2
        <5> QED BY <5>1, <4>1, <4>2 DEF Knows
      <4> QED BY <4>2, <3>1
    <3>4. CASE e # d
      <4>1. session'[e] = session[e]
        BY <1>1, <1>3, <3>4 DEF TypeOK
      <4> QED BY <4>1, <3>1, <3>2
    <3> QED BY <3>3, <3>4
  <2>2. ASSUME NEW e \in Device, taken'[e] # None
        PROVE  Knows(taken[e].session)'
    <3>1. Knows(taken[e].session) /\ taken[e].session \in Session \cup {None}
      BY <1>1, <1>3, <2>2, CopyTypes DEF Copies
    <3>2. ASSUME NEW s \in Session \cup {None}, Knows(s),
                 taken[e].session = s
          PROVE  Knows(taken[e].session)'
      BY <1>1, <1>5, <3>2 DEF Knows
    <3> QED BY <3>1, <3>2
  <2>3. ASSUME NEW c \in Code, link'[c] # None
        PROVE  Knows(link[c].session)'
    <3>1. Knows(link[c].session) /\ link[c].session \in Session \cup {None}
      BY <1>1, <1>3, <2>3, CopyTypes DEF Copies
    <3>2. ASSUME NEW s \in Session \cup {None}, Knows(s), link[c].session = s
          PROVE  Knows(link[c].session)'
      BY <1>1, <1>5, <3>2 DEF Knows
    <3> QED BY <3>1, <3>2
  <2> QED BY <2>1, <2>2, <2>3 DEF Copies
<1>7. OwnCopy'
  <2>1. staged[d] # None => staged[d].root <= roots /\ staged[d].root \in Nat
    BY <1>3 DEF Copies, Knows, TypeOK, Session
  <2> QED BY <2>1, <1>1, <1>2, <1>3 DEF OwnCopy, TypeOK
<1>8. Rooted' /\ KeyUsedOnceUnlessForked'
  BY <1>1, <1>2, <1>3 DEF Rooted, KeyUsedOnceUnlessForked, TypeOK
<1> QED BY <1>6, <1>7, <1>8 DEF KeyInv

\* Only a handshake and a frame that is sent do more.
LEMMA KeyStep == IInv /\ [Next]_vars => KeyInv'
<1> SUFFICES ASSUME IInv, [Next]_vars PROVE KeyInv'
  OBVIOUS
<1> USE DEF writers, device, store, transfer, history
<1>1. ASSUME NEW d \in Device, Open(d) PROVE KeyInv'
  <2>1. Moved
    BY <1>1 DEF Moved, IInv, TypeOK, Open
  <2>2. OwnCopy'
    BY <1>1, LinkingAssumption DEF IInv, TypeOK, KeyInv, OwnCopy, Open
  <2> QED BY <2>1, <2>2, MovedKeeps DEF KeyInv
<1>2. ASSUME NEW d \in Device, Leave(d) PROVE KeyInv'
  <2>1. Moved
    BY <1>2 DEF Moved, IInv, TypeOK, Leave, Gone, Event
  <2>2. OwnCopy'
    BY <1>2, LinkingAssumption DEF IInv, TypeOK, KeyInv, OwnCopy, Leave, Gone,
           Event
  <2> QED BY <2>1, <2>2, MovedKeeps DEF KeyInv
<1>3. ASSUME NEW d \in Device, Close(d) PROVE KeyInv'
  <2>1. Moved
    BY <1>3 DEF Moved, IInv, TypeOK, Close, Gone, Event
  <2>2. OwnCopy'
    BY <1>3, LinkingAssumption DEF IInv, TypeOK, KeyInv, OwnCopy, Close, Gone,
           Event
  <2> QED BY <2>1, <2>2, MovedKeeps DEF KeyInv
<1>4. ASSUME NEW d \in Device, Lapse(d) PROVE KeyInv'
  <2>1. Moved
    BY <1>4 DEF Moved, IInv, TypeOK, Lapse, Event
  <2>2. OwnCopy'
    BY <1>4, LinkingAssumption DEF IInv, TypeOK, KeyInv, OwnCopy, Lapse, Event
  <2> QED BY <2>1, <2>2, MovedKeeps DEF KeyInv
<1>5. ASSUME NEW d \in Device, Acquire(d) PROVE KeyInv'
  <2>1. Moved
    BY <1>5 DEF Moved, IInv, TypeOK, Acquire, Holds
  <2>2. OwnCopy'
    BY <1>5, LinkingAssumption DEF IInv, TypeOK, KeyInv, OwnCopy, Acquire,
           Holds
  <2> QED BY <2>1, <2>2, MovedKeeps DEF KeyInv
<1>6. ASSUME NEW d \in Device, Hydrate(d) PROVE KeyInv'
  <2>1. Moved
    BY <1>6 DEF Moved, IInv, TypeOK, Hydrate, Holds
  <2>2. OwnCopy'
    BY <1>6, LinkingAssumption DEF IInv, TypeOK, KeyInv, OwnCopy, Hydrate,
           Holds
  <2> QED BY <2>1, <2>2, MovedKeeps DEF KeyInv
<1>7. ASSUME NEW d \in Device, Clear(d) PROVE KeyInv'
  <2>1. Moved
    BY <1>7 DEF Moved, IInv, TypeOK, Clear, Holds, AfterHydration
  <2>2. OwnCopy'
    BY <1>7, LinkingAssumption DEF IInv, TypeOK, KeyInv, OwnCopy, Clear, Holds,
           AfterHydration
  <2> QED BY <2>1, <2>2, MovedKeeps DEF KeyInv
<1>8. ASSUME NEW d \in Device, Mint(d) PROVE KeyInv'
  <2>1. Moved
    BY <1>8 DEF Moved, IInv, TypeOK, Mint
  <2>2. OwnCopy'
    BY <1>8, LinkingAssumption DEF IInv, TypeOK, KeyInv, OwnCopy, Mint
  <2> QED BY <2>1, <2>2, MovedKeeps DEF KeyInv
<1>9. ASSUME NEW d \in Device, Handshake(d) PROVE KeyInv'
  BY <1>9, AgreedKeeps DEF Handshake
<1>10. ASSUME NEW d \in Device, Send(d) PROVE KeyInv'
  <2> DEFINE s == session[d]
           new == [root |-> s.root, next |-> s.next + 1]
           key == <<s.root, s.next, events>>
           elsewhere == \E r \in Elsewhere(d) : r.root = s.root
  <2>1. /\ sealed' = sealed \cup {key} /\ roots' = roots
        /\ session' = [session EXCEPT ![d] = new]
        /\ forked' = IF elsewhere \/ hydrating[d] = "clearing"
                     THEN forked \cup {s.root} ELSE forked
        /\ UNCHANGED <<staged, taken, link, hydrating>>
        /\ s # None
    BY <1>10 DEF Send
  <2>2. Copies /\ OwnCopy /\ Rooted /\ KeyUsedOnceUnlessForked /\ TypeOK
    BY DEF IInv, KeyInv
  <2>3. /\ s.root \in Nat /\ s.next \in Nat /\ roots \in Nat
        /\ new.root = s.root /\ new.next = s.next + 1
        /\ key[1] = s.root /\ key[2] = s.next
        /\ s.root <= roots
        /\ new # None
    <3>1. s \in Session
      BY <2>1, <2>2 DEF TypeOK
    <3>2. s.root \in Nat /\ s.next \in Nat
      BY <3>1 DEF Session
    <3>3. new \in Session
      BY <3>2 DEF Session
    <3>4. Knows(s)
      BY <2>2 DEF Copies
    <3> QED
      BY <2>1, <2>2, <3>2, <3>3, <3>4, LinkingAssumption DEF Knows, TypeOK
  <2>4. \A f \in sealed : f[1] \in Nat /\ f[2] \in Nat
    BY <2>2 DEF TypeOK
  \* Another copy of this session forks it, or is forgotten.
  <2>5. ASSUME NEW t \in Elsewhere(d), t # None, s.root \notin forked'
        PROVE  t.root # s.root
    BY <2>1, <2>5
  <2>6. \A e \in Device \ {d} :
          /\ session[e] # None => session[e] \in Elsewhere(d)
          /\ staged[e] # None => staged[e] \in Elsewhere(d)
    BY DEF Elsewhere
  <2>7. \A e \in Device : taken[e] # None /\ taken[e].session # None =>
          taken[e].session \in Elsewhere(d)
    BY DEF Elsewhere
  <2>8. \A c \in Code : link[c] # None /\ link[c].session # None =>
          link[c].session \in Elsewhere(d)
    BY DEF Elsewhere
  <2>9. staged[d] # None /\ s.root \notin forked' => staged[d].root # s.root
    BY <2>1, <2>2 DEF OwnCopy
  <2> HIDE DEF new, key, elsewhere, s
  <2>10. ASSUME NEW t \in Session \cup {None}, Knows(t),
                t # None /\ s.root \notin forked' => t.root # s.root
         PROVE  Knows(t)'
    <3> SUFFICES ASSUME t # None
                 PROVE  /\ t.root <= roots'
                        /\ t.root \notin forked' =>
                             \A f \in sealed' : f[1] = t.root => f[2] < t.next
      BY DEF Knows
    <3> QED BY <2>1, <2>3, <2>4, <2>10 DEF Knows
  <2>11. ASSUME NEW t, t = new PROVE Knows(t)'
    <3>1. Knows(s)
      BY <2>2 DEF Copies, s
    <3>2. forked \subseteq forked'
      BY <2>1
    <3>3. ASSUME s.root \notin forked', NEW f \in sealed', f[1] = s.root
          PROVE  f[2] < s.next + 1
      <4>1. CASE f = key
        BY <4>1, <2>3
      <4>2. CASE f \in sealed
        <5>1. f[2] < s.next
          BY <4>2, <3>1, <3>2, <3>3, <2>1 DEF Knows
        <5> QED BY <5>1, <4>2, <2>3, <2>4
      <4> QED BY <4>1, <4>2, <2>1
    <3> QED BY <2>1, <2>3, <2>11, <3>3 DEF Knows
  <2>12. Copies'
    <3>1. ASSUME NEW e \in Device PROVE Knows(session[e])'
      <4>1. CASE e = d
        <5>1. session'[e] = new
          BY <2>1, <2>2, <4>1 DEF TypeOK
        <5>2. ASSUME NEW t, t = new PROVE Knows(session[e])'
          <6>1. Knows(t)'
            BY <2>11, <5>2
          <6> QED BY <6>1, <5>1, <5>2 DEF Knows
        <5> QED BY <5>2
      <4>2. CASE e # d
        <5>1. session'[e] = session[e] /\ session[e] \in Session \cup {None}
          BY <2>1, <2>2, <4>2 DEF TypeOK
        <5>2. Knows(session[e])
          BY <2>2 DEF Copies
        <5>3. session[e] # None
              /\ s.root \notin forked' => session[e].root # s.root
          BY <2>5, <2>6, <4>2
        <5>4. ASSUME NEW t \in Session \cup {None}, t = session[e]
              PROVE  Knows(session[e])'
          <6>1. Knows(t)'
            BY <2>10, <5>2, <5>3, <5>4
          <6> QED BY <6>1, <5>1, <5>4 DEF Knows
        <5> QED BY <5>1, <5>4
      <4> QED BY <4>1, <4>2
    <3>2. ASSUME NEW e \in Device PROVE Knows(staged[e])'
      <4>1. staged[e] \in Session \cup {None} /\ Knows(staged[e])
        BY <2>2, CopyTypes DEF Copies
      <4>2. staged[e] # None
            /\ s.root \notin forked' => staged[e].root # s.root
        BY <2>5, <2>6, <2>9
      <4>3. ASSUME NEW t \in Session \cup {None}, t = staged[e]
            PROVE  Knows(staged[e])'
        <5>1. Knows(t)'
          BY <2>10, <4>1, <4>2, <4>3
        <5> QED BY <5>1, <2>1, <4>3 DEF Knows
      <4> QED BY <4>1, <4>3
    <3>3. ASSUME NEW e \in Device, taken'[e] # None
          PROVE  Knows(taken[e].session)'
      <4>1. taken[e].session \in Session \cup {None} /\ Knows(taken[e].session)
        BY <2>1, <2>2, <3>3, CopyTypes DEF Copies
      <4>2. taken[e].session # None /\ s.root \notin forked' =>
              taken[e].session.root # s.root
        BY <2>1, <2>5, <2>7, <3>3
      <4>3. ASSUME NEW t \in Session \cup {None}, t = taken[e].session
            PROVE  Knows(taken[e].session)'
        <5>1. Knows(t)'
          BY <2>10, <4>1, <4>2, <4>3
        <5> QED BY <5>1, <2>1, <4>3 DEF Knows
      <4> QED BY <4>1, <4>3
    <3>4. ASSUME NEW c \in Code, link'[c] # None
          PROVE  Knows(link[c].session)'
      <4>1. link[c].session \in Session \cup {None} /\ Knows(link[c].session)
        BY <2>1, <2>2, <3>4, CopyTypes DEF Copies
      <4>2. link[c].session # None /\ s.root \notin forked' =>
              link[c].session.root # s.root
        BY <2>1, <2>5, <2>8, <3>4
      <4>3. ASSUME NEW t \in Session \cup {None}, t = link[c].session
            PROVE  Knows(link[c].session)'
        <5>1. Knows(t)'
          BY <2>10, <4>1, <4>2, <4>3
        <5> QED BY <5>1, <2>1, <4>3 DEF Knows
      <4> QED BY <4>1, <4>3
    <3> QED BY <3>1, <3>2, <3>3, <3>4 DEF Copies
  <2>13. OwnCopy'
    <3>1. \A e \in Device \ {d} : session'[e] = session[e]
      BY <2>1, <2>2 DEF TypeOK
    <3>2. session'[d] = new /\ new.root = s.root
      BY <2>1, <2>2, <2>3 DEF TypeOK
    <3>3. forked \subseteq forked'
      BY <2>1
    <3> QED BY <2>1, <2>2, <2>9, <3>1, <3>2, <3>3 DEF OwnCopy
  <2>14. Rooted'
    BY <2>1, <2>2, <2>3 DEF Rooted
  <2>15. KeyUsedOnceUnlessForked'
    <3>1. Knows(s)
      BY <2>2 DEF Copies, s
    <3>2. s.root \notin forked' =>
            \A f \in sealed : f[1] = s.root => f[2] < s.next
      BY <2>1, <3>1 DEF Knows
    <3>3. s.root \notin forked' =>
            \A f \in sealed : f[1] = s.root => f[2] # s.next
      BY <2>3, <2>4, <3>2
    <3>4. forked \subseteq forked'
      BY <2>1
    <3> QED BY <2>1, <2>2, <2>3, <3>3, <3>4 DEF KeyUsedOnceUnlessForked
  <2> QED BY <2>12, <2>13, <2>14, <2>15 DEF KeyInv
<1>11. ASSUME NEW d \in Device, MakeCode(d) PROVE KeyInv'
  <2>1. Moved
    BY <1>11 DEF Moved, IInv, TypeOK, MakeCode
  <2>2. OwnCopy'
    BY <1>11, LinkingAssumption DEF IInv, TypeOK, KeyInv, OwnCopy, MakeCode
  <2> QED BY <2>1, <2>2, MovedKeeps DEF KeyInv
<1>12. ASSUME NEW d \in Device, ApplyToStore(d) PROVE KeyInv'
  <2>1. Moved
    BY <1>12 DEF Moved, IInv, TypeOK, ApplyToStore
  <2>2. OwnCopy'
    BY <1>12, LinkingAssumption DEF IInv, TypeOK, KeyInv, OwnCopy, ApplyToStore
  <2> QED BY <2>1, <2>2, MovedKeeps DEF KeyInv
<1>13. ASSUME NEW d \in Device, ApplyToList(d) PROVE KeyInv'
  <2>1. Moved
    BY <1>13 DEF Moved, IInv, TypeOK, ApplyToList
  <2>2. OwnCopy'
    BY <1>13, LinkingAssumption DEF IInv, TypeOK, KeyInv, OwnCopy, ApplyToList
  <2> QED BY <2>1, <2>2, MovedKeeps DEF KeyInv
<1>14. ASSUME NEW d \in Device, Delete(d) PROVE KeyInv'
  <2>1. Moved
    BY <1>14 DEF Moved, IInv, TypeOK, Delete, Gone, Event, Cleared
  <2>2. OwnCopy'
    BY <1>14, LinkingAssumption DEF IInv, TypeOK, KeyInv, OwnCopy, Delete,
           Gone, Event, Cleared
  <2> QED BY <2>1, <2>2, MovedKeeps DEF KeyInv
<1>15. ASSUME NEW d \in Device, NEW c \in Code, Take(d, c) PROVE KeyInv'
  <2>1. Moved
    BY <1>15 DEF Moved, IInv, TypeOK, Take, AfterTake
  <2>2. OwnCopy'
    BY <1>15, LinkingAssumption DEF IInv, TypeOK, KeyInv, OwnCopy, Take,
           AfterTake
  <2> QED BY <2>1, <2>2, MovedKeeps DEF KeyInv
<1>16. ASSUME NEW c \in Code, Expire(c) PROVE KeyInv'
  <2>1. Moved
    BY <1>16 DEF Moved, IInv, TypeOK, Expire
  <2>2. OwnCopy'
    BY <1>16, LinkingAssumption DEF IInv, TypeOK, KeyInv, OwnCopy, Expire
  <2> QED BY <2>1, <2>2, MovedKeeps DEF KeyInv
<1>17. CASE UNCHANGED vars
  <2>1. Moved
    BY <1>17 DEF vars, Moved
  <2>2. OwnCopy'
    BY <1>17 DEF vars, IInv, KeyInv, OwnCopy
  <2> QED BY <2>1, <2>2, MovedKeeps DEF KeyInv
<1>18. ASSUME NEW d \in Device, Unwritten(d) PROVE KeyInv'
  <2>1. Moved
    BY <1>18 DEF Moved, IInv, TypeOK, Unwritten
  <2>2. OwnCopy'
    BY <1>18, LinkingAssumption DEF IInv, TypeOK, KeyInv, OwnCopy, Unwritten
  <2> QED BY <2>1, <2>2, MovedKeeps DEF KeyInv
<1>19. ASSUME NEW d \in Device, Consume(d) PROVE KeyInv'
  <2>1. Moved
    BY <1>19 DEF Moved, IInv, TypeOK, Consume
  <2>2. OwnCopy'
    BY <1>19, LinkingAssumption DEF IInv, TypeOK, KeyInv, OwnCopy, Consume
  <2> QED BY <2>1, <2>2, MovedKeeps DEF KeyInv
<1>20. ASSUME NEW d \in Device, Consumed(d) PROVE KeyInv'
  <2>1. CASE d \in at
    BY <1>20, <2>1, AgreedKeeps DEF Consumed
  <2>2. CASE d \notin at
    <3>1. Moved
      BY <1>20, <2>2 DEF Moved, IInv, TypeOK, Consumed
    <3>2. OwnCopy'
      BY <1>20, <2>2, LinkingAssumption
         DEF IInv, TypeOK, KeyInv, OwnCopy, Consumed
    <3> QED BY <3>1, <3>2, MovedKeeps DEF KeyInv
  <2> QED BY <2>1, <2>2
<1> QED
  BY <1>1, <1>2, <1>3, <1>4, <1>5, <1>6, <1>7, <1>8, <1>9, <1>10, <1>11, <1>12,
     <1>13, <1>14, <1>15, <1>16, <1>17, <1>18, <1>19, <1>20 DEF Next

-----------------------------------------------------------------------------
LEMMA InitInv == Init => IInv
<1> SUFFICES ASSUME Init PROVE IInv
  OBVIOUS
<1>1. TypeOK
  BY LinkingAssumption DEF Init, TypeOK
<1>2. KeyInv
  BY DEF Init, KeyInv, Copies, Knows, OwnCopy, Rooted, KeyUsedOnceUnlessForked
<1>3. CodeInv
  BY LinkingAssumption DEF Init, CodeInv, Code
<1>4. DeletionInv
  BY LinkingAssumption
     DEF Init, DeletionInv, DeletedLeavesNothingUnlessRaced
<1> QED BY <1>1, <1>2, <1>3, <1>4 DEF IInv

LEMMA InvStep == IInv /\ [Next]_vars => IInv'
BY TypeStep, KeyStep, CodeStep, DeletionStep DEF IInv

LEMMA Invariance == Spec => []IInv
BY InitInv, InvStep, PTL DEF Spec

\* Type correctness of the devices, their stores, the codes and the sessions.
THEOREM LinkingTypes == Spec => []TypeOK
<1>1. IInv => TypeOK
  BY DEF IInv
<1> QED BY <1>1, Invariance, PTL

\* However a session is exported, imported, cleared and left, on any number of
\* devices: no key of it seals two frames, unless a device used the session
\* beside another copy of it (useQueueTransport.ts:695, deviceLink.ts:186).
THEOREM KeysUsedOnce == Spec => []KeyUsedOnceUnlessForked
<1>1. IInv => KeyUsedOnceUnlessForked
  BY DEF IInv, KeyInv
<1> QED BY <1>1, Invariance, PTL

\* The payload of a code is fetched by at most one device, and is not lost by
\* other means than expiry (DeviceLinkDO.ts:74).
THEOREM CodesRedeemedOnce == Spec => []RedeemedOnce
<1>1. ASSUME IInv PROVE RedeemedOnce
  <2> SUFFICES ASSUME NEW c \in 1 .. codes
               PROVE  /\ Cardinality(applied[c]) <= 1
                      /\ applied[c] = {} => link[c] # None \/ c \in lost
    BY DEF RedeemedOnce
  <2>1. c \in Code /\ c <= codes
    BY <1>1, LinkingAssumption DEF IInv, TypeOK, Code
  <2>2. applied[c] = {} \/ \E d \in Device : applied[c] = {d}
    BY <1>1, <2>1 DEF IInv, CodeInv, TypeOK
  <2>3. Cardinality(applied[c]) \in {0, 1}
    BY <2>2, FS_EmptySet, FS_Singleton
  <2> QED BY <1>1, <2>1, <2>3 DEF IInv, CodeInv
<1> QED BY <1>1, Invariance, PTL

\* What is left of a deleted chat on a device was under way when it was deleted
\* (Chats.tsx:304).
THEOREM DeletionIsComplete == Spec => []DeletedLeavesNothingUnlessRaced
<1>1. IInv => DeletedLeavesNothingUnlessRaced
  BY DEF IInv, DeletionInv
<1> QED BY <1>1, Invariance, PTL

-----------------------------------------------------------------------------
(* Vault *)

\* The generation and the etag tell the same version.
Agrees(v) == v # Nothing => v.gen = v.etag

CopiesAgree ==
  /\ Agrees(backup)
  /\ \A c \in Client : Agrees(known[c])
  /\ \A r \in requests : Agrees(r.base) /\ Agrees(r.head)
Looked ==
  \A r \in requests : r.at = "looked" =>
    r.base # Nothing /\ r.head # Nothing /\ r.base.gen = r.head.gen
Counted ==
  IF backup = Nothing THEN etags = 0 ELSE backup.gen + 1 = etags

PutsHaveBase == \A r \in requests : r.kind = "put" => r.base # Nothing
BackupInv ==
  /\ PutsHaveBase
  /\ Looked
  /\ ~reset => CopiesAgree /\ Counted /\ overwritten = {}

\* What is stored, and what was attached where.
Stored ==
  /\ \A u \in uploads : u.stored => u.file \in media
  /\ \A f \in File : composer[f] = "ready" => f \in media
Placed ==
  /\ \A f \in File :
       composer[f] # Nothing => f \in attached /\ attachedAt[f] = atChat
  /\ \A s \in sent : s.file \in attached
MediaInv == Stored /\ Placed /\ SentAsAttached

VaultIInv == VaultTypeOK /\ BackupInv /\ MediaInv

LEMMA Versions ==
  /\ Nothing \notin Version
  /\ Absent \in Version /\ Absent # Nothing /\ Absent.gen = -1 /\ Absent.etag = -1
  /\ \A v \in Version : v.gen \in Int /\ v.etag \in Int
  /\ \A g, e \in Int : [gen |-> g, etag |-> e] \in Version
<1>1. Absent \in Version /\ \A g, e \in Int : [gen |-> g, etag |-> e] \in Version
  BY DEF Absent, Version
<1>2. Nothing \notin Version
  BY VaultAssumption
<1>3. Absent.gen = -1 /\ Absent.etag = -1
  BY DEF Absent
<1>4. \A v \in Version : v.gen \in Int /\ v.etag \in Int
  BY DEF Version
<1> QED BY <1>1, <1>2, <1>3, <1>4

LEMMA VaultInitInv == VaultInit => VaultIInv
<1> SUFFICES ASSUME VaultInit PROVE VaultIInv
  OBVIOUS
<1>1. VaultTypeOK
  BY DEF VaultInit, VaultTypeOK
<1>2. BackupInv
  BY DEF VaultInit, BackupInv, PutsHaveBase, Looked, CopiesAgree, Counted, Agrees
<1>3. MediaInv
  BY VaultAssumption DEF VaultInit, MediaInv, Stored, Placed, SentAsAttached
<1> QED BY <1>1, <1>2, <1>3 DEF VaultIInv

-----------------------------------------------------------------------------
(* The backup *)

Request ==
  [client : Client, kind : Kind, base : Version \cup {Nothing},
   head : Version \cup {Nothing},
   at : {"arrived", "counted", "looked", "ok", "refused"}]

\* A handler goes on: the other requests are what they were.
LEMMA GoesFacts ==
  ASSUME VaultTypeOK, NEW r \in requests, NEW place, NEW head,
         place \in {"counted", "looked", "ok", "refused"},
         head \in Version \cup {Nothing}, Goes(r, place, head)
  PROVE /\ requests' \subseteq Request
        /\ r \in Request
        /\ \A q \in requests' :
             \/ q \in requests
             \/ /\ q.kind = r.kind /\ q.base = r.base /\ q.at = place
                /\ q.head = head
<1>1. r \in Request /\ requests \subseteq Request
  BY DEF VaultTypeOK, Request
<1>2. [client |-> r.client, kind |-> r.kind, at |-> place, base |-> r.base,
       head |-> head] \in Request
  BY <1>1 DEF Request
<1> QED BY <1>1, <1>2 DEF Goes

LEMMA AskStep ==
  ASSUME VaultIInv, NEW c \in Client, NEW kind \in Kind, Ask(c, kind)
  PROVE VaultIInv'
<1> DEFINE new == [client |-> c, kind |-> kind, at |-> "arrived",
                   base |-> known[c], head |-> Nothing]
<1>1. requests' = requests \cup {new} /\ UNCHANGED <<medias, faults>>
      /\ UNCHANGED <<backup, known, etags, reset, overwritten>>
  BY DEF Ask
<1>2. new \in Request /\ new.base = known[c] /\ new.head = Nothing
      /\ new.at = "arrived" /\ new.kind = kind
  BY DEF VaultIInv, VaultTypeOK, Request
<1>3. writes' \in Nat
  BY DEF Ask, VaultIInv, VaultTypeOK
<1>4. VaultTypeOK'
  BY <1>1, <1>2, <1>3 DEF VaultIInv, VaultTypeOK, medias, Request
<1>5. kind = "put" => known[c] # Nothing
  BY DEF Ask
<1> HIDE DEF new
<1>6. BackupInv'
  BY <1>1, <1>2, <1>5 DEF VaultIInv, BackupInv, PutsHaveBase, Looked, CopiesAgree,
                          Counted, Agrees
<1>7. MediaInv'
  BY <1>1 DEF VaultIInv, MediaInv, Stored, Placed, SentAsAttached, medias
<1> QED BY <1>4, <1>6, <1>7 DEF VaultIInv

\* The handlers that only go on, with a head they have just read or none.
LEMMA PassStep ==
  ASSUME VaultIInv, NEW r \in requests, NEW place, NEW head,
         place \in {"counted", "looked", "ok", "refused"},
         head \in Version \cup {Nothing}, Goes(r, place, head),
         ~reset => Agrees(head),
         place = "looked" =>
           r.base # Nothing /\ head # Nothing /\ r.base.gen = head.gen,
         UNCHANGED <<backup, known, etags, reset, overwritten, writes>>,
         UNCHANGED <<medias, faults>>
  PROVE VaultIInv'
<1>1. /\ requests' \subseteq Request
      /\ \A q \in requests' :
           \/ q \in requests
           \/ /\ q.kind = r.kind /\ q.base = r.base /\ q.at = place
              /\ q.head = head
  BY GoesFacts DEF VaultIInv
<1>2. VaultTypeOK'
  BY <1>1 DEF VaultIInv, VaultTypeOK, medias, Request
<1>3. PutsHaveBase'
  BY <1>1 DEF VaultIInv, BackupInv, PutsHaveBase
<1>4. Looked'
  <2> SUFFICES ASSUME NEW q \in requests', q.at = "looked"
               PROVE q.base # Nothing /\ q.head # Nothing /\ q.base.gen = q.head.gen
    BY DEF Looked
  <2>1. CASE q \in requests
    BY <2>1 DEF VaultIInv, BackupInv, Looked
  <2>2. CASE q \notin requests
    BY <2>2, <1>1
  <2> QED BY <2>1, <2>2
<1>5. ASSUME ~reset' PROVE (CopiesAgree /\ Counted /\ overwritten = {})'
  <2>1. CopiesAgree /\ Counted /\ overwritten = {} /\ Agrees(head)
    BY <1>5 DEF VaultIInv, BackupInv
  <2>2. \A q \in requests' : Agrees(q.base) /\ Agrees(q.head)
    BY <1>1, <2>1 DEF CopiesAgree
  <2>3. \A c \in Client : Agrees(known'[c])
    BY <2>1 DEF CopiesAgree
  <2>4. Agrees(backup')
    BY <2>1 DEF CopiesAgree
  <2> QED BY <2>1, <2>2, <2>3, <2>4 DEF CopiesAgree, Counted, Agrees
<1>6. MediaInv'
  BY DEF VaultIInv, MediaInv, Stored, Placed, SentAsAttached, medias
<1> QED BY <1>2, <1>3, <1>4, <1>5, <1>6 DEF VaultIInv, BackupInv

LEMMA HeadStep ==
  ASSUME VaultIInv, NEW r \in requests, Head(r)
  PROVE VaultIInv'
<1> DEFINE now == IF backup = Nothing THEN Absent ELSE backup
           place == IF r.base.gen = now.gen THEN "looked" ELSE "refused"
<1>1. now \in Version /\ now # Nothing
  BY Versions DEF VaultIInv, VaultTypeOK
<1>2. r.base # Nothing
  BY DEF Head, VaultIInv, BackupInv, PutsHaveBase
<1>3. ~reset => Agrees(now)
  BY Versions DEF VaultIInv, BackupInv, CopiesAgree, Agrees
<1>4. Goes(r, place, now)
  BY DEF Head
<1>5. UNCHANGED <<backup, known, etags, reset, overwritten, writes>>
      /\ UNCHANGED <<medias, faults>>
  BY DEF Head
<1>6. place \in {"counted", "looked", "ok", "refused"}
      /\ (place = "looked" => r.base.gen = now.gen)
  OBVIOUS
<1> HIDE DEF now, place
<1> QED BY <1>1, <1>2, <1>3, <1>4, <1>5, <1>6, PassStep

LEMMA CountStep ==
  ASSUME VaultIInv, NEW r \in requests, NEW allowed \in BOOLEAN, Count(r, allowed)
  PROVE VaultIInv'
<1> DEFINE place == IF allowed THEN "counted" ELSE "refused"
<1>1. /\ Goes(r, place, Nothing)
      /\ Agrees(Nothing) /\ Nothing \in Version \cup {Nothing}
  BY DEF Count, Agrees
<1>2. UNCHANGED <<backup, known, etags, reset, overwritten, writes>>
      /\ UNCHANGED <<medias, faults>>
  BY DEF Count
<1>3. place \in {"counted", "looked", "ok", "refused"} /\ place # "looked"
  OBVIOUS
<1> HIDE DEF place
<1> QED BY <1>1, <1>2, <1>3, PassStep

LEMMA GetStep ==
  ASSUME VaultIInv, NEW r \in requests, Get(r)
  PROVE VaultIInv'
<1> DEFINE now == IF backup = Nothing THEN Absent ELSE backup
<1>1. now \in Version
  BY Versions DEF VaultIInv, VaultTypeOK
<1>2. ~reset => Agrees(now)
  BY Versions DEF VaultIInv, BackupInv, CopiesAgree, Agrees
<1>3. Goes(r, "ok", now)
  BY DEF Get
<1>4. UNCHANGED <<backup, known, etags, reset, overwritten, writes>>
      /\ UNCHANGED <<medias, faults>>
  BY DEF Get
<1> HIDE DEF now
<1> QED BY <1>1, <1>2, <1>3, <1>4, PassStep

LEMMA DeleteStep ==
  ASSUME VaultIInv, NEW r \in requests, DeleteBackup(r)
  PROVE VaultIInv'
<1>1. /\ requests' \subseteq Request
      /\ \A q \in requests' :
           \/ q \in requests
           \/ q.kind = r.kind /\ q.base = r.base /\ q.at = "ok"
  BY GoesFacts, Versions DEF VaultIInv, DeleteBackup
<1>2. /\ UNCHANGED <<known, etags, overwritten, writes>>
      /\ UNCHANGED <<medias, faults>> /\ backup' = Nothing /\ reset'
  BY DEF DeleteBackup
<1>3. reset' = TRUE
  BY DEF DeleteBackup
<1>4. VaultTypeOK'
  BY <1>1, <1>2, <1>3 DEF VaultIInv, VaultTypeOK, medias, Request
<1>5. PutsHaveBase' /\ Looked'
  BY <1>1 DEF VaultIInv, BackupInv, PutsHaveBase, Looked
<1>6. MediaInv'
  BY <1>2 DEF VaultIInv, MediaInv, Stored, Placed, SentAsAttached, medias
<1> QED BY <1>3, <1>4, <1>5, <1>6 DEF VaultIInv, BackupInv

\* The write: the object was not there, or is the one that was looked at.
LEMMA PutStep ==
  ASSUME VaultIInv, NEW r \in requests, Put(r)
  PROVE VaultIInv'
<1>1. CASE ~Matches(r.head)
  <2>1. /\ Goes(r, "refused", Nothing)
        /\ Agrees(Nothing) /\ Nothing \in Version \cup {Nothing}
    BY <1>1 DEF Put, Agrees
  <2>2. UNCHANGED <<backup, known, etags, reset, overwritten, writes>>
        /\ UNCHANGED <<medias, faults>>
    BY <1>1 DEF Put
  <2> QED BY <2>1, <2>2, PassStep
<1>2. CASE Matches(r.head)
  <2> DEFINE new == [gen |-> r.base.gen + 1, etag |-> etags]
  <2>1. /\ r.base \in Version /\ r.head \in Version
        /\ r.base # Nothing /\ r.head # Nothing /\ r.base.gen = r.head.gen
        /\ r.base.gen \in Int /\ r.base.etag \in Int /\ etags \in Nat
    <3>1. r.base \in Version \cup {Nothing} /\ r.head \in Version \cup {Nothing}
          /\ etags \in Nat
      BY DEF VaultIInv, VaultTypeOK
    <3>2. r.base # Nothing /\ r.head # Nothing /\ r.base.gen = r.head.gen
      BY DEF Put, VaultIInv, BackupInv, Looked
    <3> QED BY <3>1, <3>2, Versions
  <2>2. new \in Version /\ new.gen = r.base.gen + 1 /\ new.etag = etags
        /\ new # Nothing
    BY <2>1, Versions DEF Version
  <2>3. /\ backup' = new /\ etags' = etags + 1
        /\ reset' = (reset \/ (r.head = Absent /\ backup # Nothing))
        /\ overwritten' = IF backup # Nothing /\ backup.etag # r.base.etag
                          THEN overwritten \cup {backup.etag} ELSE overwritten
        /\ Goes(r, "ok", new)
        /\ UNCHANGED <<known, writes, medias, faults>>
    BY <1>2 DEF Put
  <2> HIDE DEF new
  <2>4. /\ requests' \subseteq Request
        /\ \A q \in requests' :
             \/ q \in requests
             \/ /\ q.kind = r.kind /\ q.base = r.base /\ q.at = "ok"
                /\ q.head = new
    BY <2>2, <2>3, GoesFacts DEF VaultIInv
  <2>5. VaultTypeOK'
    <3>1. backup' \in Version /\ etags' \in Nat /\ reset' \in BOOLEAN
      BY <2>1, <2>2, <2>3 DEF VaultIInv, VaultTypeOK
    <3>2. overwritten' \subseteq Int
      BY <2>3, Versions DEF VaultIInv, VaultTypeOK
    <3> QED BY <2>3, <2>4, <3>1, <3>2 DEF VaultIInv, VaultTypeOK, medias, Request
  <2>6. PutsHaveBase' /\ Looked'
    BY <2>4 DEF VaultIInv, BackupInv, PutsHaveBase, Looked
  <2>7. ASSUME ~reset' PROVE (CopiesAgree /\ Counted /\ overwritten = {})'
    <3>1. ~reset /\ (r.head = Absent => backup = Nothing)
      BY <2>3, <2>7 DEF VaultIInv, VaultTypeOK
    <3>2. CopiesAgree /\ Counted /\ overwritten = {}
      BY <3>1 DEF VaultIInv, BackupInv
    <3>3. r.base.gen = r.base.etag /\ r.head.gen = r.head.etag
      BY <2>1, <3>2 DEF CopiesAgree, Agrees
    <3>4. CASE r.head = Absent
      <4>1. backup = Nothing /\ etags = 0 /\ r.base.gen = -1
        BY <3>1, <3>2, <3>4, <2>1, Versions DEF Counted
      <4>2. new.gen = new.etag /\ new.gen + 1 = etags' /\ overwritten' = {}
        BY <4>1, <2>2, <2>3, <3>2
      <4> QED BY <4>2, <2>2, <2>3, <2>4, <3>2 DEF CopiesAgree, Counted, Agrees
    <3>5. CASE r.head # Absent
      <4>1. backup # Nothing /\ backup.etag = r.head.etag
        BY <1>2, <3>5 DEF Matches
      <4>2. backup.gen = backup.etag /\ backup.gen + 1 = etags
        BY <4>1, <3>2 DEF CopiesAgree, Counted, Agrees
      <4>3. backup.etag = r.base.etag /\ r.base.gen + 1 = etags
        BY <4>1, <4>2, <3>3, <2>1
      <4>4. new.gen = new.etag /\ new.gen + 1 = etags' /\ overwritten' = {}
        BY <4>1, <4>3, <2>1, <2>2, <2>3, <3>2
      <4> QED BY <4>4, <2>2, <2>3, <2>4, <3>2 DEF CopiesAgree, Counted, Agrees
    <3> QED BY <3>4, <3>5
  <2>8. MediaInv'
    BY <2>3 DEF VaultIInv, MediaInv, Stored, Placed, SentAsAttached, medias
  <2> QED BY <2>5, <2>6, <2>7, <2>8 DEF VaultIInv, BackupInv
<1> QED BY <1>1, <1>2

LEMMA AnswerStep ==
  ASSUME VaultIInv, NEW r \in requests, Answer(r) \/ LoseAnswer(r)
  PROVE VaultIInv'
<1>1. /\ requests' \subseteq requests
      /\ known' \in {known, [known EXCEPT ![r.client] = r.head]}
      /\ UNCHANGED <<backup, etags, reset, overwritten, writes, medias>>
  BY DEF Answer, LoseAnswer
<1>2. faults' \in Nat
  BY DEF Answer, LoseAnswer, Fault, VaultIInv, VaultTypeOK
<1>3. r.head \in Version \cup {Nothing} /\ r.client \in Client
  BY DEF VaultIInv, VaultTypeOK
<1>4. VaultTypeOK'
  <2>1. known' \in [Client -> Version \cup {Nothing}]
    BY <1>1, <1>3 DEF VaultIInv, VaultTypeOK
  <2> QED BY <1>1, <1>2, <2>1 DEF VaultIInv, VaultTypeOK, medias
<1>5. BackupInv'
  <2>1. PutsHaveBase' /\ Looked'
    BY <1>1 DEF VaultIInv, BackupInv, PutsHaveBase, Looked
  <2>2. ASSUME ~reset' PROVE (CopiesAgree /\ Counted /\ overwritten = {})'
    <3>1. CopiesAgree /\ Counted /\ overwritten = {}
      BY <1>1, <2>2 DEF VaultIInv, BackupInv
    <3>2. \A c \in Client : known'[c] = known[c] \/ known'[c] = r.head
      BY <1>1 DEF VaultIInv, VaultTypeOK
    <3> QED BY <1>1, <3>1, <3>2 DEF CopiesAgree, Counted, Agrees
  <2> QED BY <2>1, <2>2 DEF BackupInv
<1>6. MediaInv'
  BY <1>1 DEF VaultIInv, MediaInv, Stored, Placed, SentAsAttached, medias
<1> QED BY <1>4, <1>5, <1>6 DEF VaultIInv
-----------------------------------------------------------------------------
(* Media *)

Upload == [file : File, stored : BOOLEAN]

\* A step of the media leaves the backup alone.
LEMMA BackupKept ==
  ASSUME VaultIInv, UNCHANGED backups
  PROVE BackupInv'
BY DEF VaultIInv, BackupInv, PutsHaveBase, Looked, CopiesAgree, Counted, Agrees,
       backups

LEMMA AttachStep ==
  ASSUME VaultIInv, NEW f \in File, Attach(f)
  PROVE VaultIInv'
<1>1. BackupInv'
  BY BackupKept DEF Attach
<1>2. VaultTypeOK'
  <2>1. composer' \in [File -> {Nothing, "uploading", "ready", "error"}]
    BY DEF Attach, VaultIInv, VaultTypeOK
  <2>2. attachedAt' \in [File -> Chat \cup {Nothing}]
    BY DEF Attach, VaultIInv, VaultTypeOK
  <2>3. [file |-> f, stored |-> FALSE] \in Upload
    BY DEF Upload
  <2>4. uploads' \subseteq Upload
    BY <2>3 DEF Attach, VaultIInv, VaultTypeOK, Upload
  <2>5. attached' \subseteq File
    BY DEF Attach, VaultIInv, VaultTypeOK
  <2> QED
    BY <2>1, <2>2, <2>4, <2>5 DEF Attach, VaultIInv, VaultTypeOK, backups, Upload
<1>3. Stored'
  BY DEF Attach, VaultIInv, VaultTypeOK, MediaInv, Stored
<1>4. Placed'
  BY DEF Attach, VaultIInv, VaultTypeOK, MediaInv, Placed
<1>5. SentAsAttached'
  BY DEF Attach, VaultIInv, VaultTypeOK, MediaInv, Placed, SentAsAttached
<1> QED BY <1>1, <1>2, <1>3, <1>4, <1>5 DEF VaultIInv, MediaInv

LEMMA StoreStep ==
  ASSUME VaultIInv, NEW u \in uploads, Store(u)
  PROVE VaultIInv'
<1>1. BackupInv'
  BY BackupKept DEF Store
<1>2. u.file \in File /\ media' = media \cup {u.file}
  BY DEF Store, VaultIInv, VaultTypeOK
<1>3. VaultTypeOK'
  <2>1. [file |-> u.file, stored |-> TRUE] \in Upload
    BY <1>2 DEF Upload
  <2>2. uploads' \subseteq Upload
    BY <2>1 DEF Store, VaultIInv, VaultTypeOK, Upload
  <2>3. media' \subseteq File
    BY <1>2 DEF VaultIInv, VaultTypeOK
  <2> QED BY <2>2, <2>3 DEF Store, VaultIInv, VaultTypeOK, backups, Upload
<1>4. MediaInv'
  BY DEF Store, VaultIInv, MediaInv, Stored, Placed, SentAsAttached
<1> QED BY <1>1, <1>3, <1>4 DEF VaultIInv

\* The end of an upload marks a file that the composer still has.
LEMMA EndedStep ==
  ASSUME VaultIInv, NEW u \in uploads, Uploaded(u) \/ UploadFails(u)
  PROVE VaultIInv'
<1>1. /\ uploads' \subseteq uploads
      /\ UNCHANGED <<backups, media, atChat, sent, attached, attachedAt, viewed>>
      /\ faults' \in Nat
  BY DEF Uploaded, UploadFails, Ended, Fault, VaultIInv, VaultTypeOK
<1>2. u.file \in File
  BY DEF VaultIInv, VaultTypeOK
<1>3. PICK status \in {"ready", "error"} :
        /\ composer' = [composer EXCEPT ![u.file] =
                          IF @ = Nothing THEN Nothing ELSE status]
        /\ status = "ready" => u.stored
  BY DEF Uploaded, UploadFails, Ended, Status
<1>4. \A f \in File :
        \/ composer'[f] = composer[f]
        \/ f = u.file /\ composer[f] # Nothing /\ composer'[f] = status
  BY <1>3 DEF VaultIInv, VaultTypeOK
<1>5. BackupInv'
  BY <1>1, BackupKept
<1>6. VaultTypeOK'
  <2>1. composer' \in [File -> {Nothing, "uploading", "ready", "error"}]
    BY <1>2, <1>3 DEF VaultIInv, VaultTypeOK
  <2> QED BY <1>1, <2>1 DEF VaultIInv, VaultTypeOK, backups
<1>7. Stored'
  <2>1. status = "ready" => u.file \in media
    BY <1>3 DEF VaultIInv, MediaInv, Stored
  <2> QED BY <1>1, <1>4, <2>1 DEF VaultIInv, MediaInv, Stored
<1>8. Placed' /\ SentAsAttached'
  BY <1>1, <1>4 DEF VaultIInv, MediaInv, Placed, SentAsAttached
<1> QED BY <1>5, <1>6, <1>7, <1>8 DEF VaultIInv, MediaInv

\* What empties the composer, all of it or for one file, harms nothing.
LEMMA RemoveStep ==
  ASSUME VaultIInv, NEW f \in File, Remove(f)
  PROVE VaultIInv'
<1>1. BackupInv'
  BY BackupKept DEF Remove
<1>2. VaultTypeOK'
  <2>1. composer' \in [File -> {Nothing, "uploading", "ready", "error"}]
    BY DEF Remove, VaultIInv, VaultTypeOK
  <2> QED BY <2>1 DEF Remove, VaultIInv, VaultTypeOK, backups
<1>3. \A g \in File : composer'[g] \in {composer[g], Nothing}
  BY DEF Remove, VaultIInv, VaultTypeOK
<1>4. MediaInv'
  BY <1>3, VaultAssumption
     DEF Remove, VaultIInv, MediaInv, Stored, Placed, SentAsAttached
<1> QED BY <1>1, <1>2, <1>4 DEF VaultIInv

LEMMA SwitchStep ==
  ASSUME VaultIInv, NEW c \in Chat, SwitchChat(c)
  PROVE VaultIInv'
<1>1. BackupInv'
  BY BackupKept DEF SwitchChat
<1>2. faults' \in Nat
  BY DEF SwitchChat, Fault, VaultIInv, VaultTypeOK
<1>3. VaultTypeOK'
  BY <1>2 DEF SwitchChat, VaultIInv, VaultTypeOK, backups
<1>4. MediaInv'
  BY VaultAssumption
     DEF SwitchChat, VaultIInv, MediaInv, Stored, Placed, SentAsAttached
<1> QED BY <1>1, <1>3, <1>4 DEF VaultIInv

LEMMA SubmitStep ==
  ASSUME VaultIInv, Submit
  PROVE VaultIInv'
<1>1. BackupInv'
  BY BackupKept DEF Submit
<1>2. \A s \in sent' :
        s \in sent \/ \E f \in Ready : s = [file |-> f, chat |-> atChat]
  BY DEF Submit
<1>3. \A f \in Ready : /\ f \in File /\ f \in media /\ f \in attached
                       /\ attachedAt[f] = atChat
  BY VaultAssumption DEF Ready, VaultIInv, MediaInv, Stored, Placed
<1>4. VaultTypeOK'
  <2>1. sent' \subseteq [file : File, chat : Chat]
    BY <1>2, <1>3 DEF VaultIInv, VaultTypeOK
  <2> QED BY <2>1 DEF Submit, VaultIInv, VaultTypeOK, backups
<1>5. Stored'
  BY VaultAssumption DEF Submit, VaultIInv, MediaInv, Stored
<1>6. Placed' /\ SentAsAttached'
  BY <1>2, <1>3 DEF Submit, VaultIInv, MediaInv, Placed, SentAsAttached
<1> QED BY <1>1, <1>4, <1>5, <1>6 DEF VaultIInv, MediaInv

LEMMA ViewStep ==
  ASSUME VaultIInv, NEW s \in sent, View(s)
  PROVE VaultIInv'
<1>1. BackupInv'
  BY BackupKept DEF View
<1>2. viewed' \subseteq File /\ faults' \in Nat
  BY DEF View, Fault, VaultIInv, VaultTypeOK
<1>3. VaultTypeOK'
  BY <1>2 DEF View, VaultIInv, VaultTypeOK, backups
<1>4. MediaInv'
  BY DEF View, VaultIInv, MediaInv, Stored, Placed, SentAsAttached
<1> QED BY <1>1, <1>3, <1>4 DEF VaultIInv

-----------------------------------------------------------------------------
LEMMA VaultInvStep == VaultIInv /\ [VaultNext]_vaultVars => VaultIInv'
<1> SUFFICES ASSUME VaultIInv, [VaultNext]_vaultVars PROVE VaultIInv'
  OBVIOUS
<1>1. ASSUME NEW c \in Client, NEW k \in Kind, Ask(c, k) PROVE VaultIInv'
  BY <1>1, AskStep
<1>2. ASSUME NEW r \in requests, NEW allowed \in BOOLEAN, Count(r, allowed)
      PROVE VaultIInv'
  BY <1>2, CountStep
<1>3. ASSUME NEW r \in requests,
             Head(r) \/ Put(r) \/ Get(r) \/ DeleteBackup(r) \/ Answer(r)
               \/ LoseAnswer(r)
      PROVE VaultIInv'
  BY <1>3, HeadStep, PutStep, GetStep, DeleteStep, AnswerStep
<1>4. ASSUME NEW f \in File, Attach(f) \/ Remove(f) PROVE VaultIInv'
  BY <1>4, AttachStep, RemoveStep
<1>5. ASSUME NEW u \in uploads, Store(u) \/ Uploaded(u) \/ UploadFails(u)
      PROVE VaultIInv'
  BY <1>5, StoreStep, EndedStep
<1>6. ASSUME NEW c \in Chat, SwitchChat(c) PROVE VaultIInv'
  BY <1>6, SwitchStep
<1>7. CASE Submit
  BY <1>7, SubmitStep
<1>8. ASSUME NEW s \in sent, View(s) PROVE VaultIInv'
  BY <1>8, ViewStep
<1>9. CASE UNCHANGED vaultVars
  <2>1. VaultTypeOK'
    BY <1>9 DEF VaultIInv, VaultTypeOK, vaultVars, backups, medias
  <2>2. BackupInv'
    BY <1>9, BackupKept DEF vaultVars
  <2>3. MediaInv'
    BY <1>9 DEF VaultIInv, MediaInv, Stored, Placed, SentAsAttached,
                vaultVars, medias
  <2> QED BY <2>1, <2>2, <2>3 DEF VaultIInv
<1> QED BY <1>1, <1>2, <1>3, <1>4, <1>5, <1>6, <1>7, <1>8, <1>9 DEF VaultNext

LEMMA VaultInvariance == VaultSpec => []VaultIInv
BY VaultInitInv, VaultInvStep, PTL DEF VaultSpec

\* Type correctness of the backup, its requests, the composer and its uploads.
THEOREM VaultTypes == VaultSpec => []VaultTypeOK
<1>1. VaultIInv => VaultTypeOK
  BY DEF VaultIInv
<1> QED BY <1>1, VaultInvariance, PTL

\* For any number of devices, requests and lost answers, index.ts:407 and :419
\* together let a version of the backup be replaced only by a device that knew
\* it, as long as the backup was not deleted nor begun twice.
THEOREM NoVersionLost == VaultSpec => []NoVersionLostUnlessReset
<1>1. VaultIInv => NoVersionLostUnlessReset
  BY DEF VaultIInv, BackupInv, Counted, NoVersionLostUnlessReset
<1> QED BY <1>1, VaultInvariance, PTL

\* For any number of files, chats, switches and failed uploads, what
\* ActiveChatPanel.tsx:238 sends is stored, and goes to the chat it was attached
\* for.
THEOREM AttachmentsReachTheirChat == VaultSpec => []SentAsAttached
<1>1. VaultIInv => SentAsAttached
  BY DEF VaultIInv, MediaInv
<1> QED BY <1>1, VaultInvariance, PTL
=============================================================================
