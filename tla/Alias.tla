-------------------------------- MODULE Alias --------------------------------
(***************************************************************************)
(* The public directory of names: AliasDO, the per-epoch counters of       *)
(* RateGateDO that set the price of its requests, the proof-of-work stamps *)
(* (pow.ts), and the log that KeyTransparencyDO keeps of what AliasDO does *)
(* (all in workers/messaging/src).                                         *)
(*                                                                         *)
(* A register, resolve or introduce request waits twice: for the counter,  *)
(* which is another object, and for the digest of its stamp.  Other        *)
(* requests, the sweep of the stamps and the clock go on meanwhile.  The   *)
(* appends to the log are requests to a third object: they are in flight   *)
(* on their own, may fail, and nothing orders two of them.                 *)
(*                                                                         *)
(* Time counts whole epochs: stamps, their expiry and the counters change  *)
(* at no other moment.                                                     *)
(***************************************************************************)
EXTENDS Integers, Sequences, FiniteSetsExt

CONSTANTS
  None,             \* a name without a row; no alarm
  Name,             \* lookup keys
  Queue,            \* intro queues, which introduce is priced by
  Owner,            \* the ownership keys, alias_pub
  Salt,             \* tells stamps of one price apart
  EPOCH_TOLERANCE,  \* an accepted stamp's epoch is at most this far from now
  REGISTER_BASE_BITS, REGISTER_ADAPTIVE_STEP,
  REGISTER_ADAPTIVE_BITS_PER_STEP, REGISTER_MAX_BITS,
  RESOLVE_BASE_BITS, RESOLVE_ADAPTIVE_STEP,
  RESOLVE_ADAPTIVE_BITS_PER_STEP, RESOLVE_MAX_BITS,
  INTRODUCE_BASE_BITS, INTRODUCE_ADAPTIVE_STEP,
  INTRODUCE_ADAPTIVE_BITS_PER_STEP, INTRODUCE_MAX_BITS,
  MaxRequests,      \* bound of the model: the requests that are ever made
  MaxEpoch          \* bound of the model: the last epoch of the clock

Kind == {"register", "resolve", "introduce"}
Resource == Name \cup Queue

Price ==
  [register  |-> [base |-> REGISTER_BASE_BITS,
                  step |-> REGISTER_ADAPTIVE_STEP,
                  per  |-> REGISTER_ADAPTIVE_BITS_PER_STEP,
                  max  |-> REGISTER_MAX_BITS],
   resolve   |-> [base |-> RESOLVE_BASE_BITS,
                  step |-> RESOLVE_ADAPTIVE_STEP,
                  per  |-> RESOLVE_ADAPTIVE_BITS_PER_STEP,
                  max  |-> RESOLVE_MAX_BITS],
   introduce |-> [base |-> INTRODUCE_BASE_BITS,
                  step |-> INTRODUCE_ADAPTIVE_STEP,
                  per  |-> INTRODUCE_ADAPTIVE_BITS_PER_STEP,
                  max  |-> INTRODUCE_MAX_BITS]]

ASSUME AliasAssumption ==
  /\ EPOCH_TOLERANCE \in Nat
  /\ MaxRequests \in Nat
  /\ MaxEpoch \in Nat
  /\ \A k \in Kind : /\ Price[k].base \in Nat
                     /\ Price[k].step \in Nat \ {0}
                     /\ Price[k].per \in Nat \ {0}
                     /\ Price[k].max \in Nat
                     /\ Price[k].base <= Price[k].max

\* The difficulties that make a difference.  A stamp's bits are those of its
\* digest, in SHA-256 equivalents (an Argon2id digest needs fewer).
Bits == UNION {Price[k].base .. Price[k].max : k \in Kind}
Stamp == [resource : Resource, epoch : Nat, salt : Salt, bits : Bits]

\* What a request spends its stamp on, and where it got to.  It waits at
\* the "gate" for the counter, carries the price as "priced" back to the
\* object, and waits for the digest as "hashing".  It is "early" if its target
\* was not reserved when it was made (history).
Purchase ==
  [no : Nat, kind : Kind, target : Resource, owner : Owner \cup {None},
   signed : BOOLEAN, early : BOOLEAN, stamp : Stamp \cup {None},
   gate : Nat, required : Nat, at : {"gate", "priced", "hashing"}]

VARIABLES
  now,         \* the current epoch
  aliases,     \* aliases[n]: the alias_pub of the row of n
  reserved,    \* reserved_namespaces
  pow_stamps,  \* the spent stamps
  alarm,       \* the time the sweep is armed for
  counters,    \* counters[e][k][r]: RateGateDO of epoch e
  requests,    \* the requests that are under way
  revokes,     \* the signed revoke requests: each may arrive any number of times
  appends,     \* the appends to the log that are in flight
  kt_entries,  \* the log
  sent,        \* history: number of requests that were made
  bought,      \* history: what the stamps bought, and when
  changes,     \* history: number of changes to aliases
  adrift       \* history: names of which an append was lost or overtaken

object == <<aliases, reserved, pow_stamps, alarm>>
log == <<appends, kt_entries, changes, adrift>>
vars == <<now, object, counters, requests, revokes, log, sent, bought>>

Init ==
  /\ now = 0
  /\ aliases = [n \in Name |-> None]
  /\ reserved = {}
  /\ pow_stamps = {}
  /\ alarm = None
  /\ counters = [e \in 0 .. MaxEpoch |->
                   [k \in Kind |-> [r \in Resource |-> 0]]]
  /\ requests = {}
  /\ revokes = {}
  /\ appends = {}
  /\ kt_entries = <<>>
  /\ sent = 0
  /\ bought = {}
  /\ changes = 0
  /\ adrift = {}

-----------------------------------------------------------------------------
(* Stamps and their price. *)

Acceptable(stamp) ==
  stamp.epoch \in now - EPOCH_TOLERANCE .. now + EPOCH_TOLERANCE

\* Mutant: evicted an epoch too early.
ExpiresEarly(stamp) == stamp.epoch + EPOCH_TOLERANCE

\* stampExpiryFromEpoch: the first epoch that does not accept the stamp.
Expiry(stamp) == stamp.epoch + EPOCH_TOLERANCE + 1

adaptiveBits(kind, count) ==
  LET p == Price[kind]
  IN  Min({p.base + ((count - 1) \div p.step) * p.per, p.max})

\* Mutant: the base price.
BaseOnFailure(kind) == Price[kind].base

\* What a request pays if RateGateDO does not answer.
BitsOnFailure(kind) == Price[kind].max

\* Mutant: reserved names are not looked up.
AnyoneAdmitted(kind, target, signed) == TRUE

\* A request arrives with its body.  A register request for a reserved name
\* needs the authority's signature over the name and the key.  The counter
\* object is picked by the epoch of this moment.  Which stamp the body holds
\* is chosen when the request first looks at it, in Verify.
Admitted(kind, target, signed) ==
  kind = "register" /\ target \in reserved => signed

Arrive(kind, target, owner, signed) ==
  /\ sent < MaxRequests
  /\ IF kind = "register" THEN owner \in Owner ELSE owner = None /\ ~signed
  /\ target \in (IF kind = "introduce" THEN Queue ELSE Name)
  /\ Admitted(kind, target, signed)
  /\ sent' = sent + 1
  /\ requests' = requests \cup
       {[no |-> sent', kind |-> kind, target |-> target, owner |-> owner,
         signed |-> signed, early |-> target \notin reserved, stamp |-> None,
         gate |-> now, required |-> 0, at |-> "gate"]}
  /\ UNCHANGED <<now, object, counters, revokes, log, bought>>

\* RateGateDO counts the attempt and answers with the count.
Count(r) ==
  /\ r.at = "gate"
  /\ LET count == counters[r.gate][r.kind][r.target] + 1
     IN  /\ counters' = [counters EXCEPT ![r.gate][r.kind][r.target] = count]
         /\ requests' = (requests \ {r}) \cup
              {[r EXCEPT !.at = "priced",
                         !.required = adaptiveBits(r.kind, count)]}
  /\ UNCHANGED <<now, object, revokes, log, sent, bought>>

\* It answers with an error.
CountFails(r) ==
  /\ r.at = "gate"
  /\ requests' = (requests \ {r}) \cup
       {[r EXCEPT !.at = "priced", !.required = BitsOnFailure(r.kind)]}
  /\ UNCHANGED <<now, object, counters, revokes, log, sent, bought>>

\* verifyPowStamp up to the digest: the stamp names this target and is fresh.
Fits(stamp, r) == stamp.resource = r.target /\ Acceptable(stamp)

Verify(r, stamp) ==
  /\ r.at = "priced"
  /\ Fits(stamp, r)
  /\ requests' = (requests \ {r}) \cup
       {[r EXCEPT !.at = "hashing", !.stamp = stamp]}
  /\ UNCHANGED <<now, object, counters, revokes, log, sent, bought>>

\* A request ends: its stamp does not fit, or the object went down under it.
Abort(r) ==
  /\ requests' = requests \ {r}
  /\ UNCHANGED <<now, object, counters, revokes, log, sent, bought>>

-----------------------------------------------------------------------------
(* After the digest: what a request does to the tables, in one go. *)

\* Mutant: the row changes and nothing is appended.
NotReported(name, pub, event) ==
  changes' = changes + 1 /\ UNCHANGED <<appends, kt_entries, adrift>>

\* An append of the log is sent, numbered by the change it reports.
Report(name, pub, event) ==
  /\ changes' = changes + 1
  /\ appends' = appends \cup
       {[no |-> changes', lookup_key |-> name, alias_pub |-> pub,
         event |-> event]}
  /\ UNCHANGED <<kt_entries, adrift>>

\* scheduleStampSweepNoLaterThan
SweepBy(time) == IF alarm = None \/ time < alarm THEN time ELSE alarm

\* Mutant: the replay set is not looked up.
AlwaysUnspent(stamp) == TRUE

\* A stamp buys one thing.
Unspent(stamp) == stamp \notin pow_stamps

\* A name that has a row is taken.
Free(name) == aliases[name] = None

\* What the second half of a request finds: too little work, a stamp that was
\* spent before, or a name that is taken, and it ends without a trace.
Rejected(r) ==
  \/ r.stamp.bits < r.required
  \/ ~Unspent(r.stamp)
  \/ r.kind = "register" /\ ~Free(r.target)

Refuse(r) ==
  /\ r.at = "hashing"
  /\ Rejected(r)
  /\ requests' = requests \ {r}
  /\ UNCHANGED <<now, object, counters, revokes, log, sent, bought>>

\* The stamp is spent: by a resolve that finds nothing as well, and by an
\* introduce before its push to the queue, which is the caller's loss if it
\* fails.
Spend(r) ==
  /\ r.at = "hashing"
  /\ ~Rejected(r)
  /\ requests' = requests \ {r}
  /\ pow_stamps' = pow_stamps \cup {r.stamp}
  /\ alarm' = SweepBy(Expiry(r.stamp))
  /\ bought' = bought \cup {[no |-> r.no, kind |-> r.kind, stamp |-> r.stamp,
                             gate |-> r.gate, late |-> ~Acceptable(r.stamp)]}
  /\ IF r.kind = "register"
     THEN /\ aliases' = [aliases EXCEPT ![r.target] = r.owner]
          /\ Report(r.target, r.owner, "register")
     ELSE UNCHANGED <<aliases, log>>
  /\ UNCHANGED <<now, reserved, counters, revokes, sent>>

\* The alarm evicts the stamps that no request can use any more.
Sweep ==
  /\ alarm # None /\ alarm <= now
  /\ pow_stamps' = {s \in pow_stamps : Expiry(s) > now}
  /\ alarm' = IF pow_stamps' = {} THEN None
              ELSE Min({Expiry(s) : s \in pow_stamps'})
  /\ UNCHANGED <<now, aliases, reserved, counters, requests, revokes, log,
                 sent, bought>>

\* An owner signs a revoke of a name.  The signed message is the name alone.
Sign(name) ==
  /\ aliases[name] # None
  /\ revokes' = revokes \cup {<<name, aliases[name]>>}
  /\ UNCHANGED <<now, object, counters, requests, log, sent, bought>>

\* A revoke arrives, and its signature is of the key in the row.
SignedByOwner(name) == <<name, aliases[name]>> \in revokes

Revoke(name) ==
  /\ aliases[name] # None
  /\ SignedByOwner(name)
  /\ aliases' = [aliases EXCEPT ![name] = None]
  /\ Report(name, None, "revoke")
  /\ UNCHANGED <<now, reserved, pow_stamps, alarm, counters, requests, revokes,
                 sent, bought>>

\* The authority reserves a name.  Requests made before it go on.
Reserve(name) ==
  /\ reserved' = reserved \cup {name}
  /\ UNCHANGED <<now, aliases, pow_stamps, alarm, counters, requests, revokes,
                 log, sent, bought>>

-----------------------------------------------------------------------------
(* KeyTransparencyDO *)

\* handleAppend: the entry goes to the end of the log.
LogAppend(a) ==
  /\ appends' = appends \ {a}
  /\ kt_entries' = Append(kt_entries, [lookup_key |-> a.lookup_key,
                            alias_pub |-> a.alias_pub, event |-> a.event])
  /\ adrift' = IF \E b \in appends : b.lookup_key = a.lookup_key /\ b.no < a.no
               THEN adrift \cup {a.lookup_key} ELSE adrift
  /\ UNCHANGED <<now, object, counters, requests, revokes, changes, sent,
                 bought>>

\* An append fails, which AliasDO writes to its console.
AppendFails(a) ==
  /\ appends' = appends \ {a}
  /\ adrift' = adrift \cup {a.lookup_key}
  /\ UNCHANGED <<now, object, counters, requests, revokes, kt_entries, changes,
                 sent, bought>>

\* handleLatest: the key that the log names for a name, if any.
Latest(name) ==
  LET of == {i \in DOMAIN kt_entries : kt_entries[i].lookup_key = name}
  IN  IF of = {} THEN None ELSE kt_entries[Max(of)].alias_pub

-----------------------------------------------------------------------------
Tick ==
  /\ now < MaxEpoch
  /\ now' = now + 1
  /\ UNCHANGED <<object, counters, requests, revokes, log, sent, bought>>

\* The stamps that can have been mined.
Mined == [resource : Resource, salt : Salt, bits : Bits,
          epoch : 0 .. MaxEpoch + EPOCH_TOLERANCE]

Next ==
  \/ \E kind \in Kind, target \in Resource, owner \in Owner \cup {None},
        signed \in BOOLEAN :
       Arrive(kind, target, owner, signed)
  \/ \E r \in requests :
       \/ Count(r) \/ CountFails(r) \/ \E stamp \in Mined : Verify(r, stamp)
       \/ Abort(r) \/ Refuse(r) \/ Spend(r)
  \/ Sweep
  \/ \E n \in Name : Sign(n) \/ Revoke(n) \/ Reserve(n)
  \/ \E a \in appends : LogAppend(a) \/ AppendFails(a)
  \/ Tick

Spec == Init /\ [][Next]_vars

-----------------------------------------------------------------------------
(* Properties *)

TypeOK ==
  /\ now \in 0 .. MaxEpoch
  /\ aliases \in [Name -> Owner \cup {None}]
  /\ reserved \subseteq Name
  /\ pow_stamps \subseteq Mined
  /\ alarm \in Nat \cup {None}
  /\ counters \in [0 .. MaxEpoch -> [Kind -> [Resource -> Nat]]]
  /\ requests \subseteq Purchase /\ IsFiniteSet(requests)
  /\ revokes \subseteq Name \X Owner
  /\ appends \subseteq [no : Nat, lookup_key : Name,
                        alias_pub : Owner \cup {None},
                        event : {"register", "revoke"}]
  /\ kt_entries \in Seq([lookup_key : Name, alias_pub : Owner \cup {None},
                         event : {"register", "revoke"}])
  /\ sent \in Nat
  /\ bought \subseteq [no : Nat, kind : Kind, stamp : Mined,
                       gate : 0 .. MaxEpoch, late : BOOLEAN]
  /\ IsFiniteSet(bought)
  /\ changes \in Nat /\ adrift \subseteq Name

\* A stamp buys one action ("each proof of work should buy exactly one
\* action", AliasDO.ts:33), of whatever kind, however many requests carry it
\* at once.  The exception is a request whose digest was still awaited when
\* the stamp's epoch ran out: the stamp may have been swept before it is
\* looked up.
OnePurchaseUnlessLate ==
  \A b, c \in bought : b.stamp = c.stamp /\ b # c => b.late \/ c.late

\* The price rises with the attempts on one target: within an epoch of the
\* counter, stamps of few bits buy only as much as their step of the scale
\* allows, also when requests overtake one another and when RateGateDO fails.
PriceRises ==
  \A k \in Kind, t \in Resource, e \in 0 .. MaxEpoch :
    \A bits \in Price[k].base .. Price[k].max - 1 :
      Cardinality({b \in bought : /\ b.kind = k /\ b.stamp.resource = t
                                  /\ b.gate = e /\ b.stamp.bits <= bits})
        <= ((bits - Price[k].base) \div Price[k].per + 1) * Price[k].step

\* A reserved name is claimed with the authority's signature (AliasDO.ts:52),
\* except by a request that was under way when the name was reserved, which
\* looked the reservation up before it waited for its price.
ReservedUnlessRaced ==
  [][\A n \in reserved :
       aliases[n] = None /\ aliases'[n] # None =>
         \E r \in requests \ requests' :
           /\ r.target = n
           /\ r.owner = aliases'[n]
           /\ r.signed \/ r.early]_vars

\* The log and the table name the same key (AliasDO.ts:144: if the log "fell
\* behind AliasDO's live table, the two would DISAGREE") whenever no append
\* of the name is under way and none was lost or overtaken by a later one.
LogAgreesUnlessRaced ==
  \A n \in Name :
    n \notin adrift /\ (\A a \in appends : a.lookup_key # n) =>
      Latest(n) = aliases[n]

=============================================================================
