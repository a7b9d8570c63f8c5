----------------------------- MODULE Membership -----------------------------
(***************************************************************************)
(* From an account to an anonymous session: the enrollment worker          *)
(* (workers/enrollment/src), MerkleTreeDO and the membership and session   *)
(* routes of the messaging worker (workers/messaging/src), and the page    *)
(* that drives them (apps/web/src/pages/AuthCallback.tsx).                 *)
(*                                                                         *)
(* A login is one run of that page.  It has an authorization code, a       *)
(* ticket, a redemption token, an identity with its commitment and a       *)
(* nullifier, all of them its own: the model calls each by the login.      *)
(* Requests of any logins are handled at the same time, and a handler that *)
(* awaits another worker, D1 or an object lets the others go on.  The      *)
(* network may deliver a request twice, lose it, or lose its answer.       *)
(***************************************************************************)
EXTENDS Integers, Sequences, FiniteSets

CONSTANTS
  None,                           \* an account without a row
  Account,                        \* the pseudonyms, ppid
  Login,                          \* bound of the model: the runs of the page
  ENROLL_QUOTA_MAX,               \* tickets an account may have
  PROOF_RATE_LIMIT_PER_EPOCH,     \* proofs per commitment, and
  SESSION_RATE_LIMIT_PER_EPOCH,   \* attempts per nullifier, in the epoch
  MaxFaults                       \* bound of the model: the requests repeated,
                                  \* the messages lost and the tickets expired

ASSUME MembershipAssumption ==
  /\ ENROLL_QUOTA_MAX \in Nat \ {0}
  /\ PROOF_RATE_LIMIT_PER_EPOCH \in Nat \ {0}
  /\ SESSION_RATE_LIMIT_PER_EPOCH \in Nat \ {0}
  /\ MaxFaults \in Nat
  /\ None \notin Int

\* The requests of a login, in the order the page makes them.
Route == <<"callback", "issue", "insert", "proof", "session">>
Step == 1 .. Len(Route)
Done == Len(Route) + 1
At(step) == Route[step]

\* A request that is being handled: what it awaits next, and what it has read.
\* One at "ok" or "no" has an answer under way to the page.
Handler ==
  [login : Login, step : Step, copy : 0 .. MaxFaults,
   at : {"arrived", "writing", "gated", "matched", "verified", "spent",
         "ok", "no"},
   read : Nat \cup {None}]

VARIABLES
  account,        \* account[l]: who logs in; None before
  step,           \* step[l]: the request the page waits for; 0 before, Done
                  \* once it has its capability
  failed,         \* the logins that show an error or were left
  root,           \* root[l]: the size of the tree that the proof was made for
  handlers,       \* the requests and answers that are under way
  codes,          \* the authorization codes that were exchanged
  enroll_count,   \* table enroll_ppid
  tickets,        \* the tickets that were minted
  expired,        \* the tickets that have expired
  spent_tickets,  \* table spent_enroll_tickets
  token_null,     \* table issuer_token_null
  commitments,    \* table commitments
  nullifiers,     \* table nullifiers
  counters,       \* RateGateDO of the epoch: proofs and sessions
  minted,         \* history: minted[l]: how many capabilities l's nullifier has
  raced,          \* history: accounts two of whose callbacks overlapped
  faults,         \* history: number of faults
  disturbed       \* history: logins that met a fault, or another's insert
                  \* between their proof and their session

enrollment == <<codes, enroll_count, tickets, expired, spent_tickets>>
tree == <<token_null, commitments, nullifiers>>
page == <<account, step, failed, root>>
history == <<minted, raced, faults, disturbed>>
vars == <<page, handlers, enrollment, tree, counters, history>>

Init ==
  /\ account = [l \in Login |-> None]
  /\ step = [l \in Login |-> 0]
  /\ failed = {}
  /\ root = [l \in Login |-> 0]
  /\ handlers = {}
  /\ codes = {} /\ tickets = {} /\ expired = {} /\ spent_tickets = {}
  /\ enroll_count = [a \in Account |-> None]
  /\ token_null = {} /\ commitments = {} /\ nullifiers = {}
  /\ counters = [k \in {"proof", "session"} |-> [l \in Login |-> 0]]
  /\ minted = [l \in Login |-> 0]
  /\ raced = {}
  /\ faults = 0
  /\ disturbed = {}

Request(l, s) ==
  [login |-> l, step |-> s, copy |-> 0, at |-> "arrived", read |-> None]

Waiting(l) == step[l] \in Step /\ l \notin failed

\* Handler h goes on to await at, having read a value or not.  An answer that
\* nothing waits for any more is dropped at once.
GoesWith(h, at, value) ==
  handlers' = (handlers \ {h}) \cup
                IF \/ at \notin {"ok", "no"}
                   \/ Waiting(h.login) /\ step[h.login] = h.step
                THEN {[login |-> h.login, step |-> h.step, copy |-> h.copy,
                       at |-> at, read |-> value]} ELSE {}
Goes(h, at) == GoesWith(h, at, h.read)

Answers(l) == {h \in handlers : h.login = l /\ h.at \in {"ok", "no"}}

Fault(l) ==
  /\ faults < MaxFaults
  /\ faults' = faults + 1
  /\ disturbed' = disturbed \cup {l}

Handling(h, s, at) == At(h.step) = s /\ h.at = at

-----------------------------------------------------------------------------
(* The enrollment worker *)

\* Mutant: one more.
OverQuotaLate(a) == enroll_count[a] # None /\ enroll_count[a] > ENROLL_QUOTA_MAX

OverQuota(a) == enroll_count[a] # None /\ enroll_count[a] >= ENROLL_QUOTA_MAX

\* /oauth/callback exchanges the code, which is good for one exchange, and
\* looks up how many tickets the account has had.
CallbackReads(h) ==
  /\ Handling(h, "callback", "arrived")
  /\ LET a == account[h.login]
     IN  IF h.login \in codes
         THEN Goes(h, "no") /\ UNCHANGED <<codes, raced>>
         ELSE /\ codes' = codes \cup {h.login}
              /\ IF OverQuota(a)
                 THEN Goes(h, "no") /\ UNCHANGED raced
                 ELSE /\ GoesWith(h, "writing", enroll_count[a])
                      /\ raced' = raced \cup
                           {account[g.login] : g \in {f \in handlers :
                              /\ Handling(f, "callback", "writing")
                              /\ account[f.login] = a}}
  /\ UNCHANGED <<page, enroll_count, tickets, expired, spent_tickets, tree,
                 counters, minted, faults, disturbed>>

\* The row is inserted, unless there is one by now, or its count goes up by one.
Counted(a, read) == IF read = None THEN 1 ELSE enroll_count[a] + 1

\* Then the ticket is minted.
CallbackWrites(h) ==
  /\ Handling(h, "callback", "writing")
  /\ LET a == account[h.login]
     IN  IF h.read = None /\ enroll_count[a] # None
         THEN Goes(h, "no") /\ UNCHANGED <<enroll_count, tickets>>
         ELSE /\ enroll_count' = [enroll_count EXCEPT ![a] = Counted(a, h.read)]
              /\ tickets' = tickets \cup {h.login}
              /\ Goes(h, "ok")
  /\ UNCHANGED <<page, codes, expired, spent_tickets, tree, counters, history>>

\* Ten minutes pass since the ticket was minted.  (A ticket that expires after
\* it is spent makes no difference.)
Expire(l) ==
  /\ l \in tickets \ expired
  /\ l \notin spent_tickets
  /\ expired' = expired \cup {l}
  /\ Fault(l)
  /\ UNCHANGED <<page, handlers, codes, enroll_count, tickets, spent_tickets,
                 tree, counters, minted, raced>>

\* /token/issue spends the ticket, by inserting it where it must be unique, and
\* signs.
Issue(h) ==
  /\ Handling(h, "issue", "arrived")
  /\ IF h.login \in tickets \ (expired \cup spent_tickets)
     THEN spent_tickets' = spent_tickets \cup {h.login} /\ Goes(h, "ok")
     ELSE UNCHANGED spent_tickets /\ Goes(h, "no")
  /\ UNCHANGED <<page, codes, enroll_count, tickets, expired, tree, counters,
                 history>>

-----------------------------------------------------------------------------
(* The messaging worker *)

\* RateGateDO counts a request and allows the first of them.
Count(kind, l) == counters' = [counters EXCEPT ![kind][l] = @ + 1]

\* Mutant: one too few.
AllowedLess(kind, l, limit) == counters[kind][l] + 1 < limit

Allowed(kind, l, limit) == counters[kind][l] < limit

Size == Cardinality(commitments)

\* The logins that are between their proof and their session.
Proving ==
  {l \in Login : \/ step[l] = Len(Route)
                \/ \E h \in handlers : /\ h.login = l
                                       /\ Handling(h, "proof", "ok")}

\* /membership/insert: MerkleTreeDO spends the token and adds the leaf.
Insert(h) ==
  /\ Handling(h, "insert", "arrived")
  /\ IF h.login \in token_null
     THEN Goes(h, "no") /\ UNCHANGED <<token_null, commitments, disturbed>>
     ELSE /\ token_null' = token_null \cup {h.login}
          /\ commitments' = commitments \cup {h.login}
          /\ disturbed' = disturbed \cup Proving
          /\ Goes(h, "ok")
  /\ UNCHANGED <<page, enrollment, nullifiers, counters, minted,
                 raced, faults>>

\* /membership/proof counts the request, then reads the tree.
ProofGate(h) ==
  /\ Handling(h, "proof", "arrived")
  /\ Count("proof", h.login)
  /\ Goes(h, IF Allowed("proof", h.login, PROOF_RATE_LIMIT_PER_EPOCH)
             THEN "gated" ELSE "no")
  /\ UNCHANGED <<page, enrollment, tree, history>>

ProofRead(h) ==
  /\ Handling(h, "proof", "gated")
  /\ IF h.login \in commitments THEN GoesWith(h, "ok", Size) ELSE Goes(h, "no")
  /\ UNCHANGED <<page, enrollment, tree, counters, history>>

\* /auth/session compares the root of the proof with the tree's,
SessionRoot(h) ==
  /\ Handling(h, "session", "arrived")
  /\ Goes(h, IF root[h.login] = Size THEN "matched" ELSE "no")
  /\ UNCHANGED <<page, enrollment, tree, counters, history>>

\* counts the request, and verifies the proof,
SessionGate(h) ==
  /\ Handling(h, "session", "matched")
  /\ Count("session", h.login)
  /\ Goes(h, IF Allowed("session", h.login, SESSION_RATE_LIMIT_PER_EPOCH)
             THEN "verified" ELSE "no")
  /\ UNCHANGED <<page, enrollment, tree, history>>

\* Mutant: an answer of MerkleTreeDO that is not a success goes unnoticed.
SpendIgnored(l) == TRUE

Fresh(l) == l \notin nullifiers

\* spends the nullifier,
Spend(h) ==
  /\ Handling(h, "session", "verified")
  /\ nullifiers' = nullifiers \cup {h.login}
  /\ Goes(h, IF Fresh(h.login) THEN "spent" ELSE "no")
  /\ UNCHANGED <<page, enrollment, token_null, commitments, counters, history>>

\* and mints a capability.
Mint(h) ==
  /\ Handling(h, "session", "spent")
  /\ minted' = [minted EXCEPT ![h.login] = @ + 1]
  /\ Goes(h, "ok")
  /\ UNCHANGED <<page, enrollment, tree, counters, raced, faults,
                 disturbed>>

-----------------------------------------------------------------------------
(* The page *)

\* The effect of the page starts with the code it was redirected with.
Begin(l, a) ==
  /\ step[l] = 0
  /\ account' = [account EXCEPT ![l] = a]
  /\ step' = [step EXCEPT ![l] = 1]
  /\ handlers' = handlers \cup {Request(l, 1)}
  /\ UNCHANGED <<failed, root, enrollment, tree, counters, history>>

\* The answer that the page waits for: it makes the next request, or shows the
\* error.
Receive(h) ==
  /\ h.at \in {"ok", "no"}
  /\ step[h.login] = h.step /\ Waiting(h.login)
  /\ IF h.at = "no"
     THEN /\ failed' = failed \cup {h.login}
          /\ handlers' = handlers \ Answers(h.login)
          /\ UNCHANGED <<step, root>>
     ELSE /\ step' = [step EXCEPT ![h.login] = @ + 1]
          /\ root' = IF At(h.step) = "proof"
                     THEN [root EXCEPT ![h.login] = h.read] ELSE root
          /\ handlers' = (handlers \ Answers(h.login)) \cup
                         {Request(h.login, s) : s \in {h.step + 1} \cap Step}
          /\ UNCHANGED failed
  /\ UNCHANGED <<account, enrollment, tree, counters, history>>

-----------------------------------------------------------------------------
(* The network *)

\* A request is delivered once more.
Copy(h) ==
  /\ h.at = "arrived"
  /\ handlers' = handlers \cup
       {[login |-> h.login, step |-> h.step, copy |-> faults + 1,
         at |-> "arrived", read |-> h.read]}
  /\ Fault(h.login)
  /\ UNCHANGED <<page, enrollment, tree, counters, minted, raced>>

\* A request, its handler, or its answer is lost, or the page was left before
\* the answer came.  A page with no other hope fails for good: a reloaded page
\* does not have the verifier of its code.
Lose(h) ==
  /\ handlers' = handlers \ {h}
  /\ Fault(h.login)
  /\ failed' = IF /\ Waiting(h.login) /\ step[h.login] = h.step
                  /\ ~ \E g \in handlers \ {h} : /\ g.login = h.login
                                                 /\ g.step = h.step
               THEN failed \cup {h.login} ELSE failed
  /\ UNCHANGED <<account, step, root, enrollment, tree, counters, minted,
                 raced>>

Next ==
  \/ \E l \in Login : \/ \E a \in Account : Begin(l, a)
                      \/ Expire(l)
  \/ \E h \in handlers :
       \/ CallbackReads(h) \/ CallbackWrites(h) \/ Issue(h)
       \/ Insert(h) \/ ProofGate(h) \/ ProofRead(h)
       \/ SessionRoot(h) \/ SessionGate(h) \/ Spend(h) \/ Mint(h)
       \/ Receive(h) \/ Copy(h) \/ Lose(h)

Spec == Init /\ [][Next]_vars

-----------------------------------------------------------------------------
(* Properties *)

TypeOK ==
  /\ account \in [Login -> Account \cup {None}]
  /\ step \in [Login -> 0 .. Done]
  /\ failed \subseteq Login
  /\ root \in [Login -> Nat]
  /\ handlers \subseteq Handler
  /\ codes \subseteq Login /\ tickets \subseteq Login
  /\ expired \subseteq Login /\ spent_tickets \subseteq Login
  /\ enroll_count \in [Account -> Nat \cup {None}]
  /\ token_null \subseteq Login
  /\ commitments \subseteq Login /\ IsFiniteSet(commitments)
  /\ nullifiers \subseteq Login
  /\ counters \in [{"proof", "session"} -> [Login -> Nat]]
  /\ minted \in [Login -> Nat]
  /\ raced \subseteq Account \cup {None} /\ disturbed \subseteq Login
  /\ faults \in 0 .. MaxFaults

Of(a, S) == {l \in S : account[l] = a}

\* "A genuine lifetime cap on anonymous personas per account": an account has
\* no more tickets than its quota.  The callback reads the count and writes it
\* in two statements, so this holds for an account whose callbacks did not
\* overlap.
QuotaUnlessRaced ==
  \A a \in Account \ raced : Cardinality(Of(a, tickets)) <= ENROLL_QUOTA_MAX

\* Every capability goes back to a ticket of its own, and every ticket was
\* counted, whatever was repeated, lost or overlapped: the ticket, the
\* redemption token and the nullifier are each good for one use.
SessionsBacked ==
  /\ \A l \in Login : minted[l] <= 1
  /\ \A a \in Account :
       LET sessions == {l \in Login : minted[l] > 0}
       IN  /\ Of(a, sessions) \subseteq
                tickets \cap spent_tickets \cap token_null \cap nullifiers
           /\ Cardinality(Of(a, tickets)) <=
                (IF enroll_count[a] = None THEN 0 ELSE enroll_count[a])

\* A login fails for a reason: something was lost or repeated, the page was
\* left, the ticket expired, another member joined between the proof and the
\* session, or the account's callbacks overlapped or used up the quota.
FailsForAReason ==
  \A l \in failed : \/ l \in disturbed
                    \/ account[l] \in raced
                    \/ LET n == enroll_count[account[l]]
                       IN  n # None /\ n >= ENROLL_QUOTA_MAX

=============================================================================
