-------------------------- MODULE MembershipProofs --------------------------
(***************************************************************************)
(* The properties of Membership, for any number of accounts and logins,    *)
(* any limits and any number of faults.                                    *)
(***************************************************************************)
EXTENDS Membership, TLAPS, FiniteSetTheorems

\* What a login has behind it: each of its requests had an answer before the
\* next was made; and what it has not done yet.
Passed(l, s) ==
  /\ s > 1 => l \in tickets
  /\ s > 2 => l \in spent_tickets
  /\ s > 3 => l \in token_null /\ l \in commitments
Before(l, s) ==
  /\ s < 1 => l \notin codes /\ l \notin tickets
  /\ s < 2 => l \notin spent_tickets
  /\ s < 3 => l \notin token_null
  /\ s < 4 => counters["proof"][l] = 0
  /\ s < 5 => counters["session"][l] = 0 /\ l \notin nullifiers

\* Which requests wait where.
Places ==
  \A h \in handlers :
    /\ h.at = "writing" => h.step = 1
    /\ h.at = "gated" => h.step = 4
    /\ h.at \in {"matched", "verified", "spent"} => h.step = 5
    /\ h.step = 4 /\ h.at = "ok" => h.read \in Nat
Begun ==
  /\ \A l \in Login : step[l] > 0 => account[l] \in Account
  /\ \A l \in failed : step[l] > 0
Progress ==
  /\ \A l \in Login : Passed(l, step[l]) /\ Before(l, step[l])
  /\ \A h \in handlers : h.step <= step[h.login]
  /\ \A h \in handlers : h.at = "ok" => Passed(h.login, h.step + 1)

\* A nullifier is spent before a capability is minted, by one request.
Spending ==
  /\ \A l \in Login \ nullifiers : minted[l] = 0
  /\ \A h \in handlers : h.at = "spent" =>
       h.login \in nullifiers /\ minted[h.login] = 0
  /\ \A g, h \in handlers :
       g.at = "spent" /\ h.at = "spent" /\ g.login = h.login => g = h
  /\ \A l \in Login : minted[l] <= 1
  /\ \A l \in Login : minted[l] > 0 => Passed(l, 4) /\ l \in nullifiers

\* Every ticket was counted.
Total(a) == IF enroll_count[a] = None THEN 0 ELSE enroll_count[a]
Counting ==
  /\ \A a \in Account :
       IsFiniteSet(Of(a, tickets)) /\ Cardinality(Of(a, tickets)) <= Total(a)
  /\ \A h \in handlers : h.at = "writing" =>
       h.read = None \/ enroll_count[account[h.login]] # None

\* A callback that is alone between its two statements writes what it read.
Writing(h, a) == h.at = "writing" /\ account[h.login] = a
Alone ==
  \A a \in Account \ raced :
    /\ \A g, h \in handlers : Writing(g, a) /\ Writing(h, a) => g = h
    /\ \A h \in handlers : Writing(h, a) =>
         h.read = enroll_count[a] /\ ~OverQuota(a)
    /\ Total(a) <= ENROLL_QUOTA_MAX

\* What FailsForAReason lets a login fail for.
Excused(l) ==
  \/ l \in disturbed
  \/ account[l] \in raced
  \/ LET n == enroll_count[account[l]]
     IN  n # None /\ n >= ENROLL_QUOTA_MAX
Reasons ==
  /\ \A h \in handlers : h.at = "no" => Excused(h.login)
  /\ \A l \in failed : Excused(l)
  /\ expired \subseteq disturbed

\* A login that met no fault has one request at a time, which finds what the
\* steps before have left.
Smooth ==
  /\ \A g, h \in handlers : g.login = h.login => g = h \/ h.login \in disturbed
  /\ \A h \in handlers : h.login \notin disturbed =>
       /\ h.step = step[h.login]
       /\ h.at = "arrived" => Before(h.login, h.step - 1)
       /\ h.at = "matched" =>
            counters["session"][h.login] = 0 /\ h.login \notin nullifiers
       /\ h.at = "verified" => h.login \notin nullifiers
Current ==
  /\ \A h \in handlers : h.step = 4 /\ h.at = "ok" =>
       h.login \in disturbed \/ h.read = Size
  /\ \A l \in Login : step[l] = 5 => l \in disturbed \/ root[l] = Size

IInv ==
  /\ TypeOK /\ Places /\ Begun /\ Progress /\ Spending /\ Counting /\ Alone
  /\ Reasons /\ Smooth /\ Current

-----------------------------------------------------------------------------
(* Requests *)

Stage == {"arrived", "writing", "gated", "matched", "verified", "spent", "ok",
          "no"}

LEMMA Routes ==
  /\ Len(Route) = 5 /\ Step = 1 .. 5 /\ Done = 6
  /\ At(1) = "callback" /\ At(2) = "issue" /\ At(3) = "insert"
  /\ At(4) = "proof" /\ At(5) = "session"
BY DEF Route, Step, Done, At

\* The route tells the steps apart.
LEMMA Steps ==
  ASSUME NEW s \in Step
  PROVE  /\ s \in 1 .. 5
         /\ (At(s) = "callback") <=> (s = 1)
         /\ (At(s) = "issue") <=> (s = 2)
         /\ (At(s) = "insert") <=> (s = 3)
         /\ (At(s) = "proof") <=> (s = 4)
         /\ (At(s) = "session") <=> (s = 5)
<1>1. s \in 1 .. 5
  BY Routes
<1>2. s = 1 \/ s = 2 \/ s = 3 \/ s = 4 \/ s = 5
  BY <1>1
<1> QED BY <1>1, <1>2, Routes

LEMMA HandlerFacts ==
  ASSUME NEW h \in Handler
  PROVE  /\ h.login \in Login /\ h.step \in 1 .. 5 /\ h.at \in Stage
         /\ h.copy \in 0 .. MaxFaults /\ h.read \in Nat \cup {None}
BY Routes DEF Handler, Stage

\* What a handler that is handling a request is.
LEMMA AtStep ==
  ASSUME TypeOK, NEW h \in handlers
  PROVE  /\ h \in Handler /\ h.login \in Login /\ h.step \in 1 .. 5
         /\ (At(h.step) = "callback") <=> (h.step = 1)
         /\ (At(h.step) = "issue") <=> (h.step = 2)
         /\ (At(h.step) = "insert") <=> (h.step = 3)
         /\ (At(h.step) = "proof") <=> (h.step = 4)
         /\ (At(h.step) = "session") <=> (h.step = 5)
<1>1. h \in Handler
  BY DEF TypeOK
<1>2. h.login \in Login /\ h.step \in Step
  BY <1>1 DEF Handler
<1> QED BY <1>1, <1>2, Steps

\* What a handler that goes on leaves.
LEMMA GoesFacts ==
  ASSUME TypeOK, NEW h \in handlers, NEW at \in Stage,
         NEW value \in Nat \cup {None}, GoesWith(h, at, value)
  PROVE  \E new \in Handler :
           /\ new.login = h.login /\ new.step = h.step
           /\ new.at = at /\ new.read = value
           /\ \A g \in handlers' : g = new \/ (g \in handlers /\ g # h)
<1> DEFINE new == [login |-> h.login, step |-> h.step, copy |-> h.copy,
                   at |-> at, read |-> value]
<1>1. new \in Handler /\ new.login = h.login /\ new.step = h.step
      /\ new.at = at /\ new.read = value
  BY DEF TypeOK, Handler, Stage
<1>2. handlers' = (handlers \ {h}) \cup {new} \/ handlers' = handlers \ {h}
  BY DEF GoesWith
<1> HIDE DEF new
<1>3. \A g \in handlers' : g = new \/ (g \in handlers /\ g # h)
  BY <1>2
<1> QED BY <1>1, <1>3

\* A reason stays one.
LEMMA ExcusedKept ==
  ASSUME IInv, NEW l \in Login, Excused(l), account'[l] = account[l],
         disturbed \subseteq disturbed', raced \subseteq raced',
         \/ enroll_count'[account[l]] = enroll_count[account[l]]
         \/ /\ enroll_count'[account[l]] \in Nat
            /\ enroll_count[account[l]] # None =>
                 /\ enroll_count[account[l]] \in Nat
                 /\ enroll_count'[account[l]] >= enroll_count[account[l]]
  PROVE  Excused(l)'
BY MembershipAssumption DEF Excused

LEMMA ProofReadStep ==
  ASSUME IInv, NEW h \in handlers, ProofRead(h)
  PROVE  IInv'
<1> DEFINE place == IF h.login \in commitments THEN "ok" ELSE "no"
           value == IF h.login \in commitments THEN Size ELSE h.read
<1>1. h \in Handler /\ h.login \in Login /\ h.step = 4 /\ h.at = "gated"
  BY AtStep DEF IInv, ProofRead, Handling
<1>2. UNCHANGED <<account, step, failed, root, codes, enroll_count, tickets,
                  expired, spent_tickets, token_null, commitments, nullifiers,
                  counters, minted, raced, faults, disturbed>>
  BY DEF ProofRead, enrollment, tree, page, history
<1>3. Size \in Nat
  BY FS_CardinalityType DEF IInv, TypeOK, Size
<1>4. place \in Stage /\ value \in Nat \cup {None} /\ GoesWith(h, place, value)
  <2>1. h.read \in Nat \cup {None}
    BY <1>1, HandlerFacts
  <2>2. place \in Stage /\ value \in Nat \cup {None}
    BY <1>3, <2>1 DEF Stage
  <2>3. CASE h.login \in commitments
    BY <2>2, <2>3 DEF ProofRead
  <2>4. CASE h.login \notin commitments
    BY <2>2, <2>4 DEF ProofRead, Goes
  <2> QED BY <2>3, <2>4
<1> HIDE DEF place, value
<1>5. PICK new \in Handler :
        /\ new.login = h.login /\ new.step = h.step
        /\ new.at = place /\ new.read = value
        /\ \A g \in handlers' : g = new \/ (g \in handlers /\ g # h)
  BY <1>4, GoesFacts DEF IInv
<1>6. place = "no" => Excused(h.login)
  <2>1. step[h.login] \in 0 .. 6 /\ step[h.login] > 3
    BY <1>1, Routes DEF IInv, TypeOK, Progress
  <2>2. h.login \in commitments
    BY <1>1, <2>1 DEF IInv, Progress, Passed
  <2> QED BY <2>2 DEF place
<1>7. TypeOK'
  BY <1>1, <1>2, <1>3, <1>4, <1>5, HandlerFacts DEF place, IInv, TypeOK
<1>8. Places'
  <2>1. place = "ok" => value \in Nat
    BY <1>3 DEF place, value
  <2> QED BY <1>1, <1>5, <2>1 DEF place, IInv, Places
<1>9. Begun'
  BY <1>1, <1>2, <1>3, <1>4, <1>5, HandlerFacts DEF place, IInv, Begun, TypeOK
<1>10. Progress'
  BY <1>1, <1>2, <1>3, <1>4, <1>5, HandlerFacts DEF place, IInv, Before,
         Passed, Progress, TypeOK
<1>11. Spending'
  BY <1>1, <1>2, <1>3, <1>4, <1>5, HandlerFacts DEF place, IInv, Passed,
         Spending, TypeOK
<1>12. Counting'
  BY <1>1, <1>2, <1>3, <1>4, <1>5, HandlerFacts DEF place, IInv, Counting, Of,
         Total, TypeOK
<1>13. Alone'
  BY <1>1, <1>2, <1>3, <1>4, <1>5, HandlerFacts DEF place, IInv, Alone,
         OverQuota, Total, TypeOK, Writing
<1>14. Reasons'
  <2>1. ASSUME NEW l \in Login, Excused(l) PROVE Excused(l)'
    BY <1>1, <1>2, <1>3, <1>4, <1>5, <2>1, ExcusedKept
  <2> QED
    BY <1>1, <1>2, <1>3, <1>4, <1>5, <1>6, <2>1, HandlerFacts
       DEF IInv, Reasons, TypeOK
<1>15. Smooth'
  BY <1>1, <1>2, <1>3, <1>4, <1>5, HandlerFacts DEF place, IInv, Before,
         Smooth, TypeOK
<1>16. Current'
  <2>1. Size' = Size /\ (place = "ok" => value = Size)
    BY <1>2 DEF place, value, Size
  <2> QED
    BY <1>1, <1>2, <1>5, <2>1, HandlerFacts DEF IInv, Current, TypeOK
<1> QED
  BY <1>7, <1>8, <1>9, <1>10, <1>11, <1>12, <1>13, <1>14, <1>15, <1>16 DEF IInv

LEMMA SessionRootStep ==
  ASSUME IInv, NEW h \in handlers, SessionRoot(h)
  PROVE  IInv'
<1> DEFINE place == IF root[h.login] = Size THEN "matched" ELSE "no"
<1>1. h \in Handler /\ h.login \in Login /\ h.step = 5 /\ h.at = "arrived"
  BY AtStep DEF IInv, SessionRoot, Handling
<1>2. UNCHANGED <<account, step, failed, root, codes, enroll_count, tickets,
                  expired, spent_tickets, token_null, commitments, nullifiers,
                  counters, minted, raced, faults, disturbed>>
  BY DEF SessionRoot, enrollment, tree, page, history
<1>3. place \in Stage /\ h.read \in Nat \cup {None}
      /\ GoesWith(h, place, h.read)
  BY <1>1 DEF IInv, TypeOK, Goes, Stage, Handler, SessionRoot
<1> HIDE DEF place
<1>4. PICK new \in Handler :
        /\ new.login = h.login /\ new.step = h.step
        /\ new.at = place /\ new.read = h.read
        /\ \A g \in handlers' : g = new \/ (g \in handlers /\ g # h)
  BY <1>3, GoesFacts DEF IInv
<1>5. place = "no" => Excused(h.login)
  BY <1>1, <1>2, <1>3 DEF place, IInv, Smooth, Current, Excused
<1>6. TypeOK'
  BY <1>1, <1>2, <1>3, <1>4, HandlerFacts DEF place, IInv, TypeOK
<1>7. Places'
  BY <1>1, <1>2, <1>3, <1>4, HandlerFacts DEF place, IInv, Places, TypeOK
<1>8. Begun'
  BY <1>1, <1>2, <1>3, <1>4, HandlerFacts DEF place, IInv, Begun, TypeOK
<1>9. Progress'
  BY <1>1, <1>2, <1>3, <1>4, HandlerFacts DEF place, IInv, Before, Passed,
         Progress, TypeOK
<1>10. Spending'
  BY <1>1, <1>2, <1>3, <1>4, HandlerFacts DEF place, IInv, Passed, Spending,
         TypeOK
<1>11. Counting'
  BY <1>1, <1>2, <1>3, <1>4, HandlerFacts DEF place, IInv, Counting, Of, Total,
         TypeOK
<1>12. Alone'
  BY <1>1, <1>2, <1>3, <1>4, HandlerFacts DEF place, IInv, Alone, OverQuota,
         Total, TypeOK, Writing
<1>13. Reasons'
  <2>1. ASSUME NEW l \in Login, Excused(l) PROVE Excused(l)'
    BY <1>1, <1>2, <1>3, <1>4, <2>1, ExcusedKept
  <2> QED
    BY <1>1, <1>2, <1>3, <1>4, <1>5, <2>1, HandlerFacts
       DEF IInv, Reasons, TypeOK
<1>14. Smooth'
  BY <1>1, <1>2, <1>3, <1>4, HandlerFacts DEF place, IInv, Before, Smooth,
         TypeOK
<1>15. Current'
  BY <1>1, <1>2, <1>3, <1>4, HandlerFacts DEF place, IInv, Current, Size,
         TypeOK
<1> QED
  BY <1>6, <1>7, <1>8, <1>9, <1>10, <1>11, <1>12, <1>13, <1>14, <1>15 DEF IInv

LEMMA ProofGateStep ==
  ASSUME IInv, NEW h \in handlers, ProofGate(h)
  PROVE  IInv'
<1> DEFINE place ==
             IF Allowed("proof", h.login, PROOF_RATE_LIMIT_PER_EPOCH)
             THEN "gated" ELSE "no"
<1>1. h \in Handler /\ h.login \in Login /\ h.step = 4 /\ h.at = "arrived"
  BY AtStep DEF IInv, ProofGate, Handling
<1>2. UNCHANGED <<account, step, failed, root, codes, enroll_count, tickets,
                  expired, spent_tickets, token_null, commitments, nullifiers,
                  minted, raced, faults, disturbed>>
  BY DEF ProofGate, enrollment, tree, page, history
<1>3. counters' = [counters EXCEPT !["proof"][h.login] = @ + 1]
  BY DEF ProofGate, Count
<1>4. place \in Stage /\ h.read \in Nat \cup {None}
      /\ GoesWith(h, place, h.read)
  BY <1>1 DEF IInv, TypeOK, Goes, Stage, Handler, ProofGate
<1> HIDE DEF place
<1>5. PICK new \in Handler :
        /\ new.login = h.login /\ new.step = h.step
        /\ new.at = place /\ new.read = h.read
        /\ \A g \in handlers' : g = new \/ (g \in handlers /\ g # h)
  BY <1>4, GoesFacts DEF IInv
<1>6. place = "no" => Excused(h.login)
  BY <1>1, <1>2, <1>3, <1>4, MembershipAssumption DEF place, Allowed, IInv,
         TypeOK, Smooth, Before, Excused
<1>7. TypeOK'
  BY <1>1, <1>2, <1>3, <1>4, <1>5, HandlerFacts DEF place, IInv, TypeOK
<1>8. Places'
  BY <1>1, <1>2, <1>3, <1>4, <1>5, HandlerFacts DEF place, IInv, Places, TypeOK
<1>9. Begun'
  BY <1>1, <1>2, <1>3, <1>4, <1>5, HandlerFacts DEF place, IInv, Begun, TypeOK
<1>10. Progress'
  BY <1>1, <1>2, <1>3, <1>4, <1>5, HandlerFacts DEF place, IInv, Before,
         Passed, Progress, TypeOK
<1>11. Spending'
  BY <1>1, <1>2, <1>3, <1>4, <1>5, HandlerFacts DEF place, IInv, Passed,
         Spending, TypeOK
<1>12. Counting'
  BY <1>1, <1>2, <1>3, <1>4, <1>5, HandlerFacts DEF place, IInv, Counting, Of,
         Total, TypeOK
<1>13. Alone'
  BY <1>1, <1>2, <1>3, <1>4, <1>5, HandlerFacts DEF place, IInv, Alone,
         OverQuota, Total, TypeOK, Writing
<1>14. Reasons'
  <2>1. ASSUME NEW l \in Login, Excused(l) PROVE Excused(l)'
    BY <1>1, <1>2, <1>3, <1>4, <1>5, <2>1, ExcusedKept
  <2> QED
    BY <1>1, <1>2, <1>3, <1>4, <1>5, <1>6, <2>1, HandlerFacts
       DEF IInv, Reasons, TypeOK
<1>15. Smooth'
  BY <1>1, <1>2, <1>3, <1>4, <1>5, HandlerFacts DEF place, IInv, Before,
         Smooth, TypeOK
<1>16. Current'
  BY <1>1, <1>2, <1>3, <1>4, <1>5, HandlerFacts DEF place, IInv, Current, Size,
         TypeOK
<1> QED
  BY <1>7, <1>8, <1>9, <1>10, <1>11, <1>12, <1>13, <1>14, <1>15, <1>16 DEF IInv

LEMMA SessionGateStep ==
  ASSUME IInv, NEW h \in handlers, SessionGate(h)
  PROVE  IInv'
<1> DEFINE place ==
             IF Allowed("session", h.login, SESSION_RATE_LIMIT_PER_EPOCH)
             THEN "verified" ELSE "no"
<1>1. h \in Handler /\ h.login \in Login /\ h.step = 5 /\ h.at = "matched"
  BY AtStep DEF IInv, SessionGate, Handling
<1>2. UNCHANGED <<account, step, failed, root, codes, enroll_count, tickets,
                  expired, spent_tickets, token_null, commitments, nullifiers,
                  minted, raced, faults, disturbed>>
  BY DEF SessionGate, enrollment, tree, page, history
<1>3. counters' = [counters EXCEPT !["session"][h.login] = @ + 1]
  BY DEF SessionGate, Count
<1>4. place \in Stage /\ h.read \in Nat \cup {None}
      /\ GoesWith(h, place, h.read)
  BY <1>1 DEF IInv, TypeOK, Goes, Stage, Handler, SessionGate
<1> HIDE DEF place
<1>5. PICK new \in Handler :
        /\ new.login = h.login /\ new.step = h.step
        /\ new.at = place /\ new.read = h.read
        /\ \A g \in handlers' : g = new \/ (g \in handlers /\ g # h)
  BY <1>4, GoesFacts DEF IInv
<1>6. place = "no" => Excused(h.login)
  BY <1>1, <1>2, <1>3, <1>4, MembershipAssumption DEF place, Allowed, IInv,
         TypeOK, Smooth, Before, Excused
<1>7. TypeOK'
  BY <1>1, <1>2, <1>3, <1>4, <1>5, HandlerFacts DEF place, IInv, TypeOK
<1>8. Places'
  BY <1>1, <1>2, <1>3, <1>4, <1>5, HandlerFacts DEF place, IInv, Places, TypeOK
<1>9. Begun'
  BY <1>1, <1>2, <1>3, <1>4, <1>5, HandlerFacts DEF place, IInv, Begun, TypeOK
<1>10. Progress'
  BY <1>1, <1>2, <1>3, <1>4, <1>5, HandlerFacts DEF place, IInv, Before,
         Passed, Progress, TypeOK
<1>11. Spending'
  BY <1>1, <1>2, <1>3, <1>4, <1>5, HandlerFacts DEF place, IInv, Passed,
         Spending, TypeOK
<1>12. Counting'
  BY <1>1, <1>2, <1>3, <1>4, <1>5, HandlerFacts DEF place, IInv, Counting, Of,
         Total, TypeOK
<1>13. Alone'
  BY <1>1, <1>2, <1>3, <1>4, <1>5, HandlerFacts DEF place, IInv, Alone,
         OverQuota, Total, TypeOK, Writing
<1>14. Reasons'
  <2>1. ASSUME NEW l \in Login, Excused(l) PROVE Excused(l)'
    BY <1>1, <1>2, <1>3, <1>4, <1>5, <2>1, ExcusedKept
  <2> QED
    BY <1>1, <1>2, <1>3, <1>4, <1>5, <1>6, <2>1, HandlerFacts
       DEF IInv, Reasons, TypeOK
<1>15. Smooth'
  BY <1>1, <1>2, <1>3, <1>4, <1>5, HandlerFacts DEF place, IInv, Before,
         Smooth, TypeOK
<1>16. Current'
  BY <1>1, <1>2, <1>3, <1>4, <1>5, HandlerFacts DEF place, IInv, Current, Size,
         TypeOK
<1> QED
  BY <1>7, <1>8, <1>9, <1>10, <1>11, <1>12, <1>13, <1>14, <1>15, <1>16 DEF IInv

LEMMA SpendStep ==
  ASSUME IInv, NEW h \in handlers, Spend(h)
  PROVE  IInv'
<1> DEFINE place == IF Fresh(h.login) THEN "spent" ELSE "no"
<1>1. h \in Handler /\ h.login \in Login /\ h.step = 5 /\ h.at = "verified"
  BY AtStep DEF IInv, Spend, Handling
<1>2. UNCHANGED <<account, step, failed, root, codes, enroll_count, tickets,
                  expired, spent_tickets, token_null, commitments, counters,
                  minted, raced, faults, disturbed>>
  BY DEF Spend, enrollment, tree, page, history
<1>3. nullifiers' = nullifiers \cup {h.login}
  BY DEF Spend
<1>4. place \in Stage /\ h.read \in Nat \cup {None}
      /\ GoesWith(h, place, h.read)
  BY <1>1 DEF IInv, TypeOK, Goes, Stage, Handler, Spend
<1> HIDE DEF place
<1>5. PICK new \in Handler :
        /\ new.login = h.login /\ new.step = h.step
        /\ new.at = place /\ new.read = h.read
        /\ \A g \in handlers' : g = new \/ (g \in handlers /\ g # h)
  BY <1>4, GoesFacts DEF IInv
<1>6. place = "no" => Excused(h.login)
  BY <1>1, <1>2, <1>3, <1>4 DEF place, Fresh, IInv, Smooth, Excused
<1>7. TypeOK'
  BY <1>1, <1>2, <1>3, <1>4, <1>5, HandlerFacts DEF place, IInv, TypeOK
<1>8. Places'
  BY <1>1, <1>2, <1>3, <1>4, <1>5, HandlerFacts DEF place, IInv, Places, TypeOK
<1>9. Begun'
  BY <1>1, <1>2, <1>3, <1>4, <1>5, HandlerFacts DEF place, IInv, Begun, TypeOK
<1>10. Progress'
  BY <1>1, <1>2, <1>3, <1>4, <1>5, HandlerFacts DEF place, IInv, Before,
         Passed, Progress, TypeOK
<1>11. Spending'
  <2>1. \A g \in handlers : g.at = "spent" /\ place = "spent" =>
          g.login # h.login /\ minted[h.login] = 0
    BY <1>1 DEF place, Fresh, IInv, Spending
  <2>2. place = "spent" => minted[h.login] = 0
    BY <1>1 DEF place, Fresh, IInv, Spending
  <2>3. (\A l \in Login \ nullifiers : minted[l] = 0)'
    BY <1>2, <1>3 DEF IInv, Spending
  <2>4. (\A g \in handlers : g.at = "spent" =>
           g.login \in nullifiers /\ minted[g.login] = 0)'
    BY <1>2, <1>3, <1>5, <2>2 DEF IInv, Spending
  <2>5. (\A f, g \in handlers :
           f.at = "spent" /\ g.at = "spent" /\ f.login = g.login => f = g)'
    BY <1>2, <1>5, <2>1 DEF IInv, Spending
  <2>6. (\A l \in Login : minted[l] <= 1)'
    BY <1>2 DEF IInv, Spending
  <2>7. (\A l \in Login : minted[l] > 0 => Passed(l, 4) /\ l \in nullifiers)'
    BY <1>2, <1>3 DEF IInv, Spending, Passed
  <2> QED BY <2>3, <2>4, <2>5, <2>6, <2>7 DEF Spending
<1>12. Counting'
  BY <1>1, <1>2, <1>3, <1>4, <1>5, HandlerFacts DEF place, IInv, Counting, Of,
         Total, TypeOK
<1>13. Alone'
  BY <1>1, <1>2, <1>3, <1>4, <1>5, HandlerFacts DEF place, IInv, Alone,
         OverQuota, Total, TypeOK, Writing
<1>14. Reasons'
  <2>1. ASSUME NEW l \in Login, Excused(l) PROVE Excused(l)'
    BY <1>1, <1>2, <1>3, <1>4, <1>5, <2>1, ExcusedKept
  <2> QED
    BY <1>1, <1>2, <1>3, <1>4, <1>5, <1>6, <2>1, HandlerFacts
       DEF IInv, Reasons, TypeOK
<1>15. Smooth'
  BY <1>1, <1>2, <1>3, <1>4, <1>5, HandlerFacts DEF place, IInv, Before,
         Smooth, TypeOK
<1>16. Current'
  BY <1>1, <1>2, <1>3, <1>4, <1>5, HandlerFacts DEF place, IInv, Current, Size,
         TypeOK
<1> QED
  BY <1>7, <1>8, <1>9, <1>10, <1>11, <1>12, <1>13, <1>14, <1>15, <1>16 DEF IInv

LEMMA MintStep ==
  ASSUME IInv, NEW h \in handlers, Mint(h)
  PROVE  IInv'
<1>1. h \in Handler /\ h.login \in Login /\ h.step = 5 /\ h.at = "spent"
  BY AtStep DEF IInv, Mint, Handling
<1>2. UNCHANGED <<account, step, failed, root, codes, enroll_count, tickets,
                  expired, spent_tickets, token_null, commitments, nullifiers,
                  counters, raced, faults, disturbed>>
  BY DEF Mint, enrollment, tree, page, history
<1>3. minted' = [minted EXCEPT ![h.login] = @ + 1]
  BY DEF Mint
<1>4. "ok" \in Stage /\ h.read \in Nat \cup {None} /\ GoesWith(h, "ok", h.read)
  BY <1>1 DEF IInv, TypeOK, Goes, Stage, Handler, Mint
<1>5. PICK new \in Handler :
        /\ new.login = h.login /\ new.step = h.step
        /\ new.at = "ok" /\ new.read = h.read
        /\ \A g \in handlers' : g = new \/ (g \in handlers /\ g # h)
  BY <1>4, GoesFacts DEF IInv
<1>6. "ok" = "no" => Excused(h.login)
  BY <1>1, <1>2, <1>3, <1>4
<1>7. TypeOK'
  BY <1>1, <1>2, <1>3, <1>4, <1>5, HandlerFacts DEF IInv, TypeOK
<1>8. Places'
  BY <1>1, <1>2, <1>3, <1>4, <1>5, HandlerFacts DEF IInv, Places, TypeOK
<1>9. Begun'
  BY <1>1, <1>2, <1>3, <1>4, <1>5, HandlerFacts DEF IInv, Begun, TypeOK
<1>10. Progress'
  BY <1>1, <1>2, <1>3, <1>4, <1>5, HandlerFacts DEF IInv, Before, Passed,
         Progress, TypeOK
<1>11. Spending'
  <2>1. step[h.login] \in 0 .. 6 /\ step[h.login] > 4
    BY <1>1, Routes DEF IInv, TypeOK, Progress
  <2>2. Passed(h.login, 4)
    BY <1>1, <2>1 DEF IInv, Progress, Passed
  <2>3. h.login \in nullifiers /\ minted[h.login] = 0
    BY <1>1 DEF IInv, Spending
  <2>4. \A g \in handlers' : g.at = "spent" => g \in handlers /\ g # h
    BY <1>5
  <2>5. \A g \in handlers' : g.at = "spent" => g.login # h.login
    BY <1>1, <2>4 DEF IInv, Spending
  <2>6. /\ minted' \in [Login -> Nat] /\ minted'[h.login] = 1
        /\ \A l \in Login \ {h.login} : minted'[l] = minted[l]
    BY <1>1, <1>3, <2>3 DEF IInv, TypeOK
  <2>7. (\A l \in Login \ nullifiers : minted[l] = 0)'
    BY <1>2, <2>3, <2>6 DEF IInv, Spending
  <2>8. (\A g \in handlers : g.at = "spent" =>
           g.login \in nullifiers /\ minted[g.login] = 0)'
    BY <1>2, <2>4, <2>5, <2>6, HandlerFacts DEF IInv, TypeOK, Spending
  <2>9. (\A f, g \in handlers :
           f.at = "spent" /\ g.at = "spent" /\ f.login = g.login => f = g)'
    BY <2>4 DEF IInv, Spending
  <2>10. (\A l \in Login : minted[l] <= 1)'
    BY <2>6 DEF IInv, Spending
  <2>11. (\A l \in Login : minted[l] > 0 => Passed(l, 4) /\ l \in nullifiers)'
    BY <1>2, <2>2, <2>3, <2>6 DEF IInv, Spending, Passed
  <2> QED BY <2>7, <2>8, <2>9, <2>10, <2>11 DEF Spending
<1>12. Counting'
  BY <1>1, <1>2, <1>3, <1>4, <1>5, HandlerFacts DEF IInv, Counting, Of, Total,
         TypeOK
<1>13. Alone'
  BY <1>1, <1>2, <1>3, <1>4, <1>5, HandlerFacts DEF IInv, Alone, OverQuota,
         Total, TypeOK, Writing
<1>14. Reasons'
  <2>1. ASSUME NEW l \in Login, Excused(l) PROVE Excused(l)'
    BY <1>1, <1>2, <1>3, <1>4, <1>5, <2>1, ExcusedKept
  <2> QED
    BY <1>1, <1>2, <1>3, <1>4, <1>5, <1>6, <2>1, HandlerFacts
       DEF IInv, Reasons, TypeOK
<1>15. Smooth'
  BY <1>1, <1>2, <1>3, <1>4, <1>5, HandlerFacts DEF IInv, Before, Smooth,
         TypeOK
<1>16. Current'
  BY <1>1, <1>2, <1>3, <1>4, <1>5, HandlerFacts DEF IInv, Current, Size, TypeOK
<1> QED
  BY <1>7, <1>8, <1>9, <1>10, <1>11, <1>12, <1>13, <1>14, <1>15, <1>16 DEF IInv

LEMMA IssueStep ==
  ASSUME IInv, NEW h \in handlers, Issue(h)
  PROVE  IInv'
<1> DEFINE place == IF h.login \in tickets \ (expired \cup spent_tickets)
                    THEN "ok" ELSE "no"
<1>1. h \in Handler /\ h.login \in Login /\ h.step = 2 /\ h.at = "arrived"
  BY AtStep DEF IInv, Issue, Handling
<1>2. UNCHANGED <<account, step, failed, root, codes, enroll_count, tickets,
                  expired, token_null, commitments, nullifiers, counters,
                  minted, raced, faults, disturbed>>
  BY DEF Issue, enrollment, tree, page, history
<1>3. spent_tickets' = IF h.login \in tickets \ (expired \cup spent_tickets)
                      THEN spent_tickets \cup {h.login} ELSE spent_tickets
  BY DEF Issue
<1>4. place \in Stage /\ h.read \in Nat \cup {None}
      /\ GoesWith(h, place, h.read)
  BY <1>1 DEF IInv, TypeOK, Goes, Stage, Handler, Issue
<1> HIDE DEF place
<1>5. PICK new \in Handler :
        /\ new.login = h.login /\ new.step = h.step
        /\ new.at = place /\ new.read = h.read
        /\ \A g \in handlers' : g = new \/ (g \in handlers /\ g # h)
  BY <1>4, GoesFacts DEF IInv
<1>6. place = "no" => Excused(h.login)
  BY <1>1, <1>2, <1>3, <1>4 DEF place, IInv, Progress, Passed, Smooth, Before,
         Reasons, Excused
<1>7. TypeOK'
  BY <1>1, <1>2, <1>3, <1>4, <1>5, HandlerFacts DEF place, IInv, TypeOK
<1>8. Places'
  BY <1>1, <1>2, <1>3, <1>4, <1>5, HandlerFacts DEF place, IInv, Places, TypeOK
<1>9. Begun'
  BY <1>1, <1>2, <1>3, <1>4, <1>5, HandlerFacts DEF place, IInv, Begun, TypeOK
<1>10. Progress'
  BY <1>1, <1>2, <1>3, <1>4, <1>5, HandlerFacts DEF place, IInv, Before,
         Passed, Progress, TypeOK
<1>11. Spending'
  BY <1>1, <1>2, <1>3, <1>4, <1>5, HandlerFacts DEF place, IInv, Passed,
         Spending, TypeOK
<1>12. Counting'
  BY <1>1, <1>2, <1>3, <1>4, <1>5, HandlerFacts DEF place, IInv, Counting, Of,
         Total, TypeOK
<1>13. Alone'
  BY <1>1, <1>2, <1>3, <1>4, <1>5, HandlerFacts DEF place, IInv, Alone,
         OverQuota, Total, TypeOK, Writing
<1>14. Reasons'
  <2>1. ASSUME NEW l \in Login, Excused(l) PROVE Excused(l)'
    BY <1>1, <1>2, <1>3, <1>4, <1>5, <2>1, ExcusedKept
  <2> QED
    BY <1>1, <1>2, <1>3, <1>4, <1>5, <1>6, <2>1, HandlerFacts
       DEF IInv, Reasons, TypeOK
<1>15. Smooth'
  BY <1>1, <1>2, <1>3, <1>4, <1>5, HandlerFacts DEF place, IInv, Before,
         Smooth, TypeOK
<1>16. Current'
  BY <1>1, <1>2, <1>3, <1>4, <1>5, HandlerFacts DEF place, IInv, Current, Size,
         TypeOK
<1> QED
  BY <1>7, <1>8, <1>9, <1>10, <1>11, <1>12, <1>13, <1>14, <1>15, <1>16 DEF IInv

LEMMA InsertStep ==
  ASSUME IInv, NEW h \in handlers, Insert(h)
  PROVE  IInv'
<1> DEFINE place == IF h.login \in token_null THEN "no" ELSE "ok"
<1>1. h \in Handler /\ h.login \in Login /\ h.step = 3 /\ h.at = "arrived"
  BY AtStep DEF IInv, Insert, Handling
<1>2. UNCHANGED <<account, step, failed, root, codes, enroll_count, tickets,
                  expired, spent_tickets, nullifiers, counters, minted, raced,
                  faults>>
  BY DEF Insert, enrollment, tree, page, history
<1>3. IF h.login \in token_null
      THEN UNCHANGED <<token_null, commitments, disturbed>>
      ELSE /\ token_null' = token_null \cup {h.login}
           /\ commitments' = commitments \cup {h.login}
           /\ disturbed' = disturbed \cup Proving
  BY DEF Insert
<1>4. place \in Stage /\ h.read \in Nat \cup {None}
      /\ GoesWith(h, place, h.read)
  BY <1>1 DEF IInv, TypeOK, Goes, Stage, Handler, Insert
<1> HIDE DEF place
<1>5. PICK new \in Handler :
        /\ new.login = h.login /\ new.step = h.step
        /\ new.at = place /\ new.read = h.read
        /\ \A g \in handlers' : g = new \/ (g \in handlers /\ g # h)
  BY <1>4, GoesFacts DEF IInv
<1>6. place = "no" => Excused(h.login)
  BY <1>1, <1>2, <1>3, <1>4 DEF place, IInv, Smooth, Before, Excused
<1>7. TypeOK'
  <2>1. commitments' \subseteq Login /\ IsFiniteSet(commitments')
    <3>1. /\ h.login \in Login
          /\ commitments \subseteq Login /\ IsFiniteSet(commitments)
      BY <1>1 DEF IInv, TypeOK
    <3>2. \/ commitments' = commitments
          \/ commitments' = commitments \cup {h.login}
      BY <1>3
    <3>3. IsFiniteSet(commitments \cup {h.login})
      BY <3>1, FS_AddElement
    <3> QED BY <3>1, <3>2, <3>3
  <2>2. disturbed' \subseteq Login
    BY <1>3 DEF IInv, TypeOK, Proving
  <2> QED
    BY <1>1, <1>2, <1>3, <1>4, <1>5, <2>1, <2>2, HandlerFacts DEF IInv, TypeOK
<1>8. Places'
  BY <1>1, <1>2, <1>3, <1>4, <1>5, HandlerFacts DEF place, IInv, Places, TypeOK
<1>9. Begun'
  BY <1>1, <1>2, <1>3, <1>4, <1>5, HandlerFacts DEF place, IInv, Begun, TypeOK
<1>10. Progress'
  BY <1>1, <1>2, <1>3, <1>4, <1>5, HandlerFacts DEF place, IInv, Before,
         Passed, Progress, TypeOK
<1>11. Spending'
  BY <1>1, <1>2, <1>3, <1>4, <1>5, HandlerFacts DEF place, IInv, Passed,
         Spending, TypeOK
<1>12. Counting'
  BY <1>1, <1>2, <1>3, <1>4, <1>5, HandlerFacts DEF place, IInv, Counting, Of,
         Total, TypeOK
<1>13. Alone'
  BY <1>1, <1>2, <1>3, <1>4, <1>5, HandlerFacts DEF place, IInv, Alone,
         OverQuota, Total, TypeOK, Writing
<1>14. Reasons'
  <2>1. ASSUME NEW l \in Login, Excused(l) PROVE Excused(l)'
    BY <1>1, <1>2, <1>3, <1>4, <1>5, <2>1, ExcusedKept
  <2> QED
    BY <1>1, <1>2, <1>3, <1>4, <1>5, <1>6, <2>1, HandlerFacts
       DEF IInv, Reasons, TypeOK
<1>15. Smooth'
  BY <1>1, <1>2, <1>3, <1>4, <1>5, HandlerFacts DEF place, IInv, Before,
         Smooth, TypeOK
<1>16. Current'
  <2>1. CASE h.login \in token_null
    BY <1>1, <1>2, <1>3, <1>5, <2>1, HandlerFacts
       DEF IInv, Current, Size, TypeOK
  <2>2. CASE h.login \notin token_null
    <3>1. disturbed' = disturbed \cup Proving
      BY <1>3, <2>2
    <3>2. ASSUME NEW g \in handlers', g.step = 4, g.at = "ok"
          PROVE  g.login \in disturbed'
      <4>1. g \in handlers
        BY <1>1, <1>5, <3>2
      <4>2. g.login \in Login /\ At(g.step) = "proof"
        BY <3>2, <4>1, Routes, HandlerFacts DEF IInv, TypeOK
      <4> QED BY <3>1, <3>2, <4>1, <4>2 DEF Proving, Handling
    <3>3. ASSUME NEW l \in Login, step[l] = 5
          PROVE  l \in disturbed'
      BY <3>1, <3>3, Routes DEF Proving
    <3> QED BY <1>2, <3>2, <3>3 DEF Current
  <2> QED BY <2>1, <2>2
<1> QED
  BY <1>7, <1>8, <1>9, <1>10, <1>11, <1>12, <1>13, <1>14, <1>15, <1>16 DEF IInv

LEMMA CallbackReadsStep ==
  ASSUME IInv, NEW h \in handlers, CallbackReads(h)
  PROVE  IInv'
<1> DEFINE a == account[h.login]
           refused == h.login \in codes \/ OverQuota(a)
           place == IF refused THEN "no" ELSE "writing"
           value == IF refused THEN h.read ELSE enroll_count[a]
<1>1. h \in Handler /\ h.login \in Login /\ h.step = 1 /\ h.at = "arrived"
  BY AtStep DEF IInv, CallbackReads, Handling
<1>2. UNCHANGED <<account, step, failed, root, enroll_count, tickets, expired,
                  spent_tickets, token_null, commitments, nullifiers, counters,
                  minted, faults, disturbed>>
  BY DEF CallbackReads, enrollment, tree, page, history
<1>3. /\ codes' = codes \cup {h.login}
      /\ raced \subseteq raced' /\ raced' \subseteq raced \cup {a}
      /\ refused \/ \A g \in handlers : Writing(g, a) => a \in raced'
  <2>1. codes' = codes \cup {h.login}
    BY DEF CallbackReads
  <2>2. CASE refused
    BY <2>1, <2>2 DEF CallbackReads
  <2>3. CASE ~refused
    <3>1. raced' = raced \cup
                     {account[g.login] : g \in {f \in handlers :
                        /\ Handling(f, "callback", "writing")
                        /\ account[f.login] = a}}
      BY <2>3 DEF CallbackReads
    <3>2. \A g \in handlers :
            Writing(g, a) => Handling(g, "callback", "writing")
      BY Routes DEF IInv, Places, Handling, Writing
    <3> QED BY <2>1, <3>1, <3>2 DEF Writing
  <2> QED BY <2>2, <2>3
<1>4. /\ a \in Account /\ enroll_count[a] \in Nat \cup {None}
      /\ place \in Stage /\ value \in Nat \cup {None}
      /\ GoesWith(h, place, value)
  <2>1. h.read \in Nat \cup {None}
    BY <1>1, HandlerFacts
  <2>2. step[h.login] \in 0 .. 6 /\ step[h.login] > 0
    BY <1>1, Routes DEF IInv, TypeOK, Progress
  <2>3. a \in Account /\ enroll_count[a] \in Nat \cup {None}
    BY <1>1, <2>2 DEF IInv, TypeOK, Begun
  <2>4. place \in Stage /\ value \in Nat \cup {None}
    BY <2>1, <2>3 DEF Stage
  <2>5. CASE refused
    <3>1. GoesWith(h, "no", h.read)
      BY <2>5 DEF CallbackReads, Goes
    <3>2. place = "no" /\ value = h.read
      BY <2>5
    <3> QED BY <2>3, <2>4, <3>1, <3>2
  <2>6. CASE ~refused
    <3>1. GoesWith(h, "writing", enroll_count[a])
      BY <2>6 DEF CallbackReads
    <3>2. place = "writing" /\ value = enroll_count[a]
      BY <2>6
    <3> QED BY <2>3, <2>4, <3>1, <3>2
  <2> QED BY <2>3, <2>4, <2>5, <2>6
<1> HIDE DEF a, refused, place, value
<1>5. PICK new \in Handler :
        /\ new.login = h.login /\ new.step = h.step
        /\ new.at = place /\ new.read = value
        /\ \A g \in handlers' : g = new \/ (g \in handlers /\ g # h)
  BY <1>4, GoesFacts DEF IInv
<1>6. place = "no" => Excused(h.login)
  BY <1>1 DEF place, refused, a, OverQuota, IInv, Smooth, Before, Excused
<1>7. TypeOK'
  BY <1>1, <1>2, <1>3, <1>4, <1>5, HandlerFacts DEF place, IInv, TypeOK
<1>8. Places'
  BY <1>1, <1>2, <1>3, <1>4, <1>5, HandlerFacts DEF place, IInv, Places, TypeOK
<1>9. Begun'
  BY <1>1, <1>2, <1>3, <1>4, <1>5, HandlerFacts DEF place, IInv, Begun, TypeOK
<1>10. Progress'
  BY <1>1, <1>2, <1>3, <1>4, <1>5, HandlerFacts DEF place, IInv, Before,
         Passed, Progress, TypeOK
<1>11. Spending'
  BY <1>1, <1>2, <1>3, <1>4, <1>5, HandlerFacts DEF place, IInv, Passed,
         Spending, TypeOK
<1>12. Counting'
  <2>1. (\A b \in Account :
           IsFiniteSet(Of(b, tickets))
           /\ Cardinality(Of(b, tickets)) <= Total(b))'
    BY <1>2 DEF IInv, Counting, Of, Total
  <2>2. (\A g \in handlers : g.at = "writing" =>
           g.read = None \/ enroll_count[account[g.login]] # None)'
    BY <1>1, <1>2, <1>4, <1>5 DEF a, place, value, IInv, Counting
  <2> QED BY <2>1, <2>2 DEF Counting
<1>13. Alone'
  <2> SUFFICES ASSUME NEW b \in Account, b \notin raced'
               PROVE  /\ \A f, g \in handlers' :
                           Writing(f, b)' /\ Writing(g, b)' => f = g
                      /\ \A g \in handlers' : Writing(g, b)' =>
                           g.read = enroll_count[b] /\ ~OverQuota(b)
                      /\ Total(b) <= ENROLL_QUOTA_MAX
    BY <1>2 DEF Alone, OverQuota, Total
  <2>1. b \notin raced
    BY <1>3
  <2>2. \A g \in handlers' : Writing(g, b)' =>
          Writing(g, b) /\ (g = new \/ g \in handlers)
    BY <1>2, <1>5 DEF Writing
  <2>3. Writing(new, b) => /\ b = a /\ ~refused /\ value = enroll_count[b]
                           /\ \A g \in handlers : ~Writing(g, b)
    BY <1>3, <1>5 DEF Writing, a, place, value
  <2>4. /\ \A f, g \in handlers : Writing(f, b) /\ Writing(g, b) => f = g
        /\ \A g \in handlers : Writing(g, b) =>
             g.read = enroll_count[b] /\ ~OverQuota(b)
        /\ Total(b) <= ENROLL_QUOTA_MAX
    BY <2>1 DEF IInv, Alone
  <2> QED BY <1>5, <2>2, <2>3, <2>4 DEF refused
<1>14. Reasons'
  <2>1. ASSUME NEW l \in Login, Excused(l) PROVE Excused(l)'
    BY <1>2, <1>3, <2>1, ExcusedKept
  <2> QED
    BY <1>1, <1>2, <1>3, <1>4, <1>5, <1>6, <2>1, HandlerFacts
       DEF IInv, Reasons, TypeOK
<1>15. Smooth'
  BY <1>1, <1>2, <1>3, <1>4, <1>5, HandlerFacts DEF place, IInv, Before,
         Smooth, TypeOK
<1>16. Current'
  BY <1>1, <1>2, <1>3, <1>4, <1>5, HandlerFacts DEF place, IInv, Current, Size,
         TypeOK
<1> QED
  BY <1>7, <1>8, <1>9, <1>10, <1>11, <1>12, <1>13, <1>14, <1>15, <1>16 DEF IInv

LEMMA CallbackWritesStep ==
  ASSUME IInv, NEW h \in handlers, CallbackWrites(h)
  PROVE  IInv'
<1> DEFINE a == account[h.login]
           taken == h.read = None /\ enroll_count[a] # None
           place == IF taken THEN "no" ELSE "ok"
<1> USE MembershipAssumption
<1>1. h \in Handler /\ h.login \in Login /\ h.step = 1 /\ h.at = "writing"
  BY AtStep DEF IInv, CallbackWrites, Handling
<1>2. UNCHANGED <<account, step, failed, root, codes, expired, spent_tickets,
                  token_null, commitments, nullifiers, counters, minted, raced,
                  faults, disturbed>>
  BY DEF CallbackWrites, enrollment, tree, page, history
<1>3. IF taken
      THEN UNCHANGED <<enroll_count, tickets>>
      ELSE /\ enroll_count' = [enroll_count EXCEPT ![a] = Counted(a, h.read)]
           /\ tickets' = tickets \cup {h.login}
  BY DEF CallbackWrites
<1>4. /\ a \in Account /\ enroll_count[a] \in Nat \cup {None}
      /\ place \in Stage /\ h.read \in Nat \cup {None}
      /\ GoesWith(h, place, h.read)
  <2>1. h.read \in Nat \cup {None}
    BY <1>1, HandlerFacts
  <2>2. step[h.login] \in 0 .. 6 /\ step[h.login] > 0
    BY <1>1, Routes DEF IInv, TypeOK, Progress
  <2>3. a \in Account /\ enroll_count[a] \in Nat \cup {None}
    BY <1>1, <2>2 DEF IInv, TypeOK, Begun
  <2>4. place \in Stage
    BY DEF Stage
  <2>5. GoesWith(h, place, h.read)
    BY DEF CallbackWrites, Goes
  <2> QED BY <2>1, <2>3, <2>4, <2>5
<1> HIDE DEF a, taken, place
<1>5. PICK new \in Handler :
        /\ new.login = h.login /\ new.step = h.step
        /\ new.at = place /\ new.read = h.read
        /\ \A g \in handlers' : g = new \/ (g \in handlers /\ g # h)
  BY <1>4, GoesFacts DEF IInv
<1>6. place = "no" => Excused(h.login)
  <2>1. a \in raced \/ h.read = enroll_count[a]
    BY <1>1, <1>4 DEF a, IInv, Alone, Writing
  <2> QED BY <2>1 DEF place, taken, a, Excused
<1>7. /\ enroll_count' \in [Account -> Nat \cup {None}]
      /\ \A b \in Account \ {a} : enroll_count'[b] = enroll_count[b]
      /\ taken => enroll_count' = enroll_count /\ tickets' = tickets
      /\ ~taken => /\ enroll_count'[a] = Total(a) + 1
                   /\ enroll_count'[a] \in Nat /\ Total(a) \in Nat
                   /\ tickets' = tickets \cup {h.login}
  <2>1. CASE taken
    BY <1>3, <2>1 DEF IInv, TypeOK
  <2>2. CASE ~taken
    <3>1. h.read # None => enroll_count[a] \in Nat
      BY <1>1, <1>4 DEF a, IInv, Counting
    <3>2. Total(a) \in Nat /\ Counted(a, h.read) = Total(a) + 1
      BY <1>4, <2>2, <3>1 DEF taken, Counted, Total
    <3> QED BY <1>3, <1>4, <2>2, <3>2 DEF IInv, TypeOK
  <2> QED BY <2>1, <2>2
<1>8. TypeOK'
  BY <1>1, <1>2, <1>5, <1>7, HandlerFacts DEF IInv, TypeOK
<1>9. Places'
  BY <1>1, <1>2, <1>4, <1>5, <1>7, HandlerFacts DEF place, IInv, Places, TypeOK
<1>10. Begun'
  BY <1>1, <1>2, <1>4, <1>5, <1>7, HandlerFacts DEF place, IInv, Begun, TypeOK
<1>11. Progress'
  BY <1>1, <1>2, <1>4, <1>5, <1>7, HandlerFacts DEF place, IInv, Before,
         Passed, Progress, TypeOK
<1>12. Spending'
  BY <1>1, <1>2, <1>4, <1>5, <1>7, HandlerFacts DEF place, IInv, Passed,
         Spending, TypeOK
<1>13. Counting'
  <2>1. ASSUME NEW b \in Account
        PROVE  /\ IsFiniteSet(Of(b, tickets)')
               /\ Cardinality(Of(b, tickets)') <= Total(b)'
    <3>1. /\ IsFiniteSet(Of(b, tickets)) /\ Cardinality(Of(b, tickets)) \in Nat
          /\ Cardinality(Of(b, tickets)) <= Total(b)
      BY FS_CardinalityType DEF IInv, Counting
    <3>2. CASE taken \/ b # a
      <4>1. Of(b, tickets)' = Of(b, tickets)
        BY <1>2, <1>7, <3>2 DEF Of, a
      <4>2. Total(b)' = Total(b)
        BY <1>7, <3>2 DEF Total
      <4> QED BY <3>1, <4>1, <4>2
    <3>3. CASE ~taken /\ b = a
      <4>1. Of(b, tickets)' = Of(b, tickets) \cup {h.login}
        BY <1>1, <1>2, <1>7, <3>3 DEF Of, a
      <4>2. Total(b)' = Total(b) + 1
        BY <1>7, <3>3 DEF Total
      <4>3. /\ IsFiniteSet(Of(b, tickets) \cup {h.login})
            /\ Cardinality(Of(b, tickets) \cup {h.login}) <=
                 Cardinality(Of(b, tickets)) + 1
        BY <3>1, FS_AddElement
      <4> QED BY <1>7, <3>1, <3>3, <4>1, <4>2, <4>3, FS_CardinalityType
    <3> QED BY <3>2, <3>3
  <2>2. (\A g \in handlers : g.at = "writing" =>
           g.read = None \/ enroll_count[account[g.login]] # None)'
    <3> SUFFICES ASSUME NEW g \in handlers', g.at = "writing"
                 PROVE  g.read = None \/ enroll_count'[account[g.login]] # None
      BY <1>2
    <3>1. g \in handlers /\ g.login \in Login /\ g.step = 1
      BY <1>5, HandlerFacts DEF place, IInv, TypeOK, Places
    <3>2. step[g.login] \in 0 .. 6 /\ step[g.login] > 0
      BY <3>1, Routes DEF IInv, TypeOK, Progress
    <3>3. account[g.login] \in Account
      BY <3>1, <3>2 DEF IInv, Begun
    <3>4. g.read = None \/ enroll_count[account[g.login]] # None
      BY <3>1 DEF IInv, Counting
    <3> QED BY <1>7, <3>3, <3>4
  <2> QED BY <2>1, <2>2 DEF Counting
<1>14. Alone'
  <2> SUFFICES ASSUME NEW b \in Account, b \notin raced
               PROVE  /\ \A f, g \in handlers' :
                           Writing(f, b)' /\ Writing(g, b)' => f = g
                      /\ \A g \in handlers' : Writing(g, b)' =>
                           g.read = enroll_count'[b] /\ ~OverQuota(b)'
                      /\ Total(b)' <= ENROLL_QUOTA_MAX
    BY <1>2 DEF Alone
  <2>1. \A g \in handlers' : Writing(g, b)' =>
          Writing(g, b) /\ g \in handlers /\ g # h
    BY <1>2, <1>5 DEF Writing, place
  <2>2. /\ \A f, g \in handlers : Writing(f, b) /\ Writing(g, b) => f = g
        /\ \A g \in handlers : Writing(g, b) =>
             g.read = enroll_count[b] /\ ~OverQuota(b)
        /\ Total(b) <= ENROLL_QUOTA_MAX
    BY DEF IInv, Alone
  <2>3. CASE b # a
    BY <1>7, <2>1, <2>2, <2>3 DEF OverQuota, Total
  <2>4. CASE b = a
    <3>1. Writing(h, b)
      BY <1>1, <2>4 DEF Writing, a
    <3>2. \A g \in handlers' : ~Writing(g, b)'
      BY <2>1, <2>2, <3>1
    <3>3. ~OverQuota(a)
      BY <2>2, <2>4, <3>1
    <3>4. Total(b)' <= ENROLL_QUOTA_MAX
      <4>1. CASE taken
        BY <1>7, <2>2, <2>4, <4>1 DEF Total
      <4>2. CASE ~taken
        BY <1>4, <1>7, <2>4, <3>3, <4>2 DEF Total, OverQuota
      <4> QED BY <4>1, <4>2
    <3> QED BY <3>2, <3>4
  <2> QED BY <2>3, <2>4
<1>15. Reasons'
  <2>1. ASSUME NEW l \in Login, account[l] \in Account, Excused(l)
        PROVE  Excused(l)'
    <3>1. /\ enroll_count'[account[l]] = enroll_count[account[l]]
             \/ /\ enroll_count'[account[l]] \in Nat
                /\ enroll_count[account[l]] # None =>
                     /\ enroll_count[account[l]] \in Nat
                     /\ enroll_count'[account[l]] >= enroll_count[account[l]]
      BY <1>4, <1>7, <2>1 DEF Total
    <3> QED BY <1>2, <2>1, <3>1, ExcusedKept
  <2>2. /\ \A l \in Login : step[l] > 0 => account[l] \in Account
        /\ \A g \in handlers : step[g.login] > 0
        /\ \A l \in failed : step[l] > 0
    BY Routes, HandlerFacts DEF IInv, TypeOK, Begun, Progress
  <2> QED
    BY <1>1, <1>2, <1>4, <1>5, <1>6, <2>1, <2>2, HandlerFacts
       DEF IInv, Reasons, TypeOK
<1>16. Smooth'
  BY <1>1, <1>2, <1>4, <1>5, <1>7, HandlerFacts DEF place, IInv, Before,
         Smooth, TypeOK
<1>17. Current'
  BY <1>1, <1>2, <1>4, <1>5, <1>7, HandlerFacts DEF place, IInv, Current, Size,
         TypeOK
<1> QED
  BY <1>8, <1>9, <1>10, <1>11, <1>12, <1>13, <1>14, <1>15, <1>16, <1>17
     DEF IInv

LEMMA ExpireStep ==
  ASSUME IInv, NEW l \in Login, Expire(l)
  PROVE  IInv'
<1>1. UNCHANGED <<page, handlers, codes, enroll_count, tickets, spent_tickets,
                  tree, counters, minted, raced>>
  BY DEF Expire
<1>2. /\ expired' = expired \cup {l} /\ disturbed' = disturbed \cup {l}
      /\ faults' \in 0 .. MaxFaults
  BY MembershipAssumption DEF Expire, Fault, IInv, TypeOK
<1>3. /\ TypeOK' /\ Places' /\ Begun' /\ Progress' /\ Spending'
  BY <1>1, <1>2
     DEF page, tree, IInv, TypeOK, Places, Begun, Progress, Spending, Passed,
         Before
<1>4. Counting' /\ Alone'
  BY <1>1
     DEF page, IInv, Counting, Alone, Of, Total, Writing, OverQuota
<1>5. Reasons'
  <2>1. ASSUME NEW m \in Login, Excused(m) PROVE Excused(m)'
    BY <1>1, <1>2, <2>1, ExcusedKept DEF page
  <2> QED BY <1>1, <1>2, <2>1, HandlerFacts DEF page, IInv, TypeOK, Reasons
<1>6. Smooth' /\ Current'
  BY <1>1, <1>2 DEF page, tree, IInv, Smooth, Current, Before, Size
<1> QED BY <1>3, <1>4, <1>5, <1>6 DEF IInv

LEMMA BeginStep ==
  ASSUME IInv, NEW l \in Login, NEW a \in Account, Begin(l, a)
  PROVE  IInv'
<1> DEFINE new == Request(l, 1)
<1>1. UNCHANGED <<failed, root, codes, enroll_count, tickets, expired,
                  spent_tickets, token_null, commitments, nullifiers, counters,
                  minted, raced, faults, disturbed>>
  BY DEF Begin, enrollment, tree, history
<1>2. /\ step[l] = 0
      /\ account' = [account EXCEPT ![l] = a]
      /\ step' = [step EXCEPT ![l] = 1]
      /\ handlers' = handlers \cup {new}
  BY DEF Begin
<1>3. /\ new \in Handler /\ new.login = l /\ new.step = 1
      /\ new.at = "arrived" /\ new.copy = 0
  BY Routes, MembershipAssumption DEF Request, Handler
<1> HIDE DEF new
<1>4. Before(l, 0)
  BY <1>2 DEF IInv, Progress
<1>5. \A g \in handlers : g.login # l
  BY <1>2, Routes, HandlerFacts DEF IInv, TypeOK, Progress
<1>6. l \notin failed
  BY <1>2 DEF IInv, Begun
<1>7. /\ account' \in [Login -> Account \cup {None}] /\ account'[l] = a
      /\ \A m \in Login \ {l} : account'[m] = account[m]
      /\ step' \in [Login -> 0 .. Done] /\ step'[l] = 1
      /\ \A m \in Login \ {l} : step'[m] = step[m]
  BY <1>2, Routes DEF IInv, TypeOK
<1>8. TypeOK'
  BY <1>1, <1>2, <1>3, <1>7 DEF IInv, TypeOK
<1>9. Places'
  BY <1>2, <1>3 DEF IInv, Places
<1>10. Begun'
  BY <1>1, <1>6, <1>7 DEF IInv, Begun, TypeOK
<1>11. Progress'
  <2>1. \A m \in Login : Passed(m, step'[m]) /\ Before(m, step'[m])
    BY <1>4, <1>7 DEF IInv, Progress, Passed, Before
  <2>2. \A m, n : (Passed(m, n)' <=> Passed(m, n))
                  /\ (Before(m, n)' <=> Before(m, n))
    BY <1>1 DEF Passed, Before
  <2>3. \A g \in handlers' : g.step <= step'[g.login]
    BY <1>2, <1>3, <1>5, <1>7, HandlerFacts DEF IInv, TypeOK, Progress
  <2>4. \A g \in handlers' : g.at = "ok" => Passed(g.login, g.step + 1)
    BY <1>2, <1>3 DEF IInv, Progress
  <2> QED BY <2>1, <2>2, <2>3, <2>4 DEF Progress
<1>12. Spending'
  BY <1>1, <1>2, <1>3 DEF IInv, Spending, Passed
<1>13. Counting'
  <2>1. \A b : Of(b, tickets)' = Of(b, tickets)
    BY <1>1, <1>4, <1>7 DEF Of, Before, IInv, TypeOK
  <2> QED
    BY <1>1, <1>2, <1>3, <1>5, <1>7, <2>1, HandlerFacts
       DEF IInv, TypeOK, Counting, Total
<1>14. Alone'
  <2>1. \A b : \A g \in handlers' :
          Writing(g, b)' => g \in handlers /\ Writing(g, b)
    BY <1>2, <1>3, <1>5, <1>7, HandlerFacts DEF IInv, TypeOK, Writing
  <2> QED BY <1>1, <2>1 DEF IInv, Alone, OverQuota, Total
<1>15. Reasons'
  <2>1. ASSUME NEW m \in Login, m # l, Excused(m) PROVE Excused(m)'
    BY <1>1, <1>7, <2>1, ExcusedKept
  <2> QED
    BY <1>1, <1>2, <1>3, <1>5, <1>6, <2>1, HandlerFacts
       DEF IInv, TypeOK, Reasons
<1>16. Smooth'
  <2>1. \A f, g \in handlers' :
          f.login = g.login => f = g \/ g.login \in disturbed
    BY <1>2, <1>3, <1>5 DEF IInv, Smooth
  <2>2. \A m, n : Before(m, n)' <=> Before(m, n)
    BY <1>1 DEF Before
  <2>3. ASSUME NEW g \in handlers', g.login \notin disturbed
        PROVE  /\ g.step = step'[g.login]
               /\ g.at = "arrived" => Before(g.login, g.step - 1)
               /\ g.at = "matched" => /\ counters["session"][g.login] = 0
                                      /\ g.login \notin nullifiers
               /\ g.at = "verified" => g.login \notin nullifiers
    <3>1. CASE g = new
      BY <1>3, <1>4, <1>7, <3>1
    <3>2. CASE g \in handlers
      BY <1>5, <1>7, <2>3, <3>2, HandlerFacts DEF IInv, TypeOK, Smooth
    <3> QED BY <1>2, <3>1, <3>2
  <2> QED BY <1>1, <2>1, <2>2, <2>3 DEF Smooth
<1>17. Current'
  BY <1>1, <1>2, <1>3, <1>7 DEF IInv, Current, Size
<1> QED
  BY <1>8, <1>9, <1>10, <1>11, <1>12, <1>13, <1>14, <1>15, <1>16, <1>17
     DEF IInv

\* A handler fewer: nothing that must hold of the others needs it.
LEMMA LoseStep ==
  ASSUME IInv, NEW h \in handlers, Lose(h)
  PROVE  IInv'
<1>1. UNCHANGED <<account, step, root, codes, enroll_count, tickets, expired,
                  spent_tickets, token_null, commitments, nullifiers, counters,
                  minted, raced>>
  BY DEF Lose, enrollment, tree
<1>2. /\ handlers' \subseteq handlers
      /\ failed' \subseteq failed \cup {h.login}
      /\ failed' = failed \/ step[h.login] > 0
      /\ disturbed' = disturbed \cup {h.login} /\ h.login \in Login
      /\ faults' \in 0 .. MaxFaults
  BY Routes, HandlerFacts, MembershipAssumption
     DEF Lose, Fault, Waiting, IInv, TypeOK
<1>3. TypeOK' /\ Places' /\ Begun' /\ Progress' /\ Spending'
  BY <1>1, <1>2
     DEF IInv, TypeOK, Places, Begun, Progress, Spending, Passed, Before
<1>4. Counting' /\ Alone'
  BY <1>1, <1>2 DEF IInv, Counting, Alone, Of, Total, Writing, OverQuota
<1>5. Reasons'
  <2>1. ASSUME NEW m \in Login, Excused(m) PROVE Excused(m)'
    BY <1>1, <1>2, <2>1, ExcusedKept
  <2>2. Excused(h.login)'
    BY <1>2 DEF Excused
  <2> QED BY <1>1, <1>2, <2>1, <2>2, HandlerFacts DEF IInv, TypeOK, Reasons
<1>6. Smooth' /\ Current'
  BY <1>1, <1>2 DEF IInv, Smooth, Current, Before, Size
<1> QED BY <1>3, <1>4, <1>5, <1>6 DEF IInv

LEMMA CopyStep ==
  ASSUME IInv, NEW h \in handlers, Copy(h)
  PROVE  IInv'
<1> DEFINE new == [login |-> h.login, step |-> h.step, copy |-> faults + 1,
                   at |-> "arrived", read |-> h.read]
<1>1. UNCHANGED <<account, step, failed, root, codes, enroll_count, tickets,
                  expired, spent_tickets, token_null, commitments, nullifiers,
                  counters, minted, raced>>
  BY DEF Copy, enrollment, tree, page
<1>2. /\ h.at = "arrived" /\ h \in Handler
      /\ handlers' = handlers \cup {new}
      /\ disturbed' = disturbed \cup {h.login} /\ h.login \in Login
      /\ faults' \in 0 .. MaxFaults
  BY HandlerFacts, MembershipAssumption DEF Copy, Fault, IInv, TypeOK
<1>3. /\ new \in Handler /\ new.login = h.login /\ new.step = h.step
      /\ new.at = "arrived"
  BY <1>2, MembershipAssumption DEF Copy, Fault, IInv, TypeOK, Handler
<1> HIDE DEF new
<1>4. TypeOK' /\ Places' /\ Begun'
  BY <1>1, <1>2, <1>3 DEF IInv, TypeOK, Places, Begun
<1>5. Progress' /\ Spending'
  BY <1>1, <1>2, <1>3 DEF IInv, Progress, Spending, Passed, Before
<1>6. Counting' /\ Alone'
  BY <1>1, <1>2, <1>3
     DEF IInv, Counting, Alone, Of, Total, Writing, OverQuota
<1>7. Reasons'
  <2>1. ASSUME NEW m \in Login, Excused(m) PROVE Excused(m)'
    BY <1>1, <1>2, <2>1, ExcusedKept
  <2> QED
    BY <1>1, <1>2, <1>3, <2>1, HandlerFacts DEF IInv, TypeOK, Reasons
<1>8. Smooth' /\ Current'
  BY <1>1, <1>2, <1>3 DEF IInv, Smooth, Current, Before, Size
<1> QED BY <1>4, <1>5, <1>6, <1>7, <1>8 DEF IInv

LEMMA ErrorStep ==
  ASSUME IInv, NEW h \in handlers, Receive(h), h.at = "no"
  PROVE  IInv'
<1>1. UNCHANGED <<account, step, root, codes, enroll_count, tickets, expired,
                  spent_tickets, token_null, commitments, nullifiers, counters,
                  minted, raced, faults, disturbed>>
  BY DEF Receive, enrollment, tree, history
<1>2. /\ handlers' \subseteq handlers /\ failed' = failed \cup {h.login}
      /\ h.login \in Login /\ step[h.login] > 0 /\ Excused(h.login)
  BY Routes, HandlerFacts DEF Receive, Waiting, IInv, TypeOK, Reasons
<1>3. TypeOK' /\ Places' /\ Begun' /\ Progress' /\ Spending'
  BY <1>1, <1>2
     DEF IInv, TypeOK, Places, Begun, Progress, Spending, Passed, Before
<1>4. Counting' /\ Alone'
  BY <1>1, <1>2 DEF IInv, Counting, Alone, Of, Total, Writing, OverQuota
<1>5. Reasons'
  <2>1. ASSUME NEW m \in Login, Excused(m) PROVE Excused(m)'
    BY <1>1, <2>1, ExcusedKept
  <2> QED BY <1>1, <1>2, <2>1, HandlerFacts DEF IInv, TypeOK, Reasons
<1>6. Smooth' /\ Current'
  BY <1>1, <1>2 DEF IInv, Smooth, Current, Before, Size
<1> QED BY <1>3, <1>4, <1>5, <1>6 DEF IInv

\* The page makes its next request, with what the answer shows behind it.
LEMMA AnswerStep ==
  ASSUME IInv, NEW h \in handlers, Receive(h), h.at # "no"
  PROVE  IInv'
<1> DEFINE l == h.login
           new == Request(l, h.step + 1)
<1>1. UNCHANGED <<account, failed, codes, enroll_count, tickets, expired,
                  spent_tickets, token_null, commitments, nullifiers, counters,
                  minted, raced, faults, disturbed>>
  BY DEF Receive, enrollment, tree, history
<1>2. h \in Handler /\ l \in Login /\ h.step \in 1 .. 5 /\ h.at = "ok"
  BY HandlerFacts DEF Receive, IInv, TypeOK
<1>3. step[l] = h.step /\ l \notin failed
  BY DEF Receive, Waiting
<1>4. /\ step' = [step EXCEPT ![l] = @ + 1]
      /\ root' = IF At(h.step) = "proof"
                 THEN [root EXCEPT ![l] = h.read] ELSE root
      /\ handlers' = (handlers \ Answers(l)) \cup
                       {Request(l, s) : s \in {h.step + 1} \cap Step}
  BY <1>2 DEF Receive
<1>5. /\ new.login = l /\ new.step = h.step + 1 /\ new.at = "arrived"
      /\ h.step + 1 \in Step => new \in Handler
  BY <1>2, MembershipAssumption DEF Request, Handler
<1>6. \A g \in handlers' : \/ g \in handlers /\ g # h
                           \/ g = new /\ h.step + 1 \in Step
  BY <1>2, <1>4 DEF Answers
<1> HIDE DEF l, new
<1>7. /\ step' \in [Login -> 0 .. Done] /\ step'[l] = h.step + 1
      /\ \A m \in Login \ {l} : step'[m] = step[m]
  BY <1>2, <1>3, <1>4, Routes DEF IInv, TypeOK
<1>8. Passed(l, h.step + 1) /\ Before(l, h.step)
  BY <1>2, <1>3 DEF l, IInv, Progress
<1>9. /\ root' \in [Login -> Nat]
      /\ h.step = 4 => root'[l] = h.read
      /\ \A m \in Login \ {l} : root'[m] = root[m]
  <2>1. At(h.step) = "proof" <=> h.step = 4
    BY AtStep DEF IInv
  <2>2. h.step = 4 => h.read \in Nat
    BY <1>2 DEF IInv, Places
  <2> QED BY <1>2, <1>4, <2>1, <2>2 DEF IInv, TypeOK
<1>10. \A m, n : (Passed(m, n)' <=> Passed(m, n))
                 /\ (Before(m, n)' <=> Before(m, n))
  BY <1>1 DEF Passed, Before
<1>11. TypeOK'
  BY <1>1, <1>5, <1>6, <1>7, <1>9 DEF IInv, TypeOK
<1>12. Places'
  BY <1>5, <1>6 DEF IInv, Places
<1>13. Begun'
  BY <1>1, <1>2, <1>3, <1>7 DEF IInv, Begun, TypeOK
<1>14. Progress'
  <2>1. \A m \in Login : Passed(m, step'[m]) /\ Before(m, step'[m])
    <3>1. Passed(l, step'[l]) /\ Before(l, step'[l])
      BY <1>2, <1>7, <1>8 DEF Before
    <3> QED BY <1>7, <3>1 DEF IInv, Progress
  <2>2. ASSUME NEW g \in handlers' PROVE g.step <= step'[g.login]
    <3>1. CASE g = new
      BY <1>2, <1>5, <1>7, <3>1
    <3>2. CASE g \in handlers
      <4>1. g.login \in Login /\ g.step \in 1 .. 5 /\ g.step <= step[g.login]
        BY <3>2, HandlerFacts DEF IInv, TypeOK, Progress
      <4> QED BY <1>2, <1>3, <1>7, <4>1
    <3> QED BY <1>6, <3>1, <3>2
  <2>3. \A g \in handlers' : g.at = "ok" => Passed(g.login, g.step + 1)
    BY <1>5, <1>6 DEF IInv, Progress
  <2> QED BY <1>10, <2>1, <2>2, <2>3 DEF Progress
<1>15. Spending'
  BY <1>1, <1>5, <1>6, <1>10 DEF IInv, Spending
<1>16. Counting'
  BY <1>1, <1>5, <1>6 DEF IInv, Counting, Of, Total
<1>17. Alone'
  BY <1>1, <1>5, <1>6 DEF IInv, Alone, Writing, OverQuota, Total
<1>18. Reasons'
  <2>1. ASSUME NEW m \in Login, Excused(m) PROVE Excused(m)'
    BY <1>1, <2>1, ExcusedKept
  <2> QED BY <1>1, <1>5, <1>6, <2>1, HandlerFacts DEF IInv, TypeOK, Reasons
<1>19. Smooth'
  <2>1. \A g \in handlers : g # h /\ g.login = l => l \in disturbed
    BY DEF l, IInv, Smooth
  <2>2. \A f, g \in handlers' :
          f.login = g.login => f = g \/ g.login \in disturbed
    BY <1>5, <1>6, <2>1 DEF IInv, Smooth
  <2>3. ASSUME NEW g \in handlers', g.login \notin disturbed
        PROVE  /\ g.step = step'[g.login]
               /\ g.at = "arrived" => Before(g.login, g.step - 1)
               /\ g.at = "matched" => /\ counters["session"][g.login] = 0
                                      /\ g.login \notin nullifiers
               /\ g.at = "verified" => g.login \notin nullifiers
    <3>1. CASE g = new
      BY <1>2, <1>5, <1>7, <1>8, <3>1
    <3>2. CASE g \in handlers /\ g # h
      <4>1. g.login \in Login /\ g.login # l
        BY <2>1, <2>3, <3>2, HandlerFacts DEF IInv, TypeOK
      <4> QED BY <1>7, <2>3, <3>2, <4>1 DEF IInv, Smooth
    <3> QED BY <1>6, <3>1, <3>2
  <2> QED BY <1>1, <1>10, <2>2, <2>3 DEF Smooth
<1>20. Current'
  <2>1. Size' = Size
    BY <1>1 DEF Size
  <2>2. ASSUME NEW m \in Login, step'[m] = 5
        PROVE  m \in disturbed \/ root'[m] = Size
    <3>1. CASE m = l
      BY <1>2, <1>7, <1>9, <2>2, <3>1 DEF l, IInv, Current
    <3>2. CASE m # l
      BY <1>7, <1>9, <2>2, <3>2 DEF IInv, Current
    <3> QED BY <3>1, <3>2
  <2> QED BY <1>1, <1>5, <1>6, <2>1, <2>2 DEF IInv, Current
<1> QED
  BY <1>11, <1>12, <1>13, <1>14, <1>15, <1>16, <1>17, <1>18, <1>19, <1>20
     DEF IInv

-----------------------------------------------------------------------------
(* The invariant *)

LEMMA InitInv == Init => IInv
<1> SUFFICES ASSUME Init PROVE IInv
  OBVIOUS
<1>1. \A a : Of(a, tickets) = {}
  BY DEF Init, Of
<1>2. TypeOK
  BY FS_EmptySet, MembershipAssumption, Routes DEF Init, TypeOK
<1>3. Places /\ Begun /\ Progress /\ Spending
  BY DEF Init, Places, Begun, Progress, Spending, Passed, Before
<1>4. Counting /\ Alone
  BY <1>1, FS_EmptySet, MembershipAssumption
     DEF Init, Counting, Alone, Total
<1>5. Reasons /\ Smooth /\ Current
  BY DEF Init, Reasons, Smooth, Current
<1> QED BY <1>2, <1>3, <1>4, <1>5 DEF IInv

LEMMA StutterStep ==
  ASSUME IInv, UNCHANGED vars
  PROVE  IInv'
<1>1. UNCHANGED <<account, step, failed, root, handlers, codes, enroll_count,
                  tickets, expired, spent_tickets, token_null, commitments,
                  nullifiers, counters, minted, raced, faults, disturbed>>
  BY DEF vars, page, enrollment, tree, history
<1>2. TypeOK' /\ Places' /\ Begun' /\ Progress' /\ Spending'
  BY <1>1
     DEF IInv, TypeOK, Places, Begun, Progress, Spending, Passed, Before
<1>3. Counting' /\ Alone'
  BY <1>1 DEF IInv, Counting, Alone, Of, Total, Writing, OverQuota
<1>4. Reasons' /\ Smooth' /\ Current'
  BY <1>1 DEF IInv, Reasons, Excused, Smooth, Current, Before, Size
<1> QED BY <1>2, <1>3, <1>4 DEF IInv

LEMMA InvStep == IInv /\ [Next]_vars => IInv'
<1> SUFFICES ASSUME IInv, Next PROVE IInv'
  BY StutterStep
<1>1. CASE \E l \in Login : (\E a \in Account : Begin(l, a)) \/ Expire(l)
  BY <1>1, BeginStep, ExpireStep
<1>2. ASSUME NEW h \in handlers,
             \/ CallbackReads(h) \/ CallbackWrites(h) \/ Issue(h)
             \/ Insert(h) \/ ProofGate(h) \/ ProofRead(h)
             \/ SessionRoot(h) \/ SessionGate(h) \/ Spend(h) \/ Mint(h)
             \/ Receive(h) \/ Copy(h) \/ Lose(h)
      PROVE  IInv'
  BY <1>2, CallbackReadsStep, CallbackWritesStep, IssueStep, InsertStep,
     ProofGateStep, ProofReadStep, SessionRootStep, SessionGateStep, SpendStep,
     MintStep, ErrorStep, AnswerStep, CopyStep, LoseStep
<1> QED BY <1>1, <1>2 DEF Next

LEMMA Invariance == Spec => []IInv
BY InitInv, InvStep, PTL DEF Spec

-----------------------------------------------------------------------------
(* The properties *)

\* The tables and the requests have their types; in particular, every count is
\* a number and the tree is finite.
THEOREM MembershipTypes == Spec => []TypeOK
<1>1. IInv => TypeOK
  BY DEF IInv
<1> QED BY <1>1, Invariance, PTL

\* No account whose callbacks did not overlap has more tickets than its quota:
\* each ticket was counted, and each count was written over the one it was read
\* from, which was below the quota.
THEOREM QuotaHolds == Spec => []QuotaUnlessRaced
<1>1. IInv => QuotaUnlessRaced
  <2> SUFFICES ASSUME IInv, NEW a \in Account \ raced
               PROVE  Cardinality(Of(a, tickets)) <= ENROLL_QUOTA_MAX
    BY DEF QuotaUnlessRaced
  <2>1. Cardinality(Of(a, tickets)) \in Nat
    BY FS_CardinalityType DEF IInv, Counting
  <2>2. Total(a) \in Nat
    BY DEF IInv, TypeOK, Total
  <2>3. Cardinality(Of(a, tickets)) <= Total(a) /\ Total(a) <= ENROLL_QUOTA_MAX
    BY DEF IInv, Counting, Alone
  <2> QED BY <2>1, <2>2, <2>3, MembershipAssumption
<1> QED BY <1>1, Invariance, PTL

\* However requests are repeated, lost or overlapped, a nullifier has at most
\* one capability, and it goes back to a ticket, a redemption token and a leaf
\* of its own login, each spent once.
THEOREM SessionsAreBacked == Spec => []SessionsBacked
<1>1. IInv => SessionsBacked
  <2> SUFFICES ASSUME IInv PROVE SessionsBacked
    OBVIOUS
  <2>1. \A l \in Login : minted[l] <= 1
    BY DEF IInv, Spending
  <2>2. \A l \in Login : minted[l] > 0 =>
          l \in tickets \cap spent_tickets \cap token_null \cap nullifiers
    BY DEF IInv, Spending, Passed
  <2>3. \A a \in Account : Cardinality(Of(a, tickets)) <= Total(a)
    BY DEF IInv, Counting
  <2> QED BY <2>1, <2>2, <2>3 DEF SessionsBacked, Of, Total
<1> QED BY <1>1, Invariance, PTL

\* A login that nothing disturbed, of an account whose callbacks did not
\* overlap and that is below its quota, never fails: each of its requests finds
\* what the ones before have left, and is the first of its kind.
THEOREM FailuresHaveReasons == Spec => []FailsForAReason
<1>1. IInv => FailsForAReason
  BY DEF IInv, Reasons, Excused, FailsForAReason
<1> QED BY <1>1, Invariance, PTL

=============================================================================
