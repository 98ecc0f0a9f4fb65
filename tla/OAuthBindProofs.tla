-------------------------- MODULE OAuthBindProofs --------------------------
(* The safety of OAuthBind for any number of sessions, accounts, ids and    *)
(* concurrent requests.                                                     *)
EXTENDS OAuthBind, TLAPS

(* Before anything is bound, all holds.                                       *)
LEMMA InitBind == Init => BindInv
  BY DEF Init, BindInv, TypeOK, RequestStates, NoRow, Idle, Outcomes, Statuses, StepInv,
         Sound, StatusInv, OneClaim, Claims, Holds, SuccessIsBacked, AccountHasToken, Exists,
         Steps

(* What Becomes does to the requests.                                       *)
LEMMA BecomesFacts ==
  ASSUME req \in [Requests -> RequestStates],
         NEW q \in Requests, NEW r \in RequestStates, Becomes(q, r)
  PROVE  /\ req' \in [Requests -> RequestStates]
         /\ req'[q] = r
         /\ \A p \in Requests : p # q => req'[p] = req[p]
  BY DEF Becomes

Marked(r) == r.at \in {"tokening", "unaccount"}

(* A request changes its step, and nothing else changes but the record of   *)
(* accidents: it must hold what its next step needs, claim nothing, and     *)
(* leave no account without a token unrecorded.                             *)
LEMMA RequestMoves ==
  ASSUME BindInv, NEW q \in Requests, NEW r \in RequestStates, Becomes(q, r),
         Sound(r), \A i \in Ids : ~Claims(r, i),
         UNCHANGED <<session, late, account, token, used, granted, lapsed>>,
         mishaps \subseteq mishaps', mishaps' \subseteq Ids,
         Marked(req[q]) => req[q].i \in mishaps'
  PROVE  BindInv'
<1> USE DEF BindInv
<1>1. /\ req' \in [Requests -> RequestStates]
      /\ req'[q] = r
      /\ \A p \in Requests : p # q => req'[p] = req[p]
  BY BecomesFacts DEF TypeOK
<1>2. TypeOK'
  BY <1>1 DEF TypeOK
<1>3. StepInv'
  BY <1>1 DEF StepInv, Sound
<1>4. StatusInv'
  BY DEF StatusInv
<1>5. OneClaim'
  <2>1. \A p \in Requests, i \in Ids : Claims(req[p], i)' => Claims(req[p], i)
    BY <1>1 DEF Claims
  <2> QED
    BY <2>1 DEF OneClaim, Holds
<1>6. SuccessIsBacked'
  BY DEF SuccessIsBacked
<1>7. AccountHasToken'
  BY <1>1 DEF AccountHasToken, Exists, Handles, Marked
<1> QED
  BY <1>2, <1>3, <1>4, <1>5, <1>6, <1>7

(* The same when the accidents do not change either.                        *)
LEMMA QuietMove ==
  ASSUME BindInv, NEW q \in Requests, NEW r \in RequestStates, Becomes(q, r),
         Sound(r), \A i \in Ids : ~Claims(r, i), ~Marked(req[q]),
         UNCHANGED <<session, late, account, token, used, history>>
  PROVE  BindInv'
  BY RequestMoves DEF history, BindInv, TypeOK

(* What the invariant says of one request, at rest or failing.                *)
LEMMA StateFacts ==
  ASSUME BindInv, NEW q \in Requests
  PROVE  /\ req[q] \in RequestStates /\ Sound(req[q])
         /\ Idle \in RequestStates /\ Failing(q) \in RequestStates
         /\ Failing(q).s = req[q].s
         /\ Failing(q).at = "closing" /\ Failing(q).as = "failed"
         /\ \A i \in Ids : ~Claims(Idle, i) /\ ~Claims(Failing(q), i)
<1>1. req[q] \in RequestStates /\ Sound(req[q])
  BY DEF BindInv, TypeOK, StepInv
<1>2. Idle \in RequestStates /\ Idle.at = "idle"
  BY DEF RequestStates, Idle
<1> DEFINE r == [req[q] EXCEPT !.at = "closing", !.i = None, !.as = "failed"]
<1>3. r \in RequestStates
  BY <1>1 DEF RequestStates, Outcomes, Steps
<1>4. r.s = req[q].s /\ r.at = "closing" /\ r.as = "failed"
  BY <1>1 DEF RequestStates
<1>5. r = Failing(q)
  BY DEF Failing
<1> HIDE DEF r
<1> QED
  BY <1>1, <1>2, <1>3, <1>4, <1>5 DEF Claims

(* The beginnings of the handlers, and the steps that only move on.         *)
LEMMA CloseBind ==
  ASSUME BindInv, NEW q \in Requests, NEW s \in Sessions, req[q] = Idle,
         NEW o \in {"failed", "cancelled"}, Close(q, s, session[s].account, o),
         UNCHANGED <<session, late, account, token, used, history>>
  PROVE  BindInv'
<1> DEFINE r == [Idle EXCEPT !.at = "closing", !.s = s, !.i = session[s].account, !.as = o]
<1>1. /\ r \in RequestStates /\ r.at = "closing" /\ r.as = o /\ r.s = s
  BY StateFacts DEF BindInv, TypeOK, RequestStates, Outcomes, Idle, Steps
<1>2. Becomes(q, r)
  BY DEF Close
<1>3. ~Marked(req[q])
  BY DEF Marked, Idle
<1> HIDE DEF r
<1>4. Sound(r) /\ \A i \in Ids : ~Claims(r, i)
  BY <1>1 DEF Sound, Claims, Outcomes, Steps
<1> QED
  BY <1>1, <1>2, <1>3, <1>4, QuietMove

(* A bind starts with a session and claims nothing.                           *)
LEMMA BeginBindInv ==
  ASSUME BindInv, NEW q \in Requests, NEW s \in Sessions, BeginBind(q, s)
  PROVE  BindInv'
<1> DEFINE r == [Idle EXCEPT !.at = "exchanging", !.s = s]
<1>1. r \in RequestStates /\ r.at = "exchanging" /\ r.s = s
  BY StateFacts DEF RequestStates, Idle, Steps
<1>2. ~Marked(req[q]) /\ Becomes(q, r)
  BY DEF Marked, Idle, BeginBind
<1> HIDE DEF r
<1>3. Sound(r) /\ \A i \in Ids : ~Claims(r, i)
  BY <1>1 DEF Sound, Claims, Steps
<1> QED
  BY <1>1, <1>2, <1>3, QuietMove DEF BeginBind

(* The provider's answer is held by the request alone.                        *)
LEMMA ExchangeInv ==
  ASSUME BindInv, NEW q \in Requests, Exchange(q)
  PROVE  BindInv'
<1>1. PICK o \in OpenIds : Becomes(q, [req[q] EXCEPT !.at = "finding", !.o = o])
  BY DEF Exchange
<1> DEFINE r == [req[q] EXCEPT !.at = "finding", !.o = o]
<1>2. r \in RequestStates /\ r.at = "finding" /\ r.o = o /\ r.s = req[q].s
  BY StateFacts DEF RequestStates, Steps
<1>3. req[q].s \in Sessions /\ ~Marked(req[q])
  BY StateFacts DEF Marked, Exchange, At, Sound
<1> HIDE DEF r
<1>4. Sound(r) /\ \A i \in Ids : ~Claims(r, i)
  BY <1>2, <1>3 DEF Sound, Claims, Steps
<1>5. Becomes(q, r)
  BY <1>1 DEF r
<1> QED
  BY <1>2, <1>3, <1>4, <1>5, QuietMove DEF Exchange

(* An account found that is not bound has lapsed.                           *)
LEMMA FindExistingInv ==
  ASSUME BindInv, NEW q \in Requests, FindExisting(q)
  PROVE  BindInv'
<1>1. /\ At(q, "finding") /\ ~Marked(req[q])
      /\ UNCHANGED <<session, late, account, token, used, history>>
  BY DEF FindExisting, Marked, At
<1>2. req[q].s \in Sessions /\ req[q].o \in OpenIds
  BY <1>1, StateFacts DEF At, Sound, Steps
<1>3. \/ Becomes(q, Failing(q))
      \/ \E i \in Ids \cup {None} :
            /\ i = None \/ (Owner(req[q].o) # {} /\ i \in Owner(req[q].o)
                             /\ account[i].status # "bound")
            /\ Becomes(q, [req[q] EXCEPT !.at = "saving", !.i = i])
  BY DEF FindExisting, Owner
<1>4. CASE Becomes(q, Failing(q))
  <2>1. Sound(Failing(q))
    BY <1>2, StateFacts DEF Sound, Outcomes, Steps
  <2> QED
    BY <1>1, <1>4, <2>1, StateFacts, QuietMove
<1>5. ASSUME NEW i \in Ids \cup {None},
             i = None \/ (i \in Owner(req[q].o) /\ account[i].status # "bound"),
             Becomes(q, [req[q] EXCEPT !.at = "saving", !.i = i])
      PROVE  BindInv'
  <2> DEFINE r == [req[q] EXCEPT !.at = "saving", !.i = i]
  <2>1. /\ r \in RequestStates /\ r.at = "saving" /\ r.i = i
        /\ r.s = req[q].s /\ r.o = req[q].o
    BY StateFacts DEF RequestStates, Steps
  <2>2. i = None \/ i \in used \cap lapsed
    BY <1>2, <1>5, OAuthBindAssumption DEF Owner, BindInv, TypeOK, StatusInv
  <2>3. Becomes(q, r)
    BY <1>5
  <2> HIDE DEF r
  <2>4. Sound(r) /\ \A j \in Ids : ~Claims(r, j)
    BY <1>2, <2>1, <2>2 DEF Sound, Claims, Steps
  <2> QED
    BY <1>1, <2>1, <2>3, <2>4, QuietMove
<1> QED
  BY <1>3, <1>4, <1>5

(* A bind that fails gives its claim up; its session will say failed.         *)
LEMMA FailingInv ==
  ASSUME BindInv, NEW q \in Requests, BindFails(q) \/ CloseFails(q)
  PROVE  BindInv'
<1>1. CASE BindFails(q)
  <2>1. req[q].s \in Sessions /\ (Marked(req[q]) => At(q, "tokening"))
    BY <1>1, StateFacts DEF BindFails, Sound, Marked, At
  <2>2. Sound(Failing(q)) /\ Becomes(q, Failing(q))
    BY <1>1, <2>1, StateFacts DEF Sound, Outcomes, Steps, BindFails
  <2>3. At(q, "tokening") => req[q].i \in Ids
    BY StateFacts DEF At, Sound, BindInv, TypeOK
  <2>4. /\ mishaps \subseteq mishaps' /\ mishaps' \subseteq Ids
        /\ Marked(req[q]) => req[q].i \in mishaps'
    BY <1>1, <2>1, <2>3 DEF BindFails, BindInv, TypeOK
  <2> QED
    BY <1>1, <2>2, <2>4, StateFacts, RequestMoves DEF BindFails
<1>2. CASE CloseFails(q)
  <2> DEFINE r == [req[q] EXCEPT !.as = "failed"]
  <2>1. r \in RequestStates /\ r.at = "closing" /\ r.as = "failed" /\ r.s = req[q].s
    BY <1>2, StateFacts DEF CloseFails, At, RequestStates, Outcomes
  <2>2. req[q].s \in Sessions /\ ~Marked(req[q]) /\ Becomes(q, r)
    BY <1>2, StateFacts DEF CloseFails, At, Sound, Marked
  <2> HIDE DEF r
  <2>3. Sound(r) /\ \A i \in Ids : ~Claims(r, i)
    BY <2>1, <2>2 DEF Sound, Claims, Outcomes, Steps
  <2> QED
    BY <1>2, <2>1, <2>2, <2>3, QuietMove DEF CloseFails
<1> QED
  BY <1>1, <1>2

(* A handler of accounts that found its row holds an id that was used.        *)
LEMMA FindAccountInv ==
  ASSUME BindInv, NEW q \in Requests, NEW i \in Ids, NEW r \in RequestStates,
         r.at \in {"untoken", "editing", "renewing"},
         r.at # "untoken" => r.as \in Statuses, FindAccount(q, i, r)
  PROVE  BindInv'
<1> DEFINE n == [r EXCEPT !.i = i, !.o = account[i].openId]
<1>1. account[i].openId \in OpenIds /\ i \in used
  BY DEF FindAccount, Exists, BindInv, TypeOK
<1>2. /\ n \in RequestStates /\ n.at = r.at /\ n.i = i
      /\ n.o = account[i].openId /\ n.as = r.as
  BY <1>1 DEF RequestStates
<1>3. ~Marked(req[q]) /\ Becomes(q, n)
  BY DEF FindAccount, Marked, Idle
<1> HIDE DEF n
<1>4. Sound(n) /\ \A j \in Ids : ~Claims(n, j)
  BY <1>1, <1>2 DEF Sound, Claims, Steps
<1> QED
  BY <1>2, <1>3, <1>4, QuietMove DEF FindAccount

(* So do unbindAccount, the edits and the renewal of a token.                 *)
LEMMA BeginInv ==
  ASSUME BindInv, NEW q \in Requests, NEW i \in Ids,
         BeginUnbind(q, i) \/ BeginEdit(q, i) \/ BeginRenew(q, i)
  PROVE  BindInv'
<1>1. CASE BeginUnbind(q, i)
  <2> DEFINE r == [Idle EXCEPT !.at = "untoken"]
  <2>1. r \in RequestStates /\ r.at = "untoken"
    BY StateFacts DEF RequestStates, Idle, Steps
  <2> QED
    BY <1>1, <2>1, FindAccountInv DEF BeginUnbind
<1>2. CASE BeginEdit(q, i)
  <2>1. PICK st \in Statuses : FindAccount(q, i, [Idle EXCEPT !.at = "editing", !.as = st])
    BY <1>2 DEF BeginEdit
  <2> DEFINE r == [Idle EXCEPT !.at = "editing", !.as = st]
  <2>2. r \in RequestStates /\ r.at = "editing" /\ r.as = st
    BY StateFacts DEF RequestStates, Idle, Steps
  <2> QED
    BY <2>1, <2>2, FindAccountInv
<1>3. CASE BeginRenew(q, i)
  <2> DEFINE r == [Idle EXCEPT !.at = "renewing", !.as = "bound"]
  <2>1. r \in RequestStates /\ r.at = "renewing" /\ r.as \in Statuses
    BY StateFacts DEF RequestStates, Idle, Steps, Statuses
  <2> QED
    BY <1>3, <2>1, FindAccountInv DEF BeginRenew
<1> QED
  BY <1>1, <1>2, <1>3

(* A request that dies claims nothing any more.                               *)
LEMMA RequestDiesInv ==
  ASSUME BindInv, NEW q \in Requests, RequestDies(q)
  PROVE  BindInv'
<1>1. Marked(req[q]) => req[q].i \in Ids
  BY StateFacts DEF Marked, Sound, BindInv, TypeOK
<1>2. /\ mishaps \subseteq mishaps' /\ mishaps' \subseteq Ids
      /\ Marked(req[q]) => req[q].i \in mishaps'
  BY <1>1 DEF RequestDies, Marked, BindInv, TypeOK
<1>3. Sound(Idle) /\ Becomes(q, Idle)
  BY DEF Sound, Idle, RequestDies, Ends, Steps
<1> QED
  BY <1>2, <1>3, StateFacts, RequestMoves DEF RequestDies

----------------------------------------------------------------------------
(* Steps that change sessions only: no session becomes a success but by the *)
(* request that claims its account.                                         *)
LEMMA SessionSteps ==
  ASSUME BindInv,
         \/ \E s \in Sessions : StartBind(s) \/ Elapse(s)
         \/ RefreshPlatforms
  PROVE  BindInv'
<1> USE DEF BindInv
<1>1. /\ session' \in [Sessions -> [status : {"none", "pending"} \cup Outcomes,
                                    account : Ids \cup {None}]]
      /\ \A s \in Sessions : session'[s].status = "success" => session'[s] = session[s]
  <2>1. ASSUME NEW s \in Sessions, StartBind(s)
        PROVE  <1>1
    <3> DEFINE n == [session[s] EXCEPT !.status = "pending"]
    <3>1. /\ n \in [status : {"none", "pending"} \cup Outcomes, account : Ids \cup {None}]
          /\ n.status = "pending"
      BY DEF TypeOK
    <3>2. session' = [session EXCEPT ![s] = n]
      BY <2>1 DEF StartBind
    <3> HIDE DEF n
    <3> QED
      BY <3>1, <3>2 DEF TypeOK
  <2>2. ASSUME NEW s \in Sessions, Elapse(s)
        PROVE  <1>1
    BY <2>2 DEF Elapse, TypeOK
  <2>3. CASE RefreshPlatforms
    <3>1. \A s \in Sessions :
            /\ [session[s] EXCEPT !.status = "cancelled"]
                 \in [status : {"none", "pending"} \cup Outcomes, account : Ids \cup {None}]
            /\ [session[s] EXCEPT !.status = "cancelled"].status = "cancelled"
      BY DEF TypeOK, Outcomes
    <3> QED
      BY <2>3, <3>1 DEF RefreshPlatforms, TypeOK
  <2> QED
    BY <2>1, <2>2, <2>3
<1>2. /\ UNCHANGED <<account, token, req, used, granted, lapsed, mishaps>>
      /\ late \subseteq Sessions => late' \subseteq Sessions
  BY DEF StartBind, Elapse, RefreshPlatforms, history
<1>3. TypeOK'
  BY <1>1, <1>2 DEF TypeOK
<1>4. StepInv' /\ StatusInv' /\ AccountHasToken'
  BY <1>2 DEF StepInv, Sound, StatusInv, AccountHasToken, Exists, Handles
<1>5. OneClaim' /\ SuccessIsBacked'
  BY <1>1, <1>2 DEF OneClaim, Claims, Holds, SuccessIsBacked
<1> QED
  BY <1>3, <1>4, <1>5

(* The request ends, its claim becomes the session's.                       *)
LEMMA SaveSessionInv ==
  ASSUME BindInv, NEW q \in Requests, SaveSession(q)
  PROVE  BindInv'
<1> USE DEF BindInv
<1> DEFINE s == req[q].s
           n == [status |-> req[q].as, account |-> req[q].i]
<1>1. /\ req[q].at = "closing" /\ s \in Sessions /\ req[q].as \in Outcomes
      /\ req[q].as = "success" => req[q].i \in granted
      /\ req[q].i \in Ids \cup {None}
  BY StateFacts DEF SaveSession, At, Sound, RequestStates
<1>2. /\ n \in [status : {"none", "pending"} \cup Outcomes, account : Ids \cup {None}]
      /\ n.status = req[q].as /\ n.account = req[q].i
      /\ session' = [session EXCEPT ![s] = n]
  BY <1>1 DEF SaveSession
<1>3. /\ req' \in [Requests -> RequestStates] /\ req'[q] = Idle
      /\ \A p \in Requests : p # q => req'[p] = req[p]
  BY StateFacts, BecomesFacts DEF SaveSession, Ends, TypeOK
<1>4. UNCHANGED <<late, account, token, used, granted, lapsed, mishaps>>
  BY DEF SaveSession, history
<1> HIDE DEF n, s
<1>5. TypeOK'
  BY <1>1, <1>2, <1>3, <1>4 DEF TypeOK
<1>6. StepInv' /\ StatusInv'
  BY <1>3, <1>4, StateFacts DEF StepInv, Sound, StatusInv, Idle, Steps
<1>7. \A p \in Requests, i \in Ids : Claims(req[p], i)' => p # q /\ Claims(req[p], i)
  BY <1>3, StateFacts DEF Claims, Idle
<1>8. \A t \in Sessions, i \in Ids :
        Holds(t, i)' => \/ t # s /\ Holds(t, i)
                        \/ t = s /\ Claims(req[q], i)
  BY <1>1, <1>2 DEF Holds, Claims, TypeOK
<1>9. OneClaim'
  BY <1>4, <1>7, <1>8 DEF OneClaim
<1>10. SuccessIsBacked'
  BY <1>1, <1>2, <1>4 DEF SuccessIsBacked, TypeOK
<1>11. AccountHasToken'
  BY <1>1, <1>3, <1>4 DEF AccountHasToken, Exists, Handles
<1> QED
  BY <1>5, <1>6, <1>9, <1>10, <1>11

----------------------------------------------------------------------------
(* Steps that write accounts or tokens.  The records of ids only grow, so   *)
(* what the other requests hold stays sound.                                *)
LEMMA SoundGrows ==
  ASSUME BindInv, NEW q \in Requests, NEW r \in RequestStates, Becomes(q, r),
         used \subseteq used', lapsed \subseteq lapsed', granted \subseteq granted',
         granted' \subseteq used', Sound(r)'
  PROVE  StepInv'
<1>1. /\ req' \in [Requests -> RequestStates] /\ req'[q] = r
      /\ \A p \in Requests : p # q => req'[p] = req[p]
  BY BecomesFacts DEF BindInv, TypeOK
<1>2. ASSUME NEW p \in Requests, p # q
      PROVE  Sound(req[p])'
  BY <1>1, <1>2, StateFacts DEF Sound
<1>3. Sound(req[q])'
  BY <1>1 DEF Sound
<1> QED
  BY <1>2, <1>3 DEF StepInv

(* Claims only go away.                                                     *)
LEMMA ClaimsGo ==
  ASSUME BindInv, UNCHANGED session, lapsed \subseteq lapsed',
         \A p \in Requests, i \in Ids : Claims(req[p], i)' => Claims(req[p], i)
  PROVE  OneClaim'
  BY DEF BindInv, OneClaim, Holds

(* Sessions that say success stay backed while none changes.                  *)
LEMMA Successes ==
  ASSUME BindInv, UNCHANGED session, granted \subseteq granted'
  PROVE  SuccessIsBacked'
  BY DEF BindInv, SuccessIsBacked

(* save() of an account: the request is its one claimant, as a new id has none *)
(* and one that was found has lapsed.                                         *)
LEMMA SaveAccountInv ==
  ASSUME BindInv, NEW q \in Requests, SaveAccount(q)
  PROVE  BindInv'
<1> USE DEF BindInv
<1>1. /\ req[q].at = "saving" /\ req[q].s \in Sessions /\ req[q].o \in OpenIds
      /\ req[q].i = None \/ req[q].i \in used \cap lapsed
  BY StateFacts DEF SaveAccount, At, Sound, Steps
<1>2. PICK i \in IF req[q].i # None THEN {req[q].i} ELSE Ids \ used :
          IF Owner(req[q].o) \subseteq {i}
            THEN /\ account' = [account EXCEPT ![i] = [openId |-> req[q].o,
                                                       status |-> "bound"]]
                 /\ used' = used \cup {i}
                 /\ Becomes(q, [req[q] EXCEPT !.at = "tokening", !.i = i])
            ELSE Becomes(q, Failing(q)) /\ UNCHANGED <<account, used>>
  BY DEF SaveAccount
<1>3. i \in Ids /\ (i \in used => i \in lapsed)
  BY <1>1, <1>2 DEF TypeOK
<1>4. UNCHANGED <<session, late, token, granted, lapsed, mishaps>>
  BY DEF SaveAccount, history
<1>5. CASE Owner(req[q].o) \subseteq {i}
  <2> DEFINE n == [openId |-> req[q].o, status |-> "bound"]
  <2>0. PICK r : r = [req[q] EXCEPT !.at = "tokening", !.i = i]
    OBVIOUS
  <2>1. r \in RequestStates /\ r.at = "tokening" /\ r.i = i /\ r.s = req[q].s /\ r.o = req[q].o
    BY <1>3, <2>0, StateFacts DEF RequestStates, Steps
  <2>2. /\ n \in [openId : OpenIds \cup {None}, status : Statuses]
        /\ n.openId = req[q].o /\ n.openId # None /\ n.status = "bound"
    BY <1>1, OAuthBindAssumption DEF Statuses
  <2>3. account' = [account EXCEPT ![i] = n] /\ used' = used \cup {i} /\ Becomes(q, r)
    BY <1>2, <1>5, <2>0
  <2> HIDE DEF n
  <2>4. /\ req' \in [Requests -> RequestStates] /\ req'[q] = r
        /\ \A p \in Requests : p # q => req'[p] = req[p]
    BY <2>1, <2>3, BecomesFacts DEF TypeOK
  <2>5. account' \in [Ids -> [openId : OpenIds \cup {None}, status : Statuses]]
    BY <2>2, <2>3 DEF TypeOK
  <2>6. TypeOK'
    BY <1>3, <1>4, <2>2, <2>3, <2>4, <2>5 DEF TypeOK
  <2>7. Sound(r)'
    BY <1>1, <2>1, <2>3, <1>4 DEF Sound, Steps
  <2>8. StepInv'
    <3>1. granted' \subseteq used'
      BY <1>4, <2>3 DEF StepInv
    <3> QED
      BY <1>4, <2>1, <2>3, <2>7, <3>1, SoundGrows
  <2>9. StatusInv'
    BY <1>3, <1>4, <2>2, <2>3 DEF StatusInv, TypeOK
  <2>10. OneClaim'
    <3>1. \A p \in Requests : Claims(req[p], i) => i \in used
      BY StateFacts DEF Claims, Sound, StepInv
    <3>2. \A s \in Sessions : Holds(s, i) => i \in used
      BY DEF Holds, SuccessIsBacked, StepInv
    <3>3. \A p \in Requests, j \in Ids :
            Claims(req[p], j)' => Claims(req[p], j) \/ (p = q /\ j = i)
      BY <2>1, <2>4 DEF Claims
    <3>4. ASSUME i \notin lapsed
          PROVE  /\ \A p \in Requests : ~Claims(req[p], i)
                 /\ \A s \in Sessions : ~Holds(s, i)
      BY <1>3, <3>1, <3>2, <3>4
    <3> QED
      BY <1>4, <3>3, <3>4 DEF OneClaim, Holds
  <2>11. AccountHasToken'
    BY <1>1, <1>4, <2>1, <2>2, <2>3, <2>4 DEF AccountHasToken, Exists, Handles, TypeOK
  <2> QED
    BY <1>4, <2>6, <2>8, <2>9, <2>10, <2>11, Successes
<1>6. CASE ~(Owner(req[q].o) \subseteq {i})
  <2>1. Sound(Failing(q)) /\ ~Marked(req[q])
    BY <1>1, StateFacts DEF Sound, Outcomes, Steps, Marked
  <2>2. Becomes(q, Failing(q)) /\ UNCHANGED <<account, used>>
    BY <1>2, <1>6
  <2> QED
    BY <1>4, <2>1, <2>2, StateFacts, QuietMove DEF history
<1> QED
  BY <1>5, <1>6

(* The token of the account that is claimed: its session may say success.     *)
LEMMA SaveTokenInv ==
  ASSUME BindInv, NEW q \in Requests, SaveToken(q)
  PROVE  BindInv'
<1> USE DEF BindInv
<1>1. /\ req[q].at = "tokening" /\ req[q].s \in Sessions
      /\ req[q].i \in used /\ req[q].i \in Ids
      /\ UNCHANGED <<session, late, account, used, lapsed>>
  BY StateFacts DEF SaveToken, At, Sound, TypeOK
<1>2. CASE Exists(req[q].i)
  <2>1. PICK r : r = [req[q] EXCEPT !.at = "closing", !.as = "success"]
    OBVIOUS
  <2>2. /\ r \in RequestStates /\ r.at = "closing" /\ r.as = "success"
        /\ r.i = req[q].i /\ r.s = req[q].s
    BY <2>1, StateFacts DEF RequestStates, Steps, Outcomes
  <2>3. /\ Becomes(q, r)
        /\ token' = token \cup {req[q].i} /\ granted' = granted \cup {req[q].i}
        /\ mishaps' = mishaps \ {req[q].i}
    BY <1>2, <2>1 DEF SaveToken
  <2>4. /\ req' \in [Requests -> RequestStates] /\ req'[q] = r
        /\ \A p \in Requests : p # q => req'[p] = req[p]
    BY <2>2, <2>3, BecomesFacts DEF TypeOK
  <2>5. TypeOK'
    BY <1>1, <1>2, <2>3, <2>4 DEF TypeOK, Exists
  <2>6. StepInv'
    <3>1. Sound(r)'
      BY <1>1, <2>2, <2>3 DEF Sound, Steps, Outcomes
    <3>2. granted' \subseteq used'
      BY <1>1, <2>3 DEF StepInv
    <3> QED
      BY <1>1, <2>2, <2>3, <3>1, <3>2, SoundGrows
  <2>7. StatusInv'
    BY <1>1 DEF StatusInv
  <2>8. OneClaim'
    <3>1. \A p \in Requests, i \in Ids : Claims(req[p], i)' => Claims(req[p], i)
      BY <1>1, <2>2, <2>4 DEF Claims
    <3> QED
      BY <1>1, <3>1, ClaimsGo
  <2>9. AccountHasToken'
    BY <1>1, <2>3, <2>4 DEF AccountHasToken, Exists, Handles
  <2> QED
    BY <1>1, <2>3, <2>5, <2>6, <2>7, <2>8, <2>9, Successes
<1>3. CASE ~Exists(req[q].i)
  <2>1. /\ Becomes(q, Failing(q)) /\ Sound(Failing(q))
        /\ UNCHANGED <<token, granted, mishaps>>
    BY <1>1, <1>3, StateFacts DEF SaveToken, Sound, Outcomes, Steps
  <2>2. PICK r : r = Failing(q)
    OBVIOUS
  <2>3. /\ req' \in [Requests -> RequestStates] /\ req'[q] = r
        /\ r.at = "closing" /\ r.as = "failed" /\ r.s = req[q].s /\ r \in RequestStates
        /\ \A p \in Requests : p # q => req'[p] = req[p]
    BY <2>1, <2>2, StateFacts, BecomesFacts DEF TypeOK
  <2>4. TypeOK'
    BY <1>1, <2>1, <2>3 DEF TypeOK
  <2>5. StepInv' /\ StatusInv'
    BY <1>1, <2>1, <2>3 DEF StepInv, StatusInv, Sound, Outcomes, Steps
  <2>6. OneClaim'
    <3>1. \A p \in Requests, i \in Ids : Claims(req[p], i)' => Claims(req[p], i)
      BY <2>3 DEF Claims
    <3> QED
      BY <1>1, <3>1, ClaimsGo
  <2>7. AccountHasToken'
    BY <1>1, <1>3, <2>1, <2>3 DEF AccountHasToken, Exists, Handles
  <2> QED
    BY <1>1, <2>1, <2>4, <2>5, <2>6, <2>7, Successes
<1> QED
  BY <1>2, <1>3

(* The steps of unbindAccount: while the account has lost its token, the    *)
(* request is at "unaccount".                                               *)
LEMMA UnbindInv ==
  ASSUME BindInv, NEW q \in Requests, UnbindToken(q) \/ UnbindAccount(q)
  PROVE  BindInv'
<1> USE DEF BindInv
<1>1. CASE UnbindToken(q)
  <2>1. PICK r : r = [req[q] EXCEPT !.at = "unaccount"]
    OBVIOUS
  <2>2. /\ req[q].at = "untoken" /\ req[q].i \in used /\ req[q].o \in OpenIds
        /\ r \in RequestStates /\ r.at = "unaccount"
        /\ r.i = req[q].i /\ r.o = req[q].o /\ Becomes(q, r)
    BY <1>1, <2>1, StateFacts DEF UnbindToken, At, Sound, Steps, RequestStates, Moves
  <2>3. /\ req' \in [Requests -> RequestStates] /\ req'[q] = r
        /\ \A p \in Requests : p # q => req'[p] = req[p]
    BY <2>2, BecomesFacts DEF TypeOK
  <2>4. /\ token' = token \ {req[q].i}
        /\ UNCHANGED <<session, late, account, used, granted, lapsed, mishaps>>
    BY <1>1 DEF UnbindToken, history
  <2>5. TypeOK'
    BY <2>3, <2>4 DEF TypeOK
  <2>6. StepInv' /\ StatusInv'
    <3>1. Sound(r)'
      BY <2>2, <2>4 DEF Sound, Steps
    <3> QED
      BY <2>2, <2>4, <3>1, SoundGrows DEF StatusInv, StepInv
  <2>7. OneClaim'
    <3>1. \A p \in Requests, i \in Ids : Claims(req[p], i)' => Claims(req[p], i)
      BY <2>2, <2>3 DEF Claims
    <3> QED
      BY <2>4, <3>1, ClaimsGo
  <2>8. AccountHasToken'
    BY <2>2, <2>3, <2>4 DEF AccountHasToken, Exists, Handles
  <2> QED
    BY <2>4, <2>5, <2>6, <2>7, <2>8, Successes
<1>2. CASE UnbindAccount(q)
  <2>1. /\ req[q].at = "unaccount" /\ req[q].i \in Ids /\ req[q].i \in used
    BY <1>2, StateFacts DEF UnbindAccount, At, Sound, TypeOK
  <2>2. /\ account' = [account EXCEPT ![req[q].i] = NoRow]
        /\ token' = token \ {req[q].i}
        /\ lapsed' = lapsed \cup {req[q].i} /\ mishaps' = mishaps \ {req[q].i}
        /\ UNCHANGED <<session, late, used, granted>> /\ Becomes(q, Idle)
    BY <1>2 DEF UnbindAccount, Ends
  <2>3. /\ req' \in [Requests -> RequestStates] /\ req'[q] = Idle
        /\ \A p \in Requests : p # q => req'[p] = req[p]
    BY <2>2, StateFacts, BecomesFacts DEF TypeOK
  <2>4. /\ NoRow \in [openId : OpenIds \cup {None}, status : Statuses]
        /\ NoRow.openId = None /\ NoRow.status = "bound"
    BY DEF NoRow, Statuses
  <2>5. /\ account' \in [Ids -> [openId : OpenIds \cup {None}, status : Statuses]]
        /\ account'[req[q].i] = NoRow
        /\ \A i \in Ids : i # req[q].i => account'[i] = account[i]
    BY <2>1, <2>2, <2>4 DEF TypeOK
  <2>6. TypeOK'
    BY <2>1, <2>2, <2>3, <2>4, <2>5 DEF TypeOK
  <2>7. StepInv'
    <3>1. Sound(Idle)'
      BY DEF Sound, Idle, Steps
    <3>2. granted' \subseteq used'
      BY <2>2 DEF StepInv
    <3> QED
      BY <2>2, <3>1, <3>2, StateFacts, SoundGrows
  <2>8. StatusInv'
    BY <2>2, <2>4, <2>5 DEF StatusInv
  <2>9. OneClaim'
    <3>1. \A p \in Requests, i \in Ids : Claims(req[p], i)' => Claims(req[p], i)
      BY <2>3, StateFacts DEF Claims, Idle
    <3> QED
      BY <2>2, <3>1, ClaimsGo
  <2>10. AccountHasToken'
    BY <2>1, <2>2, <2>3, <2>4, <2>5 DEF AccountHasToken, Exists, Handles
  <2> QED
    BY <2>2, <2>6, <2>7, <2>8, <2>9, <2>10, Successes
<1> QED
  BY <1>1, <1>2

(* A renewed token is that of an account that is there.                       *)
LEMMA RenewTokenInv ==
  ASSUME BindInv, NEW q \in Requests, RenewToken(q)
  PROVE  BindInv'
<1> USE DEF BindInv
<1>1. /\ req[q].at = "renewing" /\ req[q].o \in OpenIds /\ req[q].as \in Statuses
      /\ req[q].i \in used /\ req[q].i \in Ids
      /\ UNCHANGED <<session, late, account, used, lapsed>>
  BY StateFacts DEF RenewToken, At, Sound, TypeOK, Steps
<1>2. CASE Exists(req[q].i)
  <2>1. PICK r : r = [req[q] EXCEPT !.at = "editing"]
    OBVIOUS
  <2>2. /\ r \in RequestStates /\ r.at = "editing" /\ r.as = req[q].as
        /\ r.i = req[q].i /\ r.o = req[q].o
    BY <2>1, StateFacts DEF RequestStates, Steps
  <2>3. /\ Becomes(q, r)
        /\ token' = token \cup {req[q].i} /\ granted' = granted \cup {req[q].i}
        /\ mishaps' = mishaps \ {req[q].i}
    BY <1>2, <2>1 DEF RenewToken, Moves
  <2>4. /\ req' \in [Requests -> RequestStates] /\ req'[q] = r
        /\ \A p \in Requests : p # q => req'[p] = req[p]
    BY <2>2, <2>3, BecomesFacts DEF TypeOK
  <2>5. TypeOK'
    BY <1>1, <1>2, <2>3, <2>4 DEF TypeOK, Exists
  <2>6. StepInv'
    <3>1. Sound(r)'
      BY <1>1, <2>2, <2>3 DEF Sound, Steps
    <3>2. granted' \subseteq used'
      BY <1>1, <2>3 DEF StepInv
    <3> QED
      BY <1>1, <2>2, <2>3, <3>1, <3>2, SoundGrows
  <2>7. StatusInv'
    BY <1>1 DEF StatusInv
  <2>8. OneClaim'
    <3>1. \A p \in Requests, i \in Ids : Claims(req[p], i)' => Claims(req[p], i)
      BY <2>2, <2>4 DEF Claims
    <3> QED
      BY <1>1, <3>1, ClaimsGo
  <2>9. AccountHasToken'
    BY <1>1, <2>3, <2>4 DEF AccountHasToken, Exists, Handles
  <2> QED
    BY <1>1, <2>3, <2>5, <2>6, <2>7, <2>8, <2>9, Successes
<1>3. CASE ~Exists(req[q].i)
  <2>1. Sound(Idle) /\ ~Marked(req[q])
    BY <1>1 DEF Sound, Idle, Steps, Marked
  <2>2. Becomes(q, Idle) /\ UNCHANGED <<token, granted, mishaps>>
    BY <1>3 DEF RenewToken, Ends
  <2> QED
    BY <1>1, <2>1, <2>2, StateFacts, QuietMove DEF history
<1> QED
  BY <1>2, <1>3

(* An edit that inserts an unbound account again records the accident.      *)
LEMMA SaveEditInv ==
  ASSUME BindInv, NEW q \in Requests, SaveEdit(q)
  PROVE  BindInv'
<1> USE DEF BindInv
<1>1. /\ req[q].at = "editing" /\ req[q].o \in OpenIds /\ req[q].as \in Statuses
      /\ req[q].i \in used /\ req[q].i \in Ids
      /\ UNCHANGED <<session, late, token, used, granted>> /\ Becomes(q, Idle)
  BY StateFacts DEF SaveEdit, At, Sound, TypeOK, Steps, Ends
<1>2. Sound(Idle) /\ Sound(Idle)' /\ ~Marked(req[q])
  BY <1>1 DEF Sound, Idle, Steps, Marked
<1>3. CASE Owner(req[q].o) \subseteq {req[q].i}
  <2> DEFINE n == [openId |-> req[q].o, status |-> req[q].as]
  <2>1. /\ n \in [openId : OpenIds \cup {None}, status : Statuses]
        /\ n.openId = req[q].o /\ n.openId # None /\ n.status = req[q].as
    BY <1>1, OAuthBindAssumption
  <2>2. /\ account' = [account EXCEPT ![req[q].i] = n]
        /\ mishaps' = IF Exists(req[q].i) THEN mishaps ELSE mishaps \cup {req[q].i}
        /\ lapsed' = IF req[q].as = "bound" THEN lapsed ELSE lapsed \cup {req[q].i}
    BY <1>3 DEF SaveEdit
  <2> HIDE DEF n
  <2>3. /\ req' \in [Requests -> RequestStates] /\ req'[q] = Idle
        /\ \A p \in Requests : p # q => req'[p] = req[p]
    BY <1>1, StateFacts, BecomesFacts DEF TypeOK
  <2>4. /\ account' \in [Ids -> [openId : OpenIds \cup {None}, status : Statuses]]
        /\ account'[req[q].i] = n
        /\ \A i \in Ids : i # req[q].i => account'[i] = account[i]
    BY <1>1, <2>1, <2>2 DEF TypeOK
  <2>5. lapsed \subseteq lapsed' /\ mishaps \subseteq mishaps'
    BY <2>2
  <2>6. TypeOK'
    BY <1>1, <2>1, <2>2, <2>3, <2>4 DEF TypeOK
  <2>7. StepInv'
    <3>1. granted' \subseteq used'
      BY <1>1 DEF StepInv
    <3> QED
      BY <1>1, <1>2, <2>5, <3>1, StateFacts, SoundGrows
  <2>8. StatusInv'
    BY <1>1, <2>1, <2>2, <2>4 DEF StatusInv
  <2>9. OneClaim'
    <3>1. \A p \in Requests, i \in Ids : Claims(req[p], i)' => Claims(req[p], i)
      BY <2>3, StateFacts DEF Claims, Idle
    <3> QED
      BY <1>1, <2>5, <3>1, ClaimsGo
  <2>10. AccountHasToken'
    <3>1. \A p \in Requests, i \in Ids :
             Handles(p, i, {"tokening", "unaccount"})
               => p # q /\ Handles(p, i, {"tokening", "unaccount"})'
      BY <1>1, <2>3 DEF Handles
    <3> QED
      BY <1>1, <2>2, <2>4, <2>5, <3>1 DEF AccountHasToken, Exists
  <2> QED
    BY <1>1, <2>6, <2>7, <2>8, <2>9, <2>10, Successes
<1>4. CASE ~(Owner(req[q].o) \subseteq {req[q].i})
  <2>1. UNCHANGED <<account, mishaps, lapsed>>
    BY <1>4 DEF SaveEdit
  <2> QED
    BY <1>1, <1>2, <2>1, StateFacts, QuietMove DEF history
<1> QED
  BY <1>3, <1>4

----------------------------------------------------------------------------

(* Every step keeps the invariant.                                            *)
LEMMA NextBind == BindInv /\ [Next]_vars => BindInv'
<1> SUFFICES ASSUME BindInv, [Next]_vars PROVE BindInv'
  OBVIOUS
<1>1. CASE UNCHANGED vars
  BY <1>1 DEF vars, BindInv, TypeOK, StepInv, Sound, StatusInv, OneClaim, Claims, Holds,
              SuccessIsBacked, AccountHasToken, Exists, Handles
<1>2. CASE \/ \E s \in Sessions : StartBind(s) \/ Elapse(s)
           \/ RefreshPlatforms
  BY <1>2, SessionSteps
<1>3. ASSUME NEW q \in Requests, NEW s \in Sessions,
             BeginBind(q, s) \/ FindLate(q, s) \/ CallbackError(q, s)
      PROVE  BindInv'
  BY <1>3, BeginBindInv, CloseBind DEF FindLate, CallbackError
<1>4. ASSUME NEW q \in Requests, NEW i \in Ids,
             BeginUnbind(q, i) \/ BeginEdit(q, i) \/ BeginRenew(q, i)
      PROVE  BindInv'
  BY <1>4, BeginInv
<1>5. ASSUME NEW q \in Requests,
             \/ Exchange(q) \/ FindExisting(q) \/ SaveAccount(q) \/ SaveToken(q)
             \/ SaveSession(q) \/ BindFails(q) \/ CloseFails(q)
             \/ UnbindToken(q) \/ UnbindAccount(q) \/ RenewToken(q) \/ SaveEdit(q)
             \/ RequestDies(q)
      PROVE  BindInv'
  BY <1>5, ExchangeInv, FindExistingInv, SaveAccountInv, SaveTokenInv, SaveSessionInv,
     FailingInv, UnbindInv, RenewTokenInv, SaveEditInv, RequestDiesInv
<1> QED
  BY <1>1, <1>2, <1>3, <1>4, <1>5 DEF Next

(* The invariant holds in every reachable state.                            *)
THEOREM BindInvariance == Spec => []BindInv
  BY InitBind, NextBind, PTL DEF Spec

(* Every variable keeps its type, and no token outlives its account's row.  *)
THEOREM BindTypeCorrect == Spec => []TypeOK
<1>1. BindInv => TypeOK
  BY DEF BindInv
<1> QED
  BY <1>1, BindInvariance, PTL

(* saveBoundAccount, unbindAccount and save() of a held account: an account *)
(* lacks its token only in between, or after an accident.                   *)
THEOREM TokensPresent == Spec => []AccountHasToken
<1>1. BindInv => AccountHasToken
  BY DEF BindInv
<1> QED
  BY <1>1, BindInvariance, PTL

(* A session that says success names an account whose token was saved.      *)
THEOREM SuccessBacked == Spec => []SuccessIsBacked
<1>1. BindInv => SuccessIsBacked
  BY DEF BindInv
<1> QED
  BY <1>1, BindInvariance, PTL

(* The test for a bound account and the unique index together let one of    *)
(* several binds of an account succeed, until it expires or is unbound.     *)
THEOREM BoundByOne == Spec => []BoundOnce
<1>1. BindInv => BoundOnce
  <2> SUFFICES ASSUME BindInv, NEW s \in Sessions, NEW t \in Sessions,
                      session[s].status = "success", session[t].status = "success",
                      session[s].account = session[t].account,
                      session[s].account \notin lapsed
               PROVE  s = t
    BY DEF BoundOnce
  <2>1. session[s].account \in Ids \ lapsed
    BY DEF BindInv, SuccessIsBacked, TypeOK
  <2> QED
    BY <2>1 DEF BindInv, OneClaim, Holds
<1> QED
  BY <1>1, BindInvariance, PTL
=============================================================================
