----------------------------- MODULE SignInProofs -----------------------------
(* The safety of SignIn for any number of captchas, codes, passwords and     *)
(* concurrent requests.                                                     *)
EXTENDS SignIn, TLAPS

(* A request at rest has the shape of one and holds nothing.                  *)
LEMMA IdleType == Idle \in RequestStates /\ Idle.at = "idle" /\ Idle.op = "none" /\ Sound(Idle)
  BY DEF Idle, RequestStates, Ops, Steps, Sound

(* Before anybody is registered, all holds.                                   *)
LEMMA InitSign == Init => SignInv
<1> SUFFICES ASSUME Init PROVE SignInv
  OBVIOUS
<1>1. TypeOK
  <2>1. user \in [pw : Passwords \cup {None}, tv : Nat]
    BY DEF Init
  <2>2. store \in [Keys -> Tickets \cup {None}] /\ accepted \in [Tickets -> 0..2]
    BY DEF Init
  <2>3. req \in [Requests -> RequestStates]
    BY IdleType DEF Init
  <2> QED
    BY <2>1, <2>2, <2>3 DEF Init, TypeOK
<1>2. SoundInv /\ UserInv /\ OwnInv
  BY IdleType DEF Init, SoundInv, UserInv, OwnInv, At
<1>3. StoreInv
  <2>1. /\ \A k \in Keys : ~Stored(k)
        /\ \A p \in Purposes : p \in Keys
        /\ \A t \in Tickets : accepted[t] = 0
    BY DEF Init, Stored, Keys
  <2> QED
    BY <2>1 DEF StoreInv
<1>4. OldPasswordOut /\ GoodForOne /\ AccountHadCode
  BY DEF Init, OldPasswordOut, Accepted, GoodForOne, AccountHadCode, Registered
<1> QED
  BY <1>1, <1>2, <1>3, <1>4 DEF SignInv

(* What Becomes does to the requests.                                       *)
LEMMA BecomesFacts ==
  ASSUME req \in [Requests -> RequestStates],
         NEW q \in Requests, NEW r \in RequestStates, Becomes(q, r)
  PROVE  /\ req' \in [Requests -> RequestStates]
         /\ req'[q] = r
         /\ \A o \in Requests : o # q => req'[o] = req[o]
  BY DEF Becomes

(* A request moves, and neither Redis nor the user changes: what it leaves   *)
(* behind is recorded, a code it was about to delete as one that may be read *)
(* again, a reset it did not finish as half.                                *)
LEMMA RequestMoves ==
  ASSUME SignInv, NEW q \in Requests, NEW r \in RequestStates, Becomes(q, r),
         Sound(r), r.at # "reading",
         UNCHANGED <<user, tokens, redis, accepted>>,
         loose \subseteq loose', loose' \subseteq Tickets, half' \in BOOLEAN, half => half',
         At(q, "raising") /\ req[q].op = "reset" => half',
         At(q, "deleting") /\ Stored(req[q].key) => store[req[q].key] \in loose'
  PROVE  SignInv'
<1>1. /\ req' \in [Requests -> RequestStates]
      /\ req'[q] = r
      /\ \A o \in Requests : o # q => req'[o] = req[o]
  BY BecomesFacts DEF SignInv, TypeOK
<1>2. user' = user /\ tokens' = tokens /\ store' = store /\ cooldown' = cooldown
      /\ drawn' = drawn /\ accepted' = accepted
  BY DEF redis
<1>3. TypeOK'
  BY <1>1, <1>2 DEF SignInv, TypeOK
<1>4. ResetPending => ResetPending' \/ half'
  BY <1>1 DEF ResetPending, At
<1>5. ASSUME NEW s, Sound(s) PROVE Sound(s)'
  BY <1>2, <1>4, <1>5 DEF Sound, InForce, Registered, HadCode
<1>6. SoundInv'
  <2>1. Sound(r)'
    BY <1>5
  <2> QED
    BY <1>1, <1>5, <2>1 DEF SignInv, SoundInv
<1>7. UserInv' /\ OwnInv'
  BY <1>1, <1>2 DEF SignInv, UserInv, OwnInv, Registered, At
<1>8. StoreInv'
  <2>1. \A k \in Keys : Stored(k) /\ Reread(k) => Reread(k)'
    BY <1>1, <1>2 DEF Reread, At
  <2> QED
    BY <1>2, <2>1 DEF SignInv, StoreInv, Stored
<1>9. OldPasswordOut'
  BY <1>2, <1>4 DEF SignInv, OldPasswordOut, Accepted, ResetPending
<1>10. GoodForOne' /\ AccountHadCode'
  BY <1>2 DEF SignInv, GoodForOne, AccountHadCode, Registered
<1> QED
  BY <1>3, <1>6, <1>7, <1>8, <1>9, <1>10 DEF SignInv

(* sendCode looks at the user and at the cooldown, ...                        *)
LEMMA BeginSendSafe ==
  ASSUME SignInv, NEW q \in Requests, NEW p \in Purposes, BeginSend(q, p)
  PROVE  SignInv'
<1>1. PICK r : r = [Idle EXCEPT !.op = "send", !.at = "sending", !.key = p]
  OBVIOUS
<1>2. r \in RequestStates /\ r.at = "sending" /\ r.op = "send" /\ r.key = p
  BY <1>1, IdleType DEF RequestStates, Ops, Steps, Keys
<1>3. Sound(r)
  BY <1>2 DEF Sound
<1>4. req[q].at = "idle" /\ req[q].op = "none"
  BY IdleType DEF BeginSend
<1>5. Becomes(q, r)
  BY <1>1 DEF BeginSend
<1> QED
  BY <1>2, <1>3, <1>4, <1>5, RequestMoves DEF BeginSend, history, At, SignInv, TypeOK

(* ... a wrong captcha is read as a right one is.                             *)
LEMMA BeginMissSafe ==
  ASSUME SignInv, NEW q \in Requests, NEW k \in Captchas, BeginMiss(q, k)
  PROVE  SignInv'
<1>1. PICK r : r = [Idle EXCEPT !.op = "miss", !.at = "deleting", !.key = k]
  OBVIOUS
<1>2. r \in RequestStates /\ r.at = "deleting" /\ r.op = "miss" /\ r.key \in Keys
  BY <1>1, IdleType DEF RequestStates, Ops, Steps, Keys
<1>3. Sound(r)
  BY <1>2 DEF Sound
<1>4. req[q].at = "idle" /\ req[q].op = "none"
  BY IdleType DEF BeginMiss
<1>5. Becomes(q, r)
  BY <1>1 DEF BeginMiss
<1> QED
  BY <1>2, <1>3, <1>4, <1>5, RequestMoves DEF BeginMiss, history, At, SignInv, TypeOK

(* A request that ends in neither its deletion nor its raise leaves the rest. *)
LEMMA EndsSafe ==
  ASSUME SignInv, NEW q \in Requests, Ends(q), ~At(q, "deleting"), ~At(q, "raising"),
         UNCHANGED <<user, tokens, redis, history>>
  PROVE  SignInv'
  BY IdleType, RequestMoves DEF Ends, history, SignInv, TypeOK

(* A request that dies with what it read leaves it loose.                     *)
LEMMA RequestDiesSafe ==
  ASSUME SignInv, NEW q \in Requests, RequestDies(q)
  PROVE  SignInv'
<1>1. Becomes(q, Idle)
  BY DEF RequestDies, Ends
<1>2. loose \subseteq loose' /\ loose' \subseteq Tickets
  BY DEF RequestDies, SignInv, TypeOK
<1>3. At(q, "deleting") /\ Stored(req[q].key) => store[req[q].key] \in loose'
  <2>1. At(q, "deleting") => req[q].key \in Keys
    BY DEF SignInv, SoundInv, Sound, At
  <2>2. \A k \in Keys : Stored(k) => store[k] \in Tickets
    BY DEF SignInv, TypeOK, Stored
  <2> QED
    BY <2>1, <2>2 DEF RequestDies
<1>4. half' \in BOOLEAN /\ (half => half') /\ (At(q, "raising") /\ req[q].op = "reset" => half')
  BY DEF RequestDies
<1> QED
  BY <1>1, <1>2, <1>3, <1>4, IdleType, RequestMoves DEF RequestDies

(* The password that is checked is in force, or there is no user yet.         *)
LEMMA FindUserSafe ==
  ASSUME SignInv, NEW q \in Requests, FindUser(q)
  PROVE  SignInv'
<1>1. req[q] \in RequestStates /\ Sound(req[q]) /\ req[q].at = "finding"
  BY DEF SignInv, TypeOK, SoundInv, FindUser, At
<1>2. CASE Registered /\ Moves(q, "raising")
  <2>1. PICK r : r = [req[q] EXCEPT !.at = "raising"]
    OBVIOUS
  <2>2. r \in RequestStates /\ r.at = "raising" /\ r.op = req[q].op /\ r.pw = req[q].pw
    BY <1>1, <2>1 DEF RequestStates, Steps
  <2>3. Sound(r)
    BY <1>1, <1>2, <2>2 DEF Sound
  <2>4. Becomes(q, r)
    BY <1>2, <2>1 DEF Moves
  <2> QED
    BY <1>1, <2>2, <2>3, <2>4, RequestMoves DEF FindUser, history, At, SignInv, TypeOK
<1>3. CASE Ends(q)
  BY <1>1, <1>3, EndsSafe DEF FindUser, At
<1> QED
  BY <1>2, <1>3 DEF FindUser

(* Redis changes, and requests and users do not.                            *)
LEMMA RedisMoves ==
  ASSUME SignInv, UNCHANGED <<user, tokens, req, history>>, TypeOK', StoreInv'
  PROVE  SignInv'
<1>1. user' = user /\ tokens' = tokens /\ req' = req
      /\ accepted' = accepted /\ loose' = loose /\ half' = half
  BY DEF history
<1>2. ResetPending' <=> ResetPending
  BY <1>1 DEF ResetPending, At
<1>3. ASSUME NEW s, Sound(s) PROVE Sound(s)'
  BY <1>1, <1>2, <1>3 DEF Sound, InForce, Registered, HadCode
<1>4. SoundInv'
  BY <1>1, <1>3 DEF SignInv, SoundInv
<1>5. UserInv' /\ OwnInv'
  BY <1>1 DEF SignInv, UserInv, OwnInv, Registered, At
<1>6. OldPasswordOut'
  BY <1>1, <1>2 DEF SignInv, OldPasswordOut, Accepted, ResetPending
<1>7. GoodForOne' /\ AccountHadCode'
  BY <1>1 DEF SignInv, GoodForOne, AccountHadCode, Registered
<1> QED
  BY <1>4, <1>5, <1>6, <1>7 DEF SignInv

(* A captcha is drawn once, so none that is stored or accepted is it.         *)
LEMMA DrawCaptchaSafe ==
  ASSUME SignInv, NEW k \in Captchas, DrawCaptcha(k)
  PROVE  SignInv'
<1>1. /\ k \in Keys /\ k \in Tickets /\ k # None /\ k \notin Purposes /\ k \notin drawn
      /\ drawn' = drawn \cup {k} /\ UNCHANGED <<accepted, loose, req>>
  BY SignInAssumption DEF Keys, Tickets, Purposes, DrawCaptcha, history
<1>2. /\ store' \in [Keys -> Tickets \cup {None}]
      /\ \A l \in Keys : store'[l] = IF l = k THEN k ELSE store[l]
  BY <1>1 DEF DrawCaptcha, SignInv, TypeOK
<1>3. TypeOK'
  BY <1>1, <1>2 DEF DrawCaptcha, history, SignInv, TypeOK
<1>4. StoreInv'
  <2>1. accepted[k] = 0
    BY <1>1 DEF SignInv, StoreInv, TypeOK
  <2>2. \A l \in Keys : l # k => (Stored(l)' <=> Stored(l)) /\ (Reread(l) <=> Reread(l)')
    BY <1>1, <1>2 DEF Stored, Reread, At
  <2>3. Purposes \subseteq Keys
    BY DEF Keys
  <2> QED
    BY <1>1, <1>2, <2>1, <2>2, <2>3 DEF SignInv, StoreInv, Stored
<1> QED
  BY <1>3, <1>4, RedisMoves DEF DrawCaptcha

(* What expires is read by nobody any more.                                   *)
LEMMA ExpireSafe ==
  ASSUME SignInv, NEW k \in Keys, Expire(k)
  PROVE  SignInv'
<1>1. UNCHANGED <<accepted, loose, req, drawn>>
  BY DEF Expire, history
<1>2. /\ store' \in [Keys -> Tickets \cup {None}]
      /\ \A l \in Keys : store'[l] = IF l = k THEN None ELSE store[l]
  BY DEF Expire, SignInv, TypeOK
<1>3. TypeOK'
  BY <1>2 DEF Expire, history, SignInv, TypeOK
<1>4. StoreInv'
  <2>1. \A l \in Keys : Stored(l)' => Stored(l) /\ store'[l] = store[l] /\ (Reread(l) <=> Reread(l)')
    BY <1>1, <1>2 DEF Stored, Reread, At
  <2>2. Purposes \subseteq Keys
    BY DEF Keys
  <2> QED
    BY <1>1, <2>1, <2>2 DEF SignInv, StoreInv, Stored
<1> QED
  BY <1>3, <1>4, RedisMoves DEF Expire

(* The cooldown says nothing of codes.                                        *)
LEMMA CoolDownSafe ==
  ASSUME SignInv, NEW p \in Purposes, CoolDown(p)
  PROVE  SignInv'
<1>1. TypeOK'
  BY DEF CoolDown, history, SignInv, TypeOK
<1>2. StoreInv'
  BY DEF CoolDown, history, SignInv, StoreInv, Stored, Reread, At
<1> QED
  BY <1>1, <1>2, RedisMoves DEF CoolDown

(* A new code replaces the one that was stored under its purpose; it was    *)
(* never accepted.                                                          *)
LEMMA StoreCodeSafe ==
  ASSUME SignInv, NEW q \in Requests, NEW c \in Codes, StoreCode(q, c)
  PROVE  SignInv'
<1>1. PICK p : p = req[q].key
  OBVIOUS
<1>2. p \in Purposes /\ p \in Keys /\ req[q].at = "sending"
  BY <1>1 DEF SignInv, SoundInv, Sound, StoreCode, At, Keys
<1>3. /\ c \in Tickets /\ c # None /\ c \notin drawn /\ drawn' = drawn \cup {c}
      /\ UNCHANGED <<user, tokens, accepted, loose, half>>
  BY SignInAssumption DEF StoreCode, Tickets, history
<1>4. /\ store' \in [Keys -> Tickets \cup {None}]
      /\ \A l \in Keys : store'[l] = IF l = p THEN c ELSE store[l]
  BY <1>1, <1>2, <1>3 DEF StoreCode, SignInv, TypeOK
<1>5. /\ req' \in [Requests -> RequestStates] /\ req'[q] = Idle
      /\ \A o \in Requests : o # q => req'[o] = req[o]
  BY IdleType, BecomesFacts DEF StoreCode, Ends, SignInv, TypeOK
<1>6. TypeOK'
  BY <1>1, <1>2, <1>3, <1>4, <1>5 DEF StoreCode, SignInv, TypeOK
<1>7. ResetPending' <=> ResetPending
  BY <1>2, <1>5, IdleType DEF ResetPending, At
<1>8. ASSUME NEW s, Sound(s) PROVE Sound(s)'
  BY <1>3, <1>7, <1>8 DEF Sound, InForce, Registered, HadCode
<1>9. SoundInv'
  <2>1. Sound(Idle)'
    BY <1>8, IdleType
  <2> QED
    BY <1>5, <1>8, <2>1 DEF SignInv, SoundInv
<1>10. UserInv' /\ OwnInv'
  BY <1>3, <1>5, IdleType DEF SignInv, UserInv, OwnInv, Registered, At
<1>11. StoreInv'
  <2>1. accepted[c] = 0
    BY <1>3 DEF SignInv, StoreInv, TypeOK
  <2>2. \A l \in Keys : l # p => (Stored(l)' <=> Stored(l)) /\ (Reread(l) <=> Reread(l)')
    BY <1>2, <1>3, <1>4, <1>5, IdleType DEF Stored, Reread, At
  <2>3. Purposes \subseteq Keys
    BY DEF Keys
  <2> QED
    BY <1>2, <1>3, <1>4, <2>1, <2>2, <2>3 DEF SignInv, StoreInv, Stored
<1>12. OldPasswordOut'
  BY <1>3, <1>7 DEF SignInv, OldPasswordOut, Accepted, ResetPending
<1>13. GoodForOne' /\ AccountHadCode'
  BY <1>3 DEF SignInv, GoodForOne, AccountHadCode, Registered
<1> QED
  BY <1>6, <1>9, <1>10, <1>11, <1>12, <1>13 DEF SignInv

(* What was sent is accepted; a code that somebody has accepted before is   *)
(* one that two requests could read.                                        *)
LEMMA PresentSafe ==
  ASSUME SignInv, NEW q \in Requests, NEW op \in {"login", "register", "reset"}, NEW k \in Keys,
         NEW pw \in Passwords, Present(q, op, k, pw),
         op = "reset" => Registered, op = "register" => k = "register"
  PROVE  SignInv'
<1>1. PICK t : t = store[k]
  OBVIOUS
<1>2. t \in Tickets /\ t # None /\ t \in drawn
  BY <1>1 DEF Present, Stored, SignInv, TypeOK, StoreInv
<1>3. PICK r : r = [Idle EXCEPT !.op = op, !.at = "deleting", !.key = k, !.pw = pw]
  OBVIOUS
<1>4. r \in RequestStates /\ r.at = "deleting" /\ r.op = op /\ r.key = k /\ r.pw = pw
  BY <1>3, IdleType DEF RequestStates, Ops, Steps
<1>5. /\ req' \in [Requests -> RequestStates] /\ req'[q] = r /\ req[q].at = "idle"
      /\ \A o \in Requests : o # q => req'[o] = req[o]
  <2>1. Becomes(q, r)
    BY <1>3 DEF Present
  <2> QED
    BY <1>4, <2>1, BecomesFacts, IdleType DEF Present, SignInv, TypeOK
<1>6. /\ accepted' \in [Tickets -> 0..2]
      /\ \A x \in Tickets : x # t => accepted'[x] = accepted[x]
      /\ accepted'[t] > 0 /\ (accepted'[t] > 1 => accepted[t] > 0)
      /\ \A x \in Tickets : accepted[x] > 0 => accepted'[x] > 0
  <2>1. \A x \in Tickets : accepted'[x] = IF x = t THEN Again(accepted[x]) ELSE accepted[x]
    BY <1>1 DEF Present
  <2>2. \A x \in Tickets : accepted[x] \in 0..2 /\ Again(accepted[x]) \in 1..2
                        /\ (Again(accepted[x]) > 1 => accepted[x] > 0)
    BY DEF Again, SignInv, TypeOK
  <2>3. accepted' = [x \in Tickets |-> IF x = t THEN Again(accepted[x]) ELSE accepted[x]]
    BY <1>1 DEF Present
  <2> QED
    BY <1>2, <2>1, <2>2, <2>3
<1>7. /\ loose \subseteq loose' /\ loose' \subseteq Tickets
      /\ (\E o \in Requests : At(o, "deleting") /\ req[o].key = k) => t \in loose'
      /\ UNCHANGED <<user, tokens, store, cooldown, drawn, half>>
  BY <1>1, <1>2 DEF Present, redis, SignInv, TypeOK
<1>8. accepted[t] > 0 => t \in loose'
  BY <1>1, <1>2, <1>7 DEF Present, SignInv, StoreInv, Reread
<1>9. HadCode => HadCode'
  BY <1>6 DEF HadCode, Tickets
<1>10. op = "register" => HadCode'
  BY <1>1, <1>2, <1>6 DEF HadCode, Purposes, Present, SignInv, StoreInv
<1>11. TypeOK'
  BY <1>5, <1>6, <1>7 DEF SignInv, TypeOK
<1>12. ResetPending' <=> ResetPending
  BY <1>4, <1>5 DEF ResetPending, At
<1>13. ASSUME NEW s, Sound(s) PROVE Sound(s)'
  BY <1>7, <1>9, <1>12, <1>13 DEF Sound, InForce, Registered
<1>14. Sound(r)'
  BY <1>4, <1>7, <1>10 DEF Sound, Registered
<1>15. SoundInv'
  BY <1>5, <1>13, <1>14 DEF SignInv, SoundInv
<1>16. UserInv' /\ OwnInv'
  BY <1>4, <1>5, <1>7 DEF SignInv, UserInv, OwnInv, Registered, At
<1>17. StoreInv'
  <2>1. \A l \in Keys : l # k /\ Stored(l) => store[l] \in Tickets /\ store[l] # t
    BY <1>1, <1>2 DEF SignInv, TypeOK, StoreInv, Stored
  <2>2. \A l \in Keys : Reread(l) => Reread(l)'
    BY <1>5, <1>7 DEF Reread, At
  <2>3. Reread(k)'
    BY <1>4, <1>5 DEF Reread, At
  <2> QED
    BY <1>2, <1>6, <1>7, <2>1, <2>2, <2>3 DEF SignInv, StoreInv, Stored
<1>18. OldPasswordOut'
  BY <1>7, <1>12 DEF SignInv, OldPasswordOut, Accepted, ResetPending
<1>19. GoodForOne'
  BY <1>6, <1>7, <1>8 DEF SignInv, GoodForOne
<1>20. AccountHadCode'
  BY <1>7, <1>9 DEF SignInv, AccountHadCode, HadCode, Registered
<1> QED
  BY <1>11, <1>15, <1>16, <1>17, <1>18, <1>19, <1>20 DEF SignInv

(* A code that is deleted is read by nobody any more.                         *)
LEMMA DeleteCodeSafe ==
  ASSUME SignInv, NEW q \in Requests, DeleteCode(q)
  PROVE  SignInv'
<1>1. req[q] \in RequestStates /\ Sound(req[q]) /\ req[q].at = "deleting"
  BY DEF SignInv, TypeOK, SoundInv, DeleteCode, At
<1>2. PICK k : k = req[q].key
  OBVIOUS
<1>3. k \in Keys
  BY <1>1, <1>2 DEF Sound
<1>4. /\ store' \in [Keys -> Tickets \cup {None}]
      /\ \A l \in Keys : store'[l] = IF l = k THEN None ELSE store[l]
  BY <1>2, <1>3 DEF DeleteCode, KeyDeleted, SignInv, TypeOK
<1>5. UNCHANGED <<user, tokens, cooldown, drawn, accepted, loose, half>>
  BY DEF DeleteCode, history
<1>6. PICK r : r = IF req[q].op = "miss" THEN Idle
                   ELSE [req[q] EXCEPT !.at = AfterCode[req[q].op], !.key = None]
  OBVIOUS
<1>7. /\ r \in RequestStates /\ Sound(r)
      /\ r.at \in {"idle", "finding", "inserting", "updating"}
  <2>1. CASE req[q].op = "miss"
    BY <1>6, <2>1, IdleType
  <2>2. CASE req[q].op \in {"login", "register", "reset"}
    <3>1. /\ r \in RequestStates /\ r.op = req[q].op /\ r.pw = req[q].pw
          /\ r.at = IF r.op = "login" THEN "finding"
                    ELSE IF r.op = "register" THEN "inserting" ELSE "updating"
      <4>1. PICK s : s = AfterCode[req[q].op]
        OBVIOUS
      <4>2. s = IF req[q].op = "login" THEN "finding"
                ELSE IF req[q].op = "register" THEN "inserting" ELSE "updating"
        BY <2>2, <4>1 DEF AfterCode
      <4>3. r = [req[q] EXCEPT !.at = s, !.key = None]
        BY <1>6, <2>2, <4>1
      <4> QED
        BY <1>1, <4>2, <4>3 DEF RequestStates, Steps
    <3> QED
      BY <1>1, <2>2, <3>1 DEF Sound
  <2> QED
    BY <1>1, <2>1, <2>2 DEF Sound
<1>8. /\ req' \in [Requests -> RequestStates] /\ req'[q] = r
      /\ \A o \in Requests : o # q => req'[o] = req[o]
  <2>1. Becomes(q, r)
    BY <1>6 DEF DeleteCode, Ends
  <2> QED
    BY <1>7, <2>1, BecomesFacts DEF SignInv, TypeOK
<1>9. TypeOK'
  BY <1>4, <1>5, <1>8 DEF SignInv, TypeOK
<1>10. ResetPending' <=> ResetPending
  BY <1>1, <1>7, <1>8 DEF ResetPending, At
<1>11. ASSUME NEW s, Sound(s) PROVE Sound(s)'
  BY <1>5, <1>10, <1>11 DEF Sound, InForce, Registered, HadCode
<1>12. SoundInv'
  <2>1. Sound(r)'
    BY <1>7, <1>11
  <2> QED
    BY <1>8, <1>11, <2>1 DEF SignInv, SoundInv
<1>13. UserInv' /\ OwnInv'
  BY <1>5, <1>7, <1>8 DEF SignInv, UserInv, OwnInv, Registered, At
<1>14. StoreInv'
  <2>1. \A l \in Keys : Stored(l)' => l # k /\ Stored(l) /\ store'[l] = store[l]
    BY <1>4 DEF Stored
  <2>2. \A l \in Keys : l # k /\ Reread(l) /\ store'[l] = store[l] => Reread(l)'
    BY <1>2, <1>5, <1>8 DEF Reread, At
  <2>3. Purposes \subseteq Keys
    BY DEF Keys
  <2> QED
    BY <1>4, <1>5, <2>1, <2>2, <2>3 DEF SignInv, StoreInv, Stored
<1>15. OldPasswordOut'
  BY <1>5, <1>10 DEF SignInv, OldPasswordOut, Accepted, ResetPending
<1>16. GoodForOne' /\ AccountHadCode'
  BY <1>5 DEF SignInv, GoodForOne, AccountHadCode, Registered
<1> QED
  BY <1>9, <1>12, <1>13, <1>14, <1>15, <1>16 DEF SignInv

(* Redis does not change, and no request that deletes a code or captcha     *)
(* moves.                                                                   *)
LEMMA CodesKept ==
  ASSUME SignInv, UNCHANGED <<redis, accepted, loose>>, NEW q \in Requests,
         ~At(q, "deleting"), \A o \in Requests : o # q => req'[o] = req[o]
  PROVE  StoreInv' /\ GoodForOne' /\ (HadCode <=> HadCode')
<1>1. store' = store /\ drawn' = drawn /\ accepted' = accepted /\ loose' = loose
  BY DEF redis
<1>2. \A k \in Keys : Reread(k) => Reread(k)'
  BY <1>1 DEF Reread, At
<1>3. StoreInv'
  BY <1>1, <1>2 DEF SignInv, StoreInv, Stored
<1> QED
  BY <1>1, <1>3 DEF SignInv, GoodForOne, HadCode

(* A registration had its code; the user's version starts at zero.            *)
LEMMA InsertUserSafe ==
  ASSUME SignInv, NEW q \in Requests, InsertUser(q)
  PROVE  SignInv'
<1>1. req[q] \in RequestStates /\ Sound(req[q]) /\ req[q].at = "inserting"
  BY DEF SignInv, TypeOK, SoundInv, InsertUser, At
<1>2. CASE ~Registered
  <2>1. req[q].pw \in Passwords /\ HadCode
    BY <1>1 DEF Sound
  <2>2. PICK r : r = [req[q] EXCEPT !.at = "raising"]
    OBVIOUS
  <2>3. r \in RequestStates /\ r.at = "raising" /\ r.op = req[q].op /\ r.pw = req[q].pw
    BY <1>1, <2>2 DEF RequestStates, Steps
  <2>4. /\ req' \in [Requests -> RequestStates] /\ req'[q] = r
        /\ \A o \in Requests : o # q => req'[o] = req[o]
    <3>1. Becomes(q, r)
      BY <1>2, <2>2 DEF InsertUser, PhoneFree, Moves
    <3> QED
      BY <2>3, <3>1, BecomesFacts DEF SignInv, TypeOK
  <2>5. /\ user' = [pw |-> req[q].pw, tv |-> 0] /\ Registered'
        /\ UNCHANGED <<tokens, redis, accepted, loose, half>>
    BY <1>2, <2>1, SignInAssumption DEF InsertUser, PhoneFree, Registered, history
  <2>6. tokens = {} /\ user.tv = 0
    BY <1>2 DEF SignInv, UserInv
  <2>7. TypeOK'
    BY <2>1, <2>4, <2>5, <2>6 DEF SignInv, TypeOK, redis
  <2>8. StoreInv' /\ GoodForOne' /\ HadCode'
    BY <1>1, <2>1, <2>4, <2>5, CodesKept DEF At
  <2>9. \A o \in Requests : req[o].at # "reading"
    BY <1>2 DEF SignInv, SoundInv, Sound
  <2>10. ASSUME NEW s, Sound(s), s.at # "reading" PROVE Sound(s)'
    BY <2>5, <2>8, <2>10 DEF Sound
  <2>11. SoundInv'
    <3>1. Sound(r)'
      BY <1>1, <2>1, <2>3, <2>5 DEF Sound
    <3> QED
      BY <2>4, <2>9, <2>10, <3>1 DEF SignInv, SoundInv
  <2>12. UserInv' /\ OwnInv'
    BY <2>3, <2>4, <2>5, <2>6, <2>9 DEF UserInv, OwnInv, At
  <2>13. OldPasswordOut' /\ AccountHadCode'
    BY <2>5, <2>6, <2>8 DEF OldPasswordOut, Accepted, AccountHadCode, HadCode
  <2> QED
    BY <2>7, <2>8, <2>11, <2>12, <2>13 DEF SignInv
<1>3. CASE Registered
  BY <1>1, <1>3, EndsSafe DEF InsertUser, PhoneFree, At
<1> QED
  BY <1>2, <1>3

(* The password of a reset: the version that ends the old tokens is raised next. *)
LEMMA UpdatePasswordSafe ==
  ASSUME SignInv, NEW q \in Requests, UpdatePassword(q)
  PROVE  SignInv'
<1>1. req[q] \in RequestStates /\ Sound(req[q]) /\ req[q].at = "updating"
  BY DEF SignInv, TypeOK, SoundInv, UpdatePassword, At
<1>2. req[q].op = "reset" /\ req[q].pw \in Passwords /\ Registered
  BY <1>1 DEF Sound
<1>3. PICK r : r = [req[q] EXCEPT !.at = "raising"]
  OBVIOUS
<1>4. r \in RequestStates /\ r.at = "raising" /\ r.op = "reset" /\ r.pw = req[q].pw
  BY <1>1, <1>2, <1>3 DEF RequestStates, Steps
<1>5. /\ req' \in [Requests -> RequestStates] /\ req'[q] = r
      /\ \A o \in Requests : o # q => req'[o] = req[o]
  <2>1. Becomes(q, r)
    BY <1>3 DEF UpdatePassword, Moves
  <2> QED
    BY <1>4, <2>1, BecomesFacts DEF SignInv, TypeOK
<1>6. /\ user' \in [pw : Passwords \cup {None}, tv : Nat] /\ user'.tv = user.tv /\ Registered'
      /\ UNCHANGED <<tokens, redis, accepted, loose, half>>
  BY <1>2, SignInAssumption DEF UpdatePassword, history, SignInv, TypeOK, Registered
<1>7. TypeOK'
  BY <1>5, <1>6 DEF SignInv, TypeOK, redis
<1>8. StoreInv' /\ GoodForOne' /\ (HadCode <=> HadCode')
  BY <1>1, <1>5, <1>6, CodesKept DEF At
<1>9. ResetPending'
  BY <1>4, <1>5 DEF ResetPending, At
<1>10. ASSUME NEW s, Sound(s) PROVE Sound(s)'
  BY <1>6, <1>8, <1>9, <1>10 DEF Sound, InForce
<1>11. Sound(r)'
  BY <1>2, <1>4, <1>6 DEF Sound
<1>12. SoundInv'
  BY <1>5, <1>10, <1>11 DEF SignInv, SoundInv
<1>13. UserInv' /\ OwnInv'
  BY <1>4, <1>5, <1>6 DEF SignInv, UserInv, OwnInv, At
<1>14. OldPasswordOut'
  BY <1>9 DEF OldPasswordOut, ResetPending
<1>15. AccountHadCode'
  BY <1>2, <1>8 DEF SignInv, AccountHadCode, HadCode
<1> QED
  BY <1>7, <1>8, <1>12, <1>13, <1>14, <1>15 DEF SignInv

(* The version of every token, and of every request about to sign one, is   *)
(* now an old one.                                                          *)
LEMMA RaiseVersionSafe ==
  ASSUME SignInv, NEW q \in Requests, RaiseVersion(q)
  PROVE  SignInv'
<1>1. req[q] \in RequestStates /\ Sound(req[q]) /\ req[q].at = "raising"
  BY DEF SignInv, TypeOK, SoundInv, RaiseVersion, At
<1>2. req[q].pw \in Passwords /\ Registered
  BY <1>1 DEF Sound
<1>3. user \in [pw : Passwords \cup {None}, tv : Nat]
  BY DEF SignInv, TypeOK
<1>4. /\ user' \in [pw : Passwords \cup {None}, tv : Nat]
      /\ user'.tv = user.tv + 1 /\ user'.pw = user.pw /\ Registered'
  BY <1>2, <1>3 DEF RaiseVersion, Raised, Registered
<1>5. UNCHANGED <<redis, accepted, loose>> /\ half' = FALSE
  BY DEF RaiseVersion
<1>6. tokens' = {}
  <2>1. \A t \in tokens : t.tv \in Nat /\ t.tv <= user.tv
    BY DEF SignInv, TypeOK, Tokens
  <2> QED
    BY <1>3, <1>4, <2>1 DEF RaiseVersion
<1>7. PICK r : r = IF req[q].op = "reset" THEN Idle
                   ELSE [req[q] EXCEPT !.at = "reading", !.own = user'.tv,
                                       !.late = user.pw # req[q].pw]
  OBVIOUS
<1>8. /\ r \in RequestStates /\ r.at \in {"idle", "reading"}
      /\ r.at = "reading" => /\ r.own = user'.tv /\ r.pw = req[q].pw
                             /\ (r.late <=> user.pw # req[q].pw) /\ r.op = req[q].op
      /\ r.at = "idle" => r = Idle
  <2>1. CASE req[q].op = "reset"
    BY <1>7, <2>1, IdleType
  <2>2. CASE req[q].op # "reset"
    <3>1. user'.tv \in Nat /\ (user.pw # req[q].pw) \in BOOLEAN
      BY <1>4
    <3>2. r.at = "reading"
      BY <1>1, <1>7, <2>2 DEF RequestStates
    <3> QED
      BY <1>1, <1>7, <2>2, <3>1, <3>2 DEF RequestStates, Steps
  <2> QED
    BY <2>1, <2>2
<1>9. /\ req' \in [Requests -> RequestStates] /\ req'[q] = r
      /\ \A o \in Requests : o # q => req'[o] = req[o]
  <2>1. Becomes(q, r)
    BY <1>7 DEF RaiseVersion, Ends
  <2> QED
    BY <1>8, <2>1, BecomesFacts DEF SignInv, TypeOK
<1>10. TypeOK'
  BY <1>4, <1>5, <1>6, <1>9 DEF SignInv, TypeOK, redis
<1>11. StoreInv' /\ GoodForOne' /\ (HadCode <=> HadCode')
  BY <1>1, <1>5, <1>9, CodesKept DEF At
<1>12. \A o \in Requests : At(o, "reading") => req[o].own \in Nat /\ req[o].own < user'.tv
  <2>1. \A o \in Requests : At(o, "reading") => req[o].own \in Nat /\ req[o].own <= user.tv
    BY DEF SignInv, TypeOK, RequestStates, SoundInv, Sound, At
  <2> QED
    BY <1>3, <1>4, <2>1
<1>13. SoundInv'
  <2>1. Sound(r)'
    <3>1. CASE r.at = "reading"
      <4>1. r.pw \in Passwords /\ Registered' /\ r.own = user'.tv
        BY <1>2, <1>4, <1>8, <3>1
      <4>2. r.own <= user'.tv
        BY <1>4, <4>1
      <4>3. r.late \/ r.pw = user'.pw
        BY <1>4, <1>8, <3>1
      <4> QED
        BY <3>1, <4>1, <4>2, <4>3, Zenon DEF Sound, InForce
    <3>2. CASE r.at = "idle"
      BY <1>8, <3>2, IdleType DEF Sound
    <3> QED
      BY <1>8, <3>1, <3>2
  <2>2. ASSUME NEW o \in Requests, o # q PROVE Sound(req[o])'
    <3>1. Sound(req[o]) /\ req'[o] = req[o]
      BY <1>9, <2>2 DEF SignInv, SoundInv
    <3>2. req[o].at = "reading" => req[o].own \in Nat /\ req[o].own < user'.tv
      BY <1>12 DEF At
    <3> QED
      BY <1>4, <1>11, <3>1, <3>2 DEF Sound
  <2> QED
    BY <1>9, <2>1, <2>2 DEF SoundInv
<1>14. UserInv'
  BY <1>4 DEF UserInv
<1>15. OwnInv'
  <2>1. \A o, p \in Requests : At(o, "reading") /\ At(p, "reading") /\ req[o].own = req[p].own => o = p
    BY DEF SignInv, OwnInv
  <2>2. \A o \in Requests : o # q /\ At(o, "reading")' =>
           At(o, "reading") /\ req'[o].own = req[o].own /\ req'[o].own # user'.tv
    BY <1>4, <1>9, <1>12 DEF At
  <2>3. At(q, "reading")' => req'[q].own = user'.tv
    BY <1>8, <1>9 DEF At
  <2> QED
    BY <1>6, <2>1, <2>2, <2>3 DEF OwnInv
<1>16. OldPasswordOut' /\ AccountHadCode'
  BY <1>2, <1>6, <1>11 DEF OldPasswordOut, Accepted, SignInv, AccountHadCode, HadCode
<1> QED
  BY <1>10, <1>11, <1>13, <1>14, <1>15, <1>16 DEF SignInv

(* The token carries the version that its request read, its own or a later one. *)
LEMMA SignTokenSafe ==
  ASSUME SignInv, NEW q \in Requests, SignToken(q)
  PROVE  SignInv'
<1>1. req[q] \in RequestStates /\ Sound(req[q]) /\ req[q].at = "reading"
  BY DEF SignInv, TypeOK, SoundInv, SignToken, At
<1>2. /\ req[q].pw \in Passwords /\ Registered /\ req[q].own <= user.tv
      /\ (req[q].own = user.tv => InForce(req[q].pw, req[q].late))
  BY <1>1 DEF Sound
<1>3. PICK n : n = [tv |-> user.tv, own |-> req[q].own, pw |-> req[q].pw,
                    late |-> req[q].late, by |-> q]
  OBVIOUS
<1>4. /\ n \in Tokens /\ n.tv = user.tv /\ n.own = req[q].own /\ n.pw = req[q].pw
      /\ n.late = req[q].late
  BY <1>1, <1>2, <1>3 DEF Tokens, RequestStates, SignInv, TypeOK
<1>5. tokens' = tokens \cup {n} /\ UNCHANGED <<user, redis, accepted, loose, half>>
  BY <1>3 DEF SignToken, history
<1>6. /\ req' \in [Requests -> RequestStates] /\ req'[q] = Idle
      /\ \A o \in Requests : o # q => req'[o] = req[o]
  BY IdleType, BecomesFacts DEF SignToken, Ends, SignInv, TypeOK
<1>7. TypeOK'
  BY <1>2, <1>4, <1>5, <1>6 DEF SignInv, TypeOK, redis
<1>8. StoreInv' /\ GoodForOne' /\ (HadCode <=> HadCode')
  BY <1>1, <1>5, <1>6, CodesKept DEF At
<1>9. ResetPending' <=> ResetPending
  BY <1>1, <1>6, IdleType DEF ResetPending, At
<1>10. ASSUME NEW s, Sound(s) PROVE Sound(s)'
  BY <1>5, <1>8, <1>9, <1>10 DEF Sound, InForce, Registered
<1>11. SoundInv'
  <2>1. Sound(Idle)'
    BY <1>10, IdleType
  <2> QED
    BY <1>6, <1>10, <2>1 DEF SignInv, SoundInv
<1>12. UserInv'
  BY <1>2, <1>5 DEF UserInv, Registered
<1>13. OwnInv'
  <2>1. \A t \in tokens : t.own # n.own
    BY <1>1, <1>4 DEF SignInv, OwnInv, At
  <2>2. \A o \in Requests : At(o, "reading")' => o # q /\ At(o, "reading") /\ req'[o].own = req[o].own
    BY <1>6, IdleType DEF At
  <2>3. \A o \in Requests : At(o, "reading")' => n.own # req'[o].own
    BY <1>1, <1>4, <2>2 DEF SignInv, OwnInv, At
  <2> QED
    BY <1>5, <2>1, <2>2, <2>3 DEF SignInv, OwnInv
<1>14. OldPasswordOut'
  <2>1. n.own # n.tv \/ InForce(n.pw, n.late)
    BY <1>2, <1>4
  <2> QED
    BY <1>4, <1>5, <1>9, <2>1 DEF SignInv, OldPasswordOut, Accepted, ResetPending, InForce
<1>15. AccountHadCode'
  BY <1>5, <1>8 DEF SignInv, AccountHadCode, HadCode, Registered
<1> QED
  BY <1>7, <1>8, <1>11, <1>12, <1>13, <1>14, <1>15 DEF SignInv

(* A step that changes nothing.                                               *)
LEMMA StutterSafe == SignInv /\ UNCHANGED vars => SignInv'
<1> SUFFICES ASSUME SignInv, UNCHANGED vars PROVE SignInv'
  OBVIOUS
<1>1. TypeOK'
  BY DEF vars, SignInv, TypeOK
<1>2. StoreInv'
  BY DEF vars, SignInv, StoreInv, Stored, Reread, At
<1> QED
  BY <1>1, <1>2, RedisMoves DEF vars, history

(* Every step keeps the invariant.                                            *)
LEMMA SignStep == SignInv /\ [Next]_vars => SignInv'
<1> SUFFICES ASSUME SignInv, [Next]_vars
             PROVE  SignInv'
  OBVIOUS
<1>1. Captchas \subseteq Keys /\ "register" \in Keys /\ "reset" \in Keys
  BY DEF Keys, Purposes
<1>2. ASSUME NEW q \in Requests, NEW pw \in Passwords, NEW k \in Captchas, BeginLogin(q, k, pw)
      PROVE  SignInv'
  BY <1>1, <1>2, PresentSafe DEF BeginLogin
<1>3. ASSUME NEW q \in Requests, NEW pw \in Passwords, BeginRegister(q, pw)
      PROVE  SignInv'
  BY <1>1, <1>3, PresentSafe DEF BeginRegister
<1>4. ASSUME NEW q \in Requests, NEW pw \in Passwords, BeginReset(q, pw)
      PROVE  SignInv'
  BY <1>1, <1>4, PresentSafe DEF BeginReset
<1> QED
  BY <1>2, <1>3, <1>4, StutterSafe, BeginSendSafe, StoreCodeSafe, BeginMissSafe, DeleteCodeSafe,
     FindUserSafe, InsertUserSafe, UpdatePasswordSafe, RaiseVersionSafe, SignTokenSafe,
     RequestDiesSafe, DrawCaptchaSafe, ExpireSafe, CoolDownSafe DEF Next

(* The inductive invariant holds in every reachable state.                  *)
THEOREM SignInvariance == Spec => []SignInv
<1> QED
  BY InitSign, SignStep, PTL DEF Spec

(* Every variable keeps its type; the version never goes back behind a      *)
(* token.                                                                   *)
THEOREM SignTypeCorrect == Spec => []TypeOK
<1>1. SignInv => TypeOK
  BY DEF SignInv
<1> QED
  BY <1>1, SignInvariance, PTL

(* Two sessions are good at a time only if one of them read the version of   *)
(* another sign-in.                                                         *)
THEOREM OneSession == Spec => []SingleSession
<1>1. SignInv => SingleSession
  BY DEF SignInv, OwnInv, SingleSession, Accepted
<1> QED
  BY <1>1, SignInvariance, PTL

(* A session of the old password does not outlive a reset, but for the       *)
(* accidents that the property names.                                       *)
THEOREM NoOldPassword == Spec => []OldPasswordOut
<1>1. SignInv => OldPasswordOut
  BY DEF SignInv
<1> QED
  BY <1>1, SignInvariance, PTL

(* A captcha or code serves one request, unless two overlapped on it.        *)
THEOREM GoodOnce == Spec => []GoodForOne
<1>1. SignInv => GoodForOne
  BY DEF SignInv
<1> QED
  BY <1>1, SignInvariance, PTL

(* Nobody is registered without a code that was sent for it.                *)
THEOREM CodeBeforeAccount == Spec => []AccountHadCode
<1>1. SignInv => AccountHadCode
  BY DEF SignInv
<1> QED
  BY <1>1, SignInvariance, PTL
=============================================================================
