----------------------------- MODULE OAuthBind -----------------------------
(***************************************************************************)
(* Binding the accounts of a user on one publishing platform: bind         *)
(* sessions, the browser's callback, the client's own completion, polling, *)
(* cancelling, unbinding, editing and renewing (PlatformService).  Each    *)
(* repository call and each call of the provider is one action; a handler  *)
(* keeps the entity it loaded, and save() writes all of it, or inserts it  *)
(* again when its row is gone.  MySQL gives the unique index on the openId, *)
(* the foreign key of tokens and its cascade.                              *)
(***************************************************************************)
EXTENDS Integers

CONSTANTS
    Sessions,    \* oauth_bind_sessions a user may start
    OpenIds,     \* the user's accounts at the provider
    Ids,         \* primary keys of platform_accounts; none is used twice
    Requests,    \* requests served at a time
    None

ASSUME OAuthBindAssumption == None \notin Sessions \cup OpenIds \cup Ids

VARIABLES
    session,     \* status and accountId of a bind session
    late,        \* sessions whose expiresAt has passed
    account,     \* platform_accounts: openId (None: no row) and status
    token,       \* ids with a row in platform_tokens
    req,         \* what each request is about to do, and what it holds
    used,        \* ids ever inserted
    granted,     \* history: ids whose token was ever saved
    lapsed,      \* history: ids ever marked expired, or deleted
    mishaps      \* history: ids whose row an accident left without a token

vars == <<session, late, account, token, req, used, granted, lapsed, mishaps>>
history == <<granted, lapsed, mishaps>>

NoRow == [openId |-> None, status |-> "bound"]
Idle == [at |-> "idle", s |-> None, o |-> None, i |-> None, as |-> "none"]

Steps == {"exchanging", "finding", "saving", "tokening", "closing",
          "untoken", "unaccount", "renewing", "editing"}
Outcomes == {"success", "failed", "cancelled"}
Statuses == {"bound", "expired"}       \* "expired" stands for error as well

RequestStates ==
    [at : {"idle"} \cup Steps, s : Sessions \cup {None}, o : OpenIds \cup {None},
     i : Ids \cup {None}, as : {"none"} \cup Outcomes \cup Statuses]

(* Types, and what the foreign key of tokens gives.                         *)
TypeOK ==
    /\ session \in [Sessions -> [status : {"none", "pending"} \cup Outcomes,
                                 account : Ids \cup {None}]]
    /\ late \subseteq Sessions
    /\ account \in [Ids -> [openId : OpenIds \cup {None}, status : Statuses]]
    /\ token \subseteq {i \in Ids : account[i].openId # None}
    /\ req \in [Requests -> RequestStates]
    /\ used \subseteq Ids
    /\ \A i \in Ids \ used : account[i].openId = None
    /\ granted \subseteq Ids /\ lapsed \subseteq Ids /\ mishaps \subseteq Ids

Init ==
    /\ session = [s \in Sessions |-> [status |-> "none", account |-> None]]
    /\ late = {}
    /\ account = [i \in Ids |-> NoRow]
    /\ token = {}
    /\ req = [q \in Requests |-> Idle]
    /\ used = {}
    /\ granted = {} /\ lapsed = {} /\ mishaps = {}

Exists(i) == account[i].openId # None
Owner(o) == { i \in Ids : account[i].openId = o }      \* findOne({ openId })

At(q, step) == req[q].at = step
Becomes(q, r) == req' = [req EXCEPT ![q] = r]
Moves(q, step) == Becomes(q, [req[q] EXCEPT !.at = step])
Ends(q) == Becomes(q, Idle)

(* The catch block: status and errorMessage are set on the held entity.     *)
Failing(q) == [req[q] EXCEPT !.at = "closing", !.i = None, !.as = "failed"]

----------------------------------------------------------------------------
(* Sessions.                                                                *)

StartBind(s) ==
    /\ session[s].status = "none"
    /\ session' = [session EXCEPT ![s].status = "pending"]
    /\ UNCHANGED <<late, account, token, req, used, history>>

Elapse(s) ==
    /\ session[s].status # "none" /\ s \notin late
    /\ late' = late \cup {s}
    /\ UNCHANGED <<session, account, token, req, used, history>>

(* refreshPlatforms: one UPDATE of all pending sessions.                    *)
RefreshPlatforms ==
    /\ \E s \in Sessions : session[s].status = "pending"
    /\ session' = [s \in Sessions |-> IF session[s].status = "pending"
                     THEN [session[s] EXCEPT !.status = "cancelled"] ELSE session[s]]
    /\ UNCHANGED <<late, account, token, req, used, history>>

Close(q, s, i, outcome) ==
    Becomes(q, [Idle EXCEPT !.at = "closing", !.s = s, !.i = i, !.as = outcome])

(* completeBindWithCode and handleOAuthCallback, when the session is pending *)
(* and in time.                                                             *)
BeginBind(q, s) ==
    /\ req[q] = Idle
    /\ session[s].status = "pending" /\ s \notin late
    /\ Becomes(q, [Idle EXCEPT !.at = "exchanging", !.s = s])
    /\ UNCHANGED <<session, late, account, token, used, history>>

(* The poll and the completion cancel a session that is late, the callback  *)
(* fails it.                                                                *)
FindLate(q, s) ==
    /\ req[q] = Idle
    /\ session[s].status = "pending" /\ s \in late
    /\ \E outcome \in {"cancelled", "failed"} : Close(q, s, session[s].account, outcome)
    /\ UNCHANGED <<session, late, account, token, used, history>>

(* An error callback, or one of another platform, looks at no status.       *)
CallbackError(q, s) ==
    /\ req[q] = Idle
    /\ session[s].status # "none"
    /\ Close(q, s, session[s].account, "failed")
    /\ UNCHANGED <<session, late, account, token, used, history>>

(* Mutant: the account of a failed bind is written, its status is not.      *)
SaveOpenSession(q) ==
    /\ At(q, "closing")
    /\ session' = [session EXCEPT ![req[q].s] =
                     [status |-> IF req[q].as = "failed" THEN "success" ELSE req[q].as,
                      account |-> req[q].i]]
    /\ Ends(q)
    /\ UNCHANGED <<late, account, token, used, history>>

SaveSession(q) ==
    /\ At(q, "closing")
    /\ session' = [session EXCEPT ![req[q].s] =
                     [status |-> req[q].as, account |-> req[q].i]]
    /\ Ends(q)
    /\ UNCHANGED <<late, account, token, used, history>>

----------------------------------------------------------------------------
(* exchangeCode, fetchUserInfo and saveBoundAccount.                        *)

Exchange(q) ==
    /\ At(q, "exchanging")
    /\ \E o \in OpenIds : Becomes(q, [req[q] EXCEPT !.at = "finding", !.o = o])
    /\ UNCHANGED <<session, late, account, token, used, history>>

(* Mutant: the test for an account that is bound already is left out.       *)
FindAny(q) ==
    /\ At(q, "finding")
    /\ IF Owner(req[q].o) = {}
         THEN Becomes(q, [req[q] EXCEPT !.at = "saving", !.i = None])
         ELSE \E i \in Owner(req[q].o) : Becomes(q, [req[q] EXCEPT !.at = "saving", !.i = i])
    /\ UNCHANGED <<session, late, account, token, used, history>>

FindExisting(q) ==
    /\ At(q, "finding")
    /\ IF Owner(req[q].o) = {}
         THEN Becomes(q, [req[q] EXCEPT !.at = "saving", !.i = None])
         ELSE \E i \in Owner(req[q].o) :
                 Becomes(q, IF account[i].status = "bound"
                              THEN Failing(q)              \* ConflictException
                              ELSE [req[q] EXCEPT !.at = "saving", !.i = i])
    /\ UNCHANGED <<session, late, account, token, used, history>>

(* save() of the entity found, or of a new one.                             *)
SaveAccount(q) ==
    /\ At(q, "saving")
    /\ \E i \in IF req[q].i # None THEN {req[q].i} ELSE Ids \ used :
          IF Owner(req[q].o) \subseteq {i}
            THEN /\ account' = [account EXCEPT ![i] = [openId |-> req[q].o,
                                                       status |-> "bound"]]
                 /\ used' = used \cup {i}
                 /\ Becomes(q, [req[q] EXCEPT !.at = "tokening", !.i = i])
            ELSE /\ Becomes(q, Failing(q))                 \* unique index
                 /\ UNCHANGED <<account, used>>
    /\ UNCHANGED <<session, late, token, history>>

(* Mutant: the session is closed before the token is saved.                 *)
SkipToken(q) ==
    /\ At(q, "tokening")
    /\ Becomes(q, [req[q] EXCEPT !.at = "closing", !.as = "success"])
    /\ UNCHANGED <<session, late, account, token, used, history>>

(* persistToken: update or insert, refused by the foreign key when the      *)
(* account is gone.                                                         *)
SaveToken(q) ==
    /\ At(q, "tokening")
    /\ IF Exists(req[q].i)
         THEN /\ token' = token \cup {req[q].i}
              /\ granted' = granted \cup {req[q].i}
              /\ mishaps' = mishaps \ {req[q].i}
              /\ Becomes(q, [req[q] EXCEPT !.at = "closing", !.as = "success"])
         ELSE /\ Becomes(q, Failing(q))
              /\ UNCHANGED <<token, granted, mishaps>>
    /\ UNCHANGED <<session, late, account, used, lapsed>>

(* The provider or MySQL refuses: the catch block fails the session.        *)
BindFails(q) ==
    /\ req[q].at \in {"exchanging", "finding", "saving", "tokening"}
    /\ Becomes(q, Failing(q))
    /\ mishaps' = IF At(q, "tokening") THEN mishaps \cup {req[q].i} ELSE mishaps
    /\ UNCHANGED <<session, late, account, token, used, granted, lapsed>>

(* save() of the successful session fails: the catch block saves it failed. *)
CloseFails(q) ==
    /\ At(q, "closing") /\ req[q].as = "success"
    /\ Becomes(q, [req[q] EXCEPT !.as = "failed"])
    /\ UNCHANGED <<session, late, account, token, used, history>>

----------------------------------------------------------------------------
(* Accounts: unbindAccount, updateAccountStatus, updateAccountNickname and  *)
(* refreshAccountToken.                                                     *)

FindAccount(q, i, r) ==
    /\ req[q] = Idle
    /\ Exists(i)
    /\ Becomes(q, [r EXCEPT !.i = i, !.o = account[i].openId])
    /\ UNCHANGED <<session, late, account, token, used, history>>

BeginUnbind(q, i) == FindAccount(q, i, [Idle EXCEPT !.at = "untoken"])
BeginEdit(q, i) ==
    \E st \in Statuses : FindAccount(q, i, [Idle EXCEPT !.at = "editing", !.as = st])
BeginRenew(q, i) ==
    /\ i \in token
    /\ FindAccount(q, i, [Idle EXCEPT !.at = "renewing", !.as = "bound"])

UnbindToken(q) ==
    /\ At(q, "untoken")
    /\ token' = token \ {req[q].i}
    /\ Moves(q, "unaccount")
    /\ UNCHANGED <<session, late, account, used, history>>

UnbindAccount(q) ==
    /\ At(q, "unaccount")
    /\ account' = [account EXCEPT ![req[q].i] = NoRow]
    /\ token' = token \ {req[q].i}                         \* ON DELETE CASCADE
    /\ lapsed' = lapsed \cup {req[q].i}
    /\ mishaps' = mishaps \ {req[q].i}
    /\ Ends(q)
    /\ UNCHANGED <<session, late, used, granted>>

(* persistToken of the renewed token.                                       *)
RenewToken(q) ==
    /\ At(q, "renewing")
    /\ IF Exists(req[q].i)
         THEN /\ token' = token \cup {req[q].i}
              /\ mishaps' = mishaps \ {req[q].i}
              /\ granted' = granted \cup {req[q].i}
              /\ Moves(q, "editing")
         ELSE Ends(q) /\ UNCHANGED <<token, granted, mishaps>>
    /\ UNCHANGED <<session, late, account, used, lapsed>>

(* save() of the held account.                                              *)
SaveEdit(q) ==
    /\ At(q, "editing")
    /\ IF Owner(req[q].o) \subseteq {req[q].i}
         THEN /\ account' = [account EXCEPT ![req[q].i] = [openId |-> req[q].o,
                                                           status |-> req[q].as]]
              /\ mishaps' = IF Exists(req[q].i) THEN mishaps ELSE mishaps \cup {req[q].i}
              /\ lapsed' = IF req[q].as = "bound" THEN lapsed ELSE lapsed \cup {req[q].i}
         ELSE UNCHANGED <<account, mishaps, lapsed>>       \* unique index: 500
    /\ Ends(q)
    /\ UNCHANGED <<session, late, token, used, granted>>

----------------------------------------------------------------------------
(* The process dies, or MySQL refuses a step that nothing catches.          *)
RequestDies(q) ==
    /\ req[q] # Idle
    /\ Ends(q)
    /\ mishaps' = IF req[q].at \in {"tokening", "unaccount"}
                    THEN mishaps \cup {req[q].i} ELSE mishaps
    /\ UNCHANGED <<session, late, account, token, used, granted, lapsed>>

Next ==
    \/ \E s \in Sessions : StartBind(s) \/ Elapse(s)
    \/ RefreshPlatforms
    \/ \E q \in Requests, s \in Sessions :
          BeginBind(q, s) \/ FindLate(q, s) \/ CallbackError(q, s)
    \/ \E q \in Requests, i \in Ids :
          BeginUnbind(q, i) \/ BeginEdit(q, i) \/ BeginRenew(q, i)
    \/ \E q \in Requests :
          \/ Exchange(q) \/ FindExisting(q) \/ SaveAccount(q) \/ SaveToken(q)
          \/ SaveSession(q) \/ BindFails(q) \/ CloseFails(q)
          \/ UnbindToken(q) \/ UnbindAccount(q) \/ RenewToken(q) \/ SaveEdit(q)
          \/ RequestDies(q)

Spec == Init /\ [][Next]_vars

----------------------------------------------------------------------------
Handles(q, i, steps) == req[q].i = i /\ req[q].at \in steps

(* The steps of saveBoundAccount and of unbindAccount are no transaction,   *)
(* and yet an account lacks its token only between two steps of one of      *)
(* them, or after one of three accidents: a bind broke off before its token *)
(* was saved, an unbind broke off after its token was deleted, or an edit   *)
(* or renewal saved an account that was unbound meanwhile.                  *)
AccountHasToken ==
    \A i \in Ids : Exists(i) =>
        \/ i \in token
        \/ \E q \in Requests : Handles(q, i, {"tokening", "unaccount"})
        \/ i \in mishaps

(* A session that says success names an account that got its token, however *)
(* many callbacks, polls and cancellations ran into each other.             *)
SuccessIsBacked ==
    \A s \in Sessions : session[s].status = "success" => session[s].account \in granted

(* An account that was never marked expired nor unbound is the result of    *)
(* one session only: concurrent binds of one openId do not both succeed.    *)
BoundOnce ==
    \A s, t \in Sessions :
        /\ session[s].status = "success" /\ session[t].status = "success"
        /\ session[s].account = session[t].account
        => s = t \/ session[s].account \in lapsed

(* The inductive invariant.  Sound: what a request holds fits its next step. *)
(* OneClaim: a session, or a request that is about to make it one, claims   *)
(* an account that never lapsed, and nobody else does.                      *)
Sound(r) ==
    /\ r.at \in {"exchanging", "finding", "saving", "tokening", "closing"} => r.s \in Sessions
    /\ r.at \in Steps \ {"exchanging", "closing"} => r.o \in OpenIds
    /\ r.at \in {"untoken", "unaccount", "renewing", "editing", "tokening"} => r.i \in used
    /\ r.at = "saving" => r.i = None \/ r.i \in used \cap lapsed
    /\ r.at \in {"renewing", "editing"} => r.as \in Statuses
    /\ r.at = "closing" => r.as \in Outcomes /\ (r.as = "success" => r.i \in granted)

StepInv == granted \subseteq used /\ \A q \in Requests : Sound(req[q])

StatusInv == \A i \in Ids : account[i].status # "bound" => i \in lapsed

Claims(r, i) == r.i = i /\ (r.at = "tokening" \/ (r.at = "closing" /\ r.as = "success"))
Holds(s, i) == session[s].status = "success" /\ session[s].account = i

OneClaim ==
    \A i \in Ids \ lapsed :
        /\ \A q, r \in Requests : Claims(req[q], i) /\ Claims(req[r], i) => q = r
        /\ \A q \in Requests, s \in Sessions : Claims(req[q], i) => ~Holds(s, i)
        /\ \A s, t \in Sessions : Holds(s, i) /\ Holds(t, i) => s = t

BindInv ==
    TypeOK /\ StepInv /\ StatusInv /\ OneClaim /\ SuccessIsBacked /\ AccountHasToken

=============================================================================
