------------------------------- MODULE SignIn -------------------------------
(***************************************************************************)
(* Signing in with one phone number (AuthService, CaptchaService,          *)
(* SmsService, UserService, JwtStrategy): captchas and SMS codes live in    *)
(* Redis until they are used or expire, every sign-in raises the token      *)
(* version of the user, and a token is good while it carries that version. *)
(* Each call of Redis or the database is one action.  A code is never       *)
(* drawn twice; an invitation that is refused is a request that breaks off. *)
(***************************************************************************)
EXTENDS Integers, FiniteSets

CONSTANTS
    Captchas,    \* ids of captchas; each has one answer
    Codes,       \* SMS codes
    Passwords,
    Requests,    \* requests served at a time
    None

ASSUME SignInAssumption ==
    /\ None \notin Captchas \cup Codes \cup Passwords
    /\ Captchas \cap Codes = {} /\ Captchas \cap {"register", "reset"} = {}

VARIABLES
    user,        \* password and token version of the user (password None: no row)
    tokens,      \* tokens given out
    store,       \* Redis: the answer of each captcha, the code of each purpose
    cooldown,    \* Redis: purposes for which no code is sent
    req,         \* what each request is about to do, and what it holds
    drawn,       \* captchas and codes ever drawn
    accepted,    \* history: how often each captcha or code was accepted
    loose,       \* history: accepted ones that somebody else could read again
    half         \* history: a reset broke off before it raised the version

vars == <<user, tokens, store, cooldown, req, drawn, accepted, loose, half>>
redis == <<store, cooldown, drawn>>
history == <<accepted, loose, half>>

Purposes == {"register", "reset"}
Keys == Captchas \cup Purposes
Tickets == Captchas \cup Codes
Idle == [op |-> "none", at |-> "idle", key |-> None, pw |-> None, own |-> 0, late |-> FALSE]
Ops == {"none", "send", "miss", "login", "register", "reset"}
Steps == {"idle", "sending", "deleting", "finding", "inserting", "updating", "raising", "reading"}

Tokens == [tv : Nat, own : Nat, pw : Passwords, late : BOOLEAN, by : Requests]
RequestStates == [op : Ops, at : Steps, key : Keys \cup {None}, pw : Passwords \cup {None},
                  own : Nat, late : BOOLEAN]

Registered == user.pw # None
Accepted == { t \in tokens : t.tv = user.tv }    \* JwtStrategy.validate

(* Types; the version never goes back behind a token.                       *)
TypeOK ==
    /\ user \in [pw : Passwords \cup {None}, tv : Nat]
    /\ tokens \subseteq Tokens
    /\ \A t \in tokens : t.own <= t.tv /\ t.tv <= user.tv
    /\ store \in [Keys -> Tickets \cup {None}]
    /\ cooldown \subseteq Purposes
    /\ req \in [Requests -> RequestStates]
    /\ drawn \subseteq Tickets /\ loose \subseteq Tickets
    /\ accepted \in [Tickets -> 0..2] /\ half \in BOOLEAN

Init ==
    /\ user = [pw |-> None, tv |-> 0] /\ tokens = {}
    /\ store = [k \in Keys |-> None] /\ cooldown = {}
    /\ req = [q \in Requests |-> Idle]
    /\ drawn = {} /\ loose = {} /\ half = FALSE
    /\ accepted = [t \in Tickets |-> 0]

At(q, step) == req[q].at = step
Becomes(q, r) == req' = [req EXCEPT ![q] = r]
Moves(q, step) == Becomes(q, [req[q] EXCEPT !.at = step])
Ends(q) == Becomes(q, Idle)

----------------------------------------------------------------------------
(* Captchas and codes.                                                      *)

DrawCaptcha(k) ==                                \* CaptchaService.generate
    /\ k \notin drawn
    /\ store' = [store EXCEPT ![k] = k]
    /\ drawn' = drawn \cup {k}
    /\ UNCHANGED <<user, tokens, cooldown, req, history>>

(* sendCode: the phone and the cooldown are looked up, the message is sent,  *)
(* then code and cooldown are stored together.                              *)
BeginSend(q, p) ==
    /\ req[q] = Idle
    /\ Registered <=> p = "reset"
    /\ p \notin cooldown
    /\ Becomes(q, [Idle EXCEPT !.op = "send", !.at = "sending", !.key = p])
    /\ UNCHANGED <<user, tokens, redis, history>>

StoreCode(q, c) ==
    /\ At(q, "sending") /\ c \notin drawn
    /\ store' = [store EXCEPT ![req[q].key] = c]
    /\ cooldown' = cooldown \cup {req[q].key}
    /\ drawn' = drawn \cup {c}
    /\ Ends(q)
    /\ UNCHANGED <<user, tokens, history>>

(* The time to live is over.                                                *)
Expire(k) ==
    /\ store[k] # None
    /\ store' = [store EXCEPT ![k] = None]
    /\ UNCHANGED <<user, tokens, cooldown, req, drawn, history>>

CoolDown(p) ==
    /\ p \in cooldown
    /\ cooldown' = cooldown \ {p}
    /\ UNCHANGED <<user, tokens, store, req, drawn, history>>

Stored(k) == store[k] # None

Again(n) == IF n = 2 THEN 2 ELSE n + 1          \* twice is as bad as thrice

(* The client sends what is stored (a wrong code changes nothing); from here *)
(* to the deletion another request can read the same.                       *)
Present(q, op, k, pw) ==
    /\ req[q] = Idle /\ Stored(k)
    /\ Becomes(q, [Idle EXCEPT !.op = op, !.at = "deleting", !.key = k, !.pw = pw])
    /\ accepted' = [t \in Tickets |-> IF t = store[k] THEN Again(accepted[t]) ELSE accepted[t]]
    /\ loose' = IF \E o \in Requests : At(o, "deleting") /\ req[o].key = k
                THEN loose \cup ({store[k]} \cap Tickets) ELSE loose
    /\ UNCHANGED <<user, tokens, redis, half>>

BeginLogin(q, k, pw) == Present(q, "login", k, pw)
BeginRegister(q, pw) == ~Registered /\ Present(q, "register", "register", pw)
BeginReset(q, pw) == Registered /\ Present(q, "reset", "reset", pw)

(* A captcha with a wrong answer is deleted, too.                           *)
BeginMiss(q, k) ==
    /\ req[q] = Idle /\ Stored(k)
    /\ Becomes(q, [Idle EXCEPT !.op = "miss", !.at = "deleting", !.key = k])
    /\ UNCHANGED <<user, tokens, redis, history>>

(* Mutant: the code stays until it expires.                                 *)
KeyKept(k) == store

KeyDeleted(k) == [store EXCEPT ![k] = None]

AfterCode == [login |-> "finding", register |-> "inserting", reset |-> "updating"]

DeleteCode(q) ==
    /\ At(q, "deleting")
    /\ store' = KeyDeleted(req[q].key)
    /\ IF req[q].op = "miss" THEN Ends(q)
       ELSE Becomes(q, [req[q] EXCEPT !.at = AfterCode[req[q].op], !.key = None])
    /\ UNCHANGED <<user, tokens, cooldown, drawn, history>>

----------------------------------------------------------------------------
(* Users.                                                                   *)

FindUser(q) ==                                   \* findByPhone, argon2.verify
    /\ At(q, "finding")
    /\ IF Registered /\ user.pw = req[q].pw THEN Moves(q, "raising") ELSE Ends(q)
    /\ UNCHANGED <<user, tokens, redis, history>>

PhoneFree == ~Registered

InsertUser(q) ==
    /\ At(q, "inserting")
    /\ IF PhoneFree THEN user' = [pw |-> req[q].pw, tv |-> 0] /\ Moves(q, "raising")
       ELSE Ends(q) /\ UNCHANGED user
    /\ UNCHANGED <<tokens, redis, history>>

UpdatePassword(q) ==
    /\ At(q, "updating")
    /\ user' = [user EXCEPT !.pw = req[q].pw]
    /\ Moves(q, "raising")
    /\ UNCHANGED <<tokens, redis, history>>

(* Mutant: signing in keeps the version.                                    *)
ResetRaises(op) == IF op = "reset" THEN user.tv + 1 ELSE user.tv

(* Mutant: a reset keeps the version.                                       *)
LoginRaises(op) == IF op = "reset" THEN user.tv ELSE user.tv + 1

Raised(op) == user.tv + 1

(* incrementTokenVersion: UPDATE, then SELECT; a reset drops what it reads.  *)
(* A token of an older version is refused for ever, and no longer looked at. *)
RaiseVersion(q) ==
    /\ At(q, "raising")
    /\ user' = [user EXCEPT !.tv = Raised(req[q].op)]
    /\ half' = FALSE
    /\ IF req[q].op = "reset" THEN Ends(q)
       ELSE Becomes(q, [req[q] EXCEPT !.at = "reading", !.own = user'.tv,
                                      !.late = user.pw # req[q].pw])
    /\ tokens' = { t \in tokens : t.tv >= user'.tv }
    /\ UNCHANGED <<redis, accepted, loose>>

SignToken(q) ==
    /\ At(q, "reading")
    /\ tokens' = tokens \cup {[tv |-> user.tv, own |-> req[q].own, pw |-> req[q].pw,
                               late |-> req[q].late, by |-> q]}
    /\ Ends(q)
    /\ UNCHANGED <<user, redis, history>>

(* The process stops, a service refuses, or the invitation is not valid.    *)
RequestDies(q) ==
    /\ req[q] # Idle
    /\ loose' = IF At(q, "deleting") THEN loose \cup ({store[req[q].key]} \cap Tickets) ELSE loose
    /\ half' = (half \/ (At(q, "raising") /\ req[q].op = "reset"))
    /\ Ends(q)
    /\ UNCHANGED <<user, tokens, redis, accepted>>

Next ==
    \/ \E q \in Requests :
        \/ \E p \in Purposes : BeginSend(q, p)
        \/ \E c \in Codes : StoreCode(q, c)
        \/ \E pw \in Passwords :
            \/ \E k \in Captchas : BeginLogin(q, k, pw)
            \/ BeginRegister(q, pw)
            \/ BeginReset(q, pw)
        \/ \E k \in Captchas : BeginMiss(q, k)
        \/ DeleteCode(q) \/ FindUser(q) \/ InsertUser(q) \/ UpdatePassword(q)
        \/ RaiseVersion(q) \/ SignToken(q) \/ RequestDies(q)
    \/ \E k \in Captchas : DrawCaptcha(k)
    \/ \E k \in Keys : Expire(k)
    \/ \E p \in Purposes : CoolDown(p)

Spec == Init /\ [][Next]_vars

----------------------------------------------------------------------------
(* A sign-in ends the sessions of other devices: two tokens are good at a   *)
(* time only when one of them read the version another sign-in had raised   *)
(* after it, between the UPDATE and the SELECT of incrementTokenVersion.    *)
SingleSession ==
    \A t, o \in Accepted : t # o => t.own # t.tv \/ o.own # o.tv

(* A reset ends the sessions of the old password: a token that is good was  *)
(* got with the password in force, unless a reset is still to raise the     *)
(* version or broke off before, the version it carries was raised by        *)
(* another request, or the password changed between its check and its       *)
(* sign-in.                                                                 *)
OldPasswordOut ==
    \A t \in Accepted :
        \/ t.pw = user.pw \/ t.own # t.tv \/ t.late \/ half
        \/ \E q \in Requests : At(q, "raising") /\ req[q].op = "reset"

(* A captcha or a code is good for one request, unless two read it before   *)
(* one deleted it, or the one that read it broke off.                       *)
GoodForOne == \A t \in Tickets : accepted[t] > 1 => t \in loose

(* Nobody is registered without a code that was sent for it.                *)
AccountHadCode == Registered => \E c \in Codes : accepted[c] > 0

(* The inductive invariant.  Sound: what a request holds fits its next step, *)
(* and a request about to sign a token of the version in force had the       *)
(* password in force.  OwnInv: no two of the tokens and requests got the     *)
(* same version from their UPDATE.  StoreInv: what is stored was drawn, is   *)
(* stored once, and is not read a second time but by overlapping requests.  *)
ResetPending == \E q \in Requests : At(q, "raising") /\ req[q].op = "reset"
InForce(pw, late) == pw = user.pw \/ late \/ half \/ ResetPending
HadCode == \E c \in Codes : accepted[c] > 0

Sound(r) ==
    /\ r.at = "sending" => r.key \in Purposes
    /\ r.at = "deleting" => r.key \in Keys /\ r.op \in {"miss", "login", "register", "reset"}
    /\ r.at \in {"finding", "inserting", "updating", "raising", "reading"} => r.pw \in Passwords
    /\ r.at = "deleting" /\ r.op # "miss" => r.pw \in Passwords
    /\ r.at = "updating" => r.op = "reset"
    /\ r.at \in {"updating", "raising", "reading"} \/ r.op = "reset" => Registered
    /\ r.at = "inserting" \/ (r.at = "deleting" /\ r.op = "register") => HadCode
    /\ r.at = "reading" => /\ r.own <= user.tv
                           /\ r.own = user.tv => InForce(r.pw, r.late)

SoundInv == \A q \in Requests : Sound(req[q])

UserInv == ~Registered => user.tv = 0 /\ tokens = {}

OwnInv ==
    /\ \A t, o \in tokens : t.own = o.own => t = o
    /\ \A t \in tokens, q \in Requests : At(q, "reading") => t.own # req[q].own
    /\ \A q, r \in Requests : At(q, "reading") /\ At(r, "reading") /\ req[q].own = req[r].own
                             => q = r

Reread(k) == store[k] \in loose \/ \E q \in Requests : At(q, "deleting") /\ req[q].key = k

StoreInv ==
    /\ \A k \in Keys : Stored(k) => store[k] \in drawn
    /\ \A p \in Purposes : Stored(p) => store[p] \in Codes
    /\ \A k, l \in Keys : Stored(k) /\ store[k] = store[l] => k = l
    /\ \A t \in Tickets : accepted[t] > 0 => t \in drawn
    /\ \A k \in Keys : Stored(k) /\ accepted[store[k]] > 0 => Reread(k)

SignInv ==
    /\ TypeOK /\ SoundInv /\ UserInv /\ OwnInv /\ StoreInv
    /\ OldPasswordOut /\ GoodForOne /\ AccountHadCode
=============================================================================
