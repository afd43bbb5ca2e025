---------------------------- MODULE AuthSession ----------------------------
(***************************************************************************)
(* Logging in and staying logged in: auth/auth.go, auth/session.go and the *)
(* login and logout handlers, over restarts of the helper (HelperLife).    *)
(*                                                                         *)
(* The helper keeps no sessions.  A cookie carries the time it was issued, *)
(* in whole seconds, and a signature; a form carries a token made from the *)
(* cookie.  A signature or a token is as good as what it was made from.    *)
(*                                                                         *)
(* One browser, whose tabs share its cookie.  Ages saturate one tick past  *)
(* the TTL.  HELPER_SESSION_TTL is positive.                               *)
(***************************************************************************)
EXTENDS HelperLife

CONSTANTS
    MaxLogins,  \* bounds the logins
    Secrets,    \* values of HELPER_COOKIE_SECRET
    TTL,        \* HELPER_SESSION_TTL, in ticks
    Second      \* ticks in a second

ASSUME AuthAssumption ==
    /\ MaxLogins \in Nat
    /\ TTL \in Nat \ {0}
    /\ Second \in Nat \ {0}

VARIABLES
    secret,     \* the secret the helper runs with
    signed,     \* the secret each cookie was signed with; {} if it was not issued
    age,        \* time since each cookie was issued
    part,       \* how far into its second it was issued
    jar,        \* the browser's kfrs_sid cookie
    sent,       \* the cookie of the request each tab has under way
    shown,      \* what each tab shows
    \* history, read by the properties only
    rekeyed     \* whether the secret was ever changed

authVars == <<secret, signed, age, part, jar, sent, shown, rekeyed>>
vars == <<lifeVars, authVars>>

\* Cookies are told apart by the login they come from.
Cookies == 1 .. MaxLogins
NoCookie == 0

Issued(c) == signed[c] # {}

Token(c) == [secret |-> secret, cookie |-> c]
Tokens == [secret : Secrets, cookie : Cookies]
NoToken == [secret |-> {}, cookie |-> NoCookie]

\* A page has a token in its forms, if it has forms.
Page(kind, token) == [kind |-> kind, token |-> token]
Plain(kind) == Page(kind, NoToken)

Display(t, pg) == shown' = [shown EXCEPT ![t] = pg]

\* Mutant of Verify: the second in which the time runs out counts as over.
VerifyEarly(c) == signed[c] = {secret} /\ age[c] + part[c] + Second <= TTL

\* SessionStore.Verify: now is not after the second of issue plus the TTL.
Verify(c) == signed[c] = {secret} /\ age[c] + part[c] <= TTL

\* Max-Age, in ticks: the TTL in whole seconds; without any, the browser's own time.
MaxAge == (TTL \div Second) * Second

-----------------------------------------------------------------------------

AuthInit ==
    /\ secret \in Secrets
    /\ signed = [c \in Cookies |-> {}]
    /\ age = [c \in Cookies |-> 0]
    /\ part = [c \in Cookies |-> 0]
    /\ jar = NoCookie
    /\ sent = [t \in Tabs |-> NoCookie]
    /\ shown = [t \in Tabs |-> Plain("blank")]
    /\ rekeyed = FALSE

Init == LifeInit /\ AuthInit

\* The deployment is given another HELPER_COOKIE_SECRET.
Rekey(s) ==
    /\ phase = "down"
    /\ s # secret
    /\ secret' = s
    /\ rekeyed' = TRUE
    /\ UNCHANGED <<lifeVars, signed, age, part, jar, sent, shown>>

\* HandleLogin, with the right password; the redirect to /sessions follows.
HandleLogin(t, c, p) ==
    /\ phase = "serving" /\ req[t] # "running"
    /\ shown[t].kind = "login"
    /\ ~Issued(c) /\ \A d \in 1 .. c - 1 : Issued(d)
    /\ signed' = [signed EXCEPT ![c] = {secret}]
    /\ part' = [part EXCEPT ![c] = p]
    /\ jar' = c
    /\ Display(t, Plain("blank"))
    /\ UNCHANGED <<lifeVars, secret, age, sent, rekeyed>>

\* handleLogout: the browser drops its cookie.
handleLogout(t) ==
    /\ phase = "serving" /\ req[t] # "running"
    /\ jar' = NoCookie
    /\ Display(t, Plain("login"))
    /\ UNCHANGED <<lifeVars, secret, signed, age, part, sent, rekeyed>>

\* A link is followed: RequireAuth lets a GET through, or sends the tab to /login.
Get(t) ==
    /\ IF jar # NoCookie /\ Verify(jar)
          THEN /\ Begin(t)
               /\ sent' = [sent EXCEPT ![t] = jar]
               /\ UNCHANGED shown
          ELSE /\ phase = "serving" /\ req[t] # "running"
               /\ Display(t, Plain("login"))
               /\ UNCHANGED <<lifeVars, sent>>
    /\ UNCHANGED <<secret, signed, age, part, jar, rekeyed>>

\* A form is sent: RequireAuth looks at the token as well, and answers 403.
Post(t) ==
    /\ shown[t].kind = "page"
    /\ IF jar # NoCookie /\ Verify(jar)
          THEN IF shown[t].token = Token(jar)
                  THEN /\ Begin(t)
                       /\ sent' = [sent EXCEPT ![t] = jar]
                       /\ UNCHANGED shown
                  ELSE /\ phase = "serving" /\ req[t] # "running"
                       /\ Display(t, Plain("forbidden"))
                       /\ UNCHANGED <<lifeVars, sent>>
          ELSE /\ phase = "serving" /\ req[t] # "running"
               /\ Display(t, Plain("login"))
               /\ UNCHANGED <<lifeVars, sent>>
    /\ UNCHANGED <<secret, signed, age, part, jar, rekeyed>>

\* Mutant of Answer: the handler does not pass the token to its template.
AnswerWithoutToken(t) ==
    /\ Finish(t)
    /\ Display(t, Plain("page"))
    /\ sent' = [sent EXCEPT ![t] = NoCookie]
    /\ UNCHANGED <<secret, signed, age, part, jar, rekeyed>>

\* The handler renders its page, with the token for the cookie it was asked with; or
\* an error page, which has no form.
Answer(t) ==
    /\ Finish(t)
    /\ Display(t, Page("page", Token(sent[t]))) \/ Display(t, Plain("blank"))
    /\ sent' = [sent EXCEPT ![t] = NoCookie]
    /\ UNCHANGED <<secret, signed, age, part, jar, rekeyed>>

\* External: the browser drops its cookie when Max-Age is over, or when it is closed.
DropCookie ==
    /\ jar # NoCookie
    /\ jar' = NoCookie
    /\ UNCHANGED <<lifeVars, secret, signed, age, part, sent, shown, rekeyed>>

\* Time passes; the browser does not keep a cookie past its Max-Age.
ClockTick ==
    /\ WaitTick
    /\ age' = [c \in Cookies |-> IF Issued(c) /\ age[c] <= TTL THEN age[c] + 1 ELSE age[c]]
    /\ jar' = IF jar # NoCookie /\ MaxAge > 0 /\ age'[jar] > MaxAge THEN NoCookie ELSE jar
    /\ UNCHANGED <<phase, fault, cause, blamed, exit, req>>
    /\ UNCHANGED <<secret, signed, part, sent, shown, rekeyed>>

\* The process starts, or something ends it; the browser keeps what it has.
ProcessStep ==
    /\ Start \/ Process
    /\ sent' = [t \in Tabs |-> IF req'[t] = "running" THEN sent[t] ELSE NoCookie]
    /\ UNCHANGED <<secret, signed, age, part, jar, shown, rekeyed>>

Next ==
    \/ ProcessStep
    \/ \E s \in Secrets : Rekey(s)
    \/ \E t \in Tabs :
          \/ \E c \in Cookies, p \in 0 .. Second - 1 : HandleLogin(t, c, p)
          \/ handleLogout(t)
          \/ Get(t)
          \/ Post(t)
          \/ Answer(t)
    \/ DropCookie
    \/ ClockTick

Spec == Init /\ [][Next]_vars

(***************************************************************************)
(* Time passes, and what the process can do by itself it does.  Handlers   *)
(* owe nothing: a download takes as long as the browser cares to read.     *)
(***************************************************************************)
Fairness ==
    /\ WF_vars(ClockTick)
    /\ WF_vars((Drained \/ DrainTimeout) /\ ProcessStep)

FairSpec == Spec /\ Fairness

-----------------------------------------------------------------------------
(***************************************************************************)
(* Properties                                                              *)
(***************************************************************************)

TypeOK ==
    /\ LifeTypeOK
    /\ secret \in Secrets
    /\ signed \in [Cookies -> SUBSET Secrets]
    /\ age \in [Cookies -> 0 .. TTL + 1]
    /\ part \in [Cookies -> 0 .. Second - 1]
    /\ jar \in Cookies \cup {NoCookie}
    /\ sent \in [Tabs -> Cookies \cup {NoCookie}]
    /\ shown \in [Tabs -> [kind : {"blank", "login", "forbidden", "page"}, token : Tokens \cup {NoToken}]]
    /\ rekeyed \in BOOLEAN

\* A login lasts as long as configured, to the second, over every restart that keeps
\* the secret: a tab whose browser still has the cookie is sent to /login only in the
\* last second of its time, and after that time no request is let through.
LoginLasts ==
    [][\A t \in Tabs :
          /\ /\ shown[t].kind # "login" /\ shown'[t].kind = "login"
             /\ jar' = jar /\ jar # NoCookie /\ ~rekeyed
             => age[jar] + Second > TTL
          /\ req[t] # "running" /\ req'[t] = "running" => age[jar] <= TTL]_vars

\* A form is answered with 403 only if the browser has logged in anew, or the secret
\* has been changed, since the first login: no restart and no lapse of time is enough.
ForbiddenNeedsLogin ==
    (\E t \in Tabs : shown[t].kind = "forbidden") =>
        rekeyed \/ \E c, d \in Cookies : c # d /\ Issued(c) /\ Issued(d)

=============================================================================
