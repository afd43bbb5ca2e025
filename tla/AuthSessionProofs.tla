------------------------- MODULE AuthSessionProofs -------------------------
(***************************************************************************)
(* A shutdown that cuts a download shows, a failed start names the layer   *)
(* it failed at if the preflight probes it, and a login lasts over         *)
(* restarts, for any number of tabs and logins, any TTL and any set of     *)
(* faults.                                                                 *)
(***************************************************************************)
EXTENDS AuthSession, TLAPS

\* A process that runs has not ended, and has cut no request of its own.
AliveHasNoExit ==
    phase # "down" => exit = "none" /\ \A t \in Tabs : req[t] # "cut"

\* Requests are under way only in a process that runs.
DeadServesNobody == phase = "down" => \A t \in Tabs : req[t] # "running"

\* What the log and the error of a failed start are about is the same cluster.
Blame ==
    exit = "key" => /\ blamed = preflight(fault)
                    /\ \E sec \in SecretObj : cause = LoadOrGenerate(fault, sec)
                    /\ cause # "none"

\* The part of the invariant that is about the process.
LifeInv ==
    /\ LifeTypeOK
    /\ AliveHasNoExit
    /\ DeadServesNobody
    /\ Blame
    /\ CleanExit

\* The browser has, and sends, cookies that were issued; a request under way was let
\* through with one.
CookiesAreIssued ==
    /\ jar # NoCookie => Issued(jar)
    /\ \A t \in Tabs :
          /\ sent[t] # NoCookie => Issued(sent[t])
          /\ req[t] = "running" => sent[t] # NoCookie

\* As long as the secret is not changed, it is what every cookie is signed with.
SignedWithSecret == ~rekeyed => \A c \in Cookies : Issued(c) => signed[c] = {secret}

\* The token of a page was made from a cookie that was issued, with the secret.
TokensAreGood ==
    \A t \in Tabs : shown[t].kind = "page" =>
        /\ shown[t].token.cookie \in Cookies
        /\ Issued(shown[t].token.cookie)
        /\ ~rekeyed => shown[t].token.secret = secret

\* The inductive invariant.
Inv ==
    /\ TypeOK
    /\ LifeInv
    /\ CookiesAreIssued
    /\ SignedWithSecret
    /\ TokensAreGood
    /\ ForbiddenNeedsLogin

-----------------------------------------------------------------------------

\* Ending the process keeps the part about the process: the caller says that nothing
\* was cut if it claims a clean exit, and what was to blame if the key was.
LEMMA EndLife ==
  ASSUME LifeInv, phase # "down", NEW how \in Exit, End(how),
         fault' \subseteq Layers, blamed' \subseteq Layers,
         cause' \in Layers \cup {"secret", "none"},
         how = "ok" => \A t \in Tabs : req[t] # "running",
         how = "key" => /\ blamed' = preflight(fault')
                        /\ \E sec \in SecretObj : cause' = LoadOrGenerate(fault', sec)
                        /\ cause' # "none"
  PROVE  LifeInv'
<1> USE DEF LifeInv, LifeTypeOK, Phase, Exit, End
<1>1. \A t \in Tabs : req'[t] = IF req[t] = "running" THEN "cut" ELSE req[t]
  OBVIOUS
<1>2. LifeTypeOK'
  BY LifeAssumption
<1>3. AliveHasNoExit' /\ DeadServesNobody'
  BY <1>1 DEF AliveHasNoExit, DeadServesNobody
<1>4. Blame'
  BY DEF Blame
<1>5. CleanExit'
  BY <1>1 DEF CleanExit, AliveHasNoExit
<1> QED
  BY <1>2, <1>3, <1>4, <1>5

\* The preflight names layers only.
LEMMA PreflightNamesLayers ==
  ASSUME NEW f \in SUBSET Layers
  PROVE  preflight(f) \subseteq Layers /\ preflight(f) \subseteq f
  BY DEF preflight, Discovered, Layers

\* Whatever the process does by itself keeps the part about the process.
LEMMA ProcessLife == LifeInv /\ (Start \/ Process) => LifeInv'
<1> SUFFICES ASSUME LifeInv, Start \/ Process
             PROVE  LifeInv'
  OBVIOUS
<1> USE LifeAssumption
<1>1. CASE Start
  BY <1>1 DEF Start, LifeInv, LifeTypeOK, Phase, Exit, Layers, AliveHasNoExit,
              DeadServesNobody, Blame, CleanExit
<1>2. CASE StartFails
  BY <1>2, EndLife DEF StartFails, LifeInv, LifeTypeOK, Exit
<1>3. ASSUME NEW f \in Faults, NEW sec \in SecretObj, LoadKey(f, sec)
      PROVE  LifeInv'
  <2>1. f \subseteq Layers
    OBVIOUS
  <2>2. CASE LoadOrGenerate(f, sec) = "none"
    BY <1>3, <2>2 DEF LoadKey, LifeInv, LifeTypeOK, Phase, AliveHasNoExit, DeadServesNobody,
                      Blame, CleanExit
  <2>3. CASE LoadOrGenerate(f, sec) # "none"
    <3>1. /\ fault' = f /\ cause' = LoadOrGenerate(f, sec) /\ blamed' = preflight(f)
          /\ phase # "down" /\ End("key")
      BY <1>3, <2>3 DEF LoadKey
    <3>2. LoadOrGenerate(f, sec) \in Layers \cup {"secret", "none"}
      BY DEF LoadOrGenerate, Layers
    <3> QED
      BY <2>1, <2>3, <3>1, <3>2, EndLife, PreflightNamesLayers DEF Exit
  <2> QED
    BY <2>2, <2>3
<1>4. CASE Terminate
  <2>1. CASE phase = "starting" /\ End("killed") /\ UNCHANGED <<fault, cause, blamed>>
    BY <2>1, EndLife DEF LifeInv, LifeTypeOK, Exit
  <2>2. CASE phase = "serving"
    BY <1>4, <2>2 DEF Terminate, LifeInv, LifeTypeOK, Phase, AliveHasNoExit, DeadServesNobody,
                      Blame, CleanExit
  <2> QED
    BY <1>4, <2>1, <2>2 DEF Terminate
<1>5. CASE Drained
  BY <1>5, EndLife DEF Drained, LifeInv, LifeTypeOK, Exit
<1>6. CASE DrainTimeout \/ ServeFails \/ Kill
  BY <1>6, EndLife DEF DrainTimeout, ServeFails, Kill, LifeInv, LifeTypeOK, Exit
<1> QED
  BY <1>1, <1>2, <1>3, <1>4, <1>5, <1>6 DEF Process

\* What the browser does is a request that begins or ends, the passing of time, or
\* nothing to the process.
LEMMA BrowserLife ==
  ASSUME LifeInv,
         \/ UNCHANGED lifeVars
         \/ \E t \in Tabs : Begin(t) \/ Finish(t)
         \/ WaitTick /\ UNCHANGED <<phase, fault, cause, blamed, exit, req>>
  PROVE  LifeInv'
<1> USE LifeAssumption
    DEF LifeInv, LifeTypeOK, AliveHasNoExit, DeadServesNobody, Blame, CleanExit
<1>1. CASE UNCHANGED lifeVars
  BY <1>1 DEF lifeVars
<1>2. ASSUME NEW t \in Tabs, Begin(t) \/ Finish(t)
      PROVE  LifeInv'
  BY <1>2 DEF Begin, Finish
<1>3. CASE WaitTick /\ UNCHANGED <<phase, fault, cause, blamed, exit, req>>
  BY <1>3 DEF WaitTick
<1> QED
  BY <1>1, <1>2, <1>3

-----------------------------------------------------------------------------

\* A freshly installed helper satisfies the invariant.
LEMMA InitInv == Init => Inv
<1> SUFFICES ASSUME Init
             PROVE  Inv
  OBVIOUS
<1> USE LifeAssumption, AuthAssumption DEF Init, LifeInit, AuthInit, Plain, Page, NoToken, NoCookie
<1>1. LifeInv
  BY DEF LifeInv, LifeTypeOK, Phase, Exit, AliveHasNoExit, DeadServesNobody, Blame,
         CleanExit
<1>2. TypeOK
  <2>1. /\ age \in [Cookies -> 0 .. TTL + 1]
        /\ part \in [Cookies -> 0 .. Second - 1]
    OBVIOUS
  <2>2. shown \in [Tabs -> [kind : {"blank", "login", "forbidden", "page"},
                           token : Tokens \cup {NoToken}]]
    OBVIOUS
  <2> QED
    BY <1>1, <2>1, <2>2 DEF LifeInv, TypeOK
<1>3. CookiesAreIssued /\ SignedWithSecret /\ TokensAreGood /\ ForbiddenNeedsLogin
  BY DEF CookiesAreIssued, SignedWithSecret, TokensAreGood, ForbiddenNeedsLogin, Issued
<1> QED
  BY <1>1, <1>2, <1>3 DEF Inv

\* A cookie that is let through is one of the browser's, and was signed with the secret.
LEMMA VerifiedIsIssued ==
  ASSUME TypeOK, jar # NoCookie, Verify(jar)
  PROVE  jar \in Cookies /\ Issued(jar) /\ age[jar] <= TTL
<1>1. jar \in Cookies
  BY DEF TypeOK
<1>2. age[jar] \in Nat /\ part[jar] \in Nat /\ TTL \in Nat
  BY <1>1, AuthAssumption DEF TypeOK
<1> QED
  BY <1>1, <1>2 DEF Verify, Issued

\* A request begins with the browser's cookie, or the tab is shown a page without a
\* form: the common part of Get and Post.
LEMMA RequestInv ==
  ASSUME Inv, LifeInv', NEW t \in Tabs,
         UNCHANGED <<secret, signed, age, part, jar, rekeyed>>,
         \/ /\ jar # NoCookie /\ Verify(jar)
            /\ Begin(t)
            /\ sent' = [sent EXCEPT ![t] = jar]
            /\ UNCHANGED shown
         \/ /\ \E kind \in {"login", "blank"} : Display(t, Plain(kind))
            /\ UNCHANGED <<lifeVars, sent>>
  PROVE  Inv'
<1> USE DEF Inv
<1>1. CASE /\ jar # NoCookie /\ Verify(jar)
           /\ Begin(t)
           /\ sent' = [sent EXCEPT ![t] = jar]
           /\ UNCHANGED shown
  <2>1. jar \in Cookies /\ Issued(jar)
    BY <1>1, VerifiedIsIssued
  <2>2. TypeOK'
    BY <1>1, <2>1 DEF TypeOK, LifeInv
  <2>3. CookiesAreIssued'
    BY <1>1, <2>1 DEF CookiesAreIssued, Issued, Begin, TypeOK, LifeTypeOK
  <2>4. SignedWithSecret' /\ TokensAreGood' /\ ForbiddenNeedsLogin'
    BY <1>1 DEF SignedWithSecret, TokensAreGood, ForbiddenNeedsLogin, Issued
  <2> QED
    BY <2>2, <2>3, <2>4
<1>2. ASSUME NEW kind \in {"login", "blank"}, Display(t, Plain(kind)), UNCHANGED <<lifeVars, sent>>
      PROVE  Inv'
  <2>1. TypeOK'
    BY <1>2 DEF TypeOK, LifeInv, Display, Plain, Page
  <2>2. CookiesAreIssued' /\ SignedWithSecret'
    BY <1>2 DEF CookiesAreIssued, SignedWithSecret, Issued, lifeVars
  <2>3. TokensAreGood' /\ ForbiddenNeedsLogin'
    BY <1>2 DEF TokensAreGood, ForbiddenNeedsLogin, Issued, Display, Plain, Page, TypeOK
  <2> QED
    BY <2>1, <2>2, <2>3
<1> QED
  BY <1>1, <1>2

\* A form is refused only if the browser has more than one cookie behind it, or the
\* secret has changed.
LEMMA RefusalInv ==
  ASSUME Inv, LifeInv', NEW t \in Tabs, shown[t].kind = "page",
         jar # NoCookie, Verify(jar), shown[t].token # Token(jar),
         Display(t, Plain("forbidden")),
         UNCHANGED <<lifeVars, sent, secret, signed, age, part, jar, rekeyed>>
  PROVE  Inv'
<1> USE DEF Inv
<1>1. jar \in Cookies /\ Issued(jar)
  BY VerifiedIsIssued
<1>2. TypeOK'
  BY DEF TypeOK, LifeInv, Display, Plain, Page
<1>3. CookiesAreIssued' /\ SignedWithSecret'
  BY DEF CookiesAreIssued, SignedWithSecret, Issued, lifeVars
<1>4. TokensAreGood'
  BY DEF TokensAreGood, Issued, Display, Plain, Page, TypeOK
<1>5. rekeyed \/ \E c, d \in Cookies : c # d /\ Issued(c) /\ Issued(d)
  <2> SUFFICES ASSUME ~rekeyed
               PROVE  \E c, d \in Cookies : c # d /\ Issued(c) /\ Issued(d)
    OBVIOUS
  <2> DEFINE tok == shown[t].token
  <2>1. tok.cookie \in Cookies /\ Issued(tok.cookie) /\ tok.secret = secret
    BY DEF TokensAreGood
  <2>2. tok \in Tokens
    BY <2>1, AuthAssumption DEF TypeOK, NoToken, NoCookie, Cookies
  <2>3. tok.cookie # jar
    BY <2>1, <2>2 DEF Token, Tokens
  <2> QED
    BY <1>1, <2>1, <2>3
<1>6. ForbiddenNeedsLogin'
  BY <1>5 DEF ForbiddenNeedsLogin, Issued
<1> QED
  BY <1>2, <1>3, <1>4, <1>6

\* What the process does keeps the part about it; so does everything else.
LEMMA NextLife == ASSUME Inv, [Next]_vars
                  PROVE  LifeInv'
<1> USE DEF Inv
<1>1. CASE ProcessStep
  BY <1>1, ProcessLife DEF ProcessStep
<1>2. ASSUME NEW s \in Secrets, Rekey(s)
      PROVE  LifeInv'
  BY <1>2, BrowserLife DEF Rekey
<1>3. ASSUME NEW t \in Tabs, NEW c \in Cookies, NEW p \in 0 .. Second - 1, HandleLogin(t, c, p)
      PROVE  LifeInv'
  BY <1>3, BrowserLife DEF HandleLogin
<1>4. ASSUME NEW t \in Tabs, handleLogout(t) \/ Get(t) \/ Post(t) \/ Answer(t)
      PROVE  LifeInv'
  BY <1>4, BrowserLife DEF handleLogout, Get, Post, Answer
<1>5. CASE DropCookie
  BY <1>5, BrowserLife DEF DropCookie
<1>6. CASE ClockTick
  BY <1>6, BrowserLife DEF ClockTick
<1>7. CASE UNCHANGED vars
  BY <1>7, BrowserLife DEF vars
<1> QED
  BY <1>1, <1>2, <1>3, <1>4, <1>5, <1>6, <1>7 DEF Next

\* Every step preserves the invariant.
LEMMA NextInv == Inv /\ [Next]_vars => Inv'
<1> SUFFICES ASSUME Inv, [Next]_vars
             PROVE  Inv'
  OBVIOUS
<1>0. LifeInv'
  BY NextLife
<1> USE <1>0, AuthAssumption DEF Inv
<1>1. CASE ProcessStep
  <2>1. /\ \A t \in Tabs : sent'[t] = IF req'[t] = "running" THEN sent[t] ELSE NoCookie
        /\ UNCHANGED <<secret, signed, age, part, jar, shown, rekeyed>>
    BY <1>1 DEF ProcessStep
  <2>2. \A t \in Tabs : req'[t] = "running" => req[t] = "running"
    BY <1>1 DEF ProcessStep, Start, Process, StartFails, LoadKey, Terminate, Drained, DrainTimeout,
                ServeFails, Kill, End
  <2>3. TypeOK'
    BY <1>1, <2>1 DEF ProcessStep, TypeOK, LifeInv
  <2>4. CookiesAreIssued'
    BY <2>1, <2>2 DEF CookiesAreIssued, Issued
  <2>5. SignedWithSecret' /\ TokensAreGood' /\ ForbiddenNeedsLogin'
    BY <2>1 DEF SignedWithSecret, TokensAreGood, ForbiddenNeedsLogin, Issued
  <2> QED
    BY <2>3, <2>4, <2>5
<1>2. ASSUME NEW s \in Secrets, Rekey(s)
      PROVE  Inv'
  BY <1>2 DEF Rekey, lifeVars, LifeInv, TypeOK, CookiesAreIssued, SignedWithSecret, TokensAreGood,
              ForbiddenNeedsLogin, Issued
<1>3. ASSUME NEW t \in Tabs, NEW c \in Cookies, NEW p \in 0 .. Second - 1, HandleLogin(t, c, p)
      PROVE  Inv'
  <2>1. /\ ~Issued(c)
        /\ signed' = [signed EXCEPT ![c] = {secret}]
        /\ jar' = c
        /\ shown' = [shown EXCEPT ![t] = Plain("blank")]
        /\ UNCHANGED <<lifeVars, secret, age, sent, rekeyed>>
    BY <1>3 DEF HandleLogin, Display
  <2>2. /\ \A d \in Cookies : Issued(d) => Issued(d)' /\ signed'[d] = signed[d]
        /\ Issued(c)' /\ signed'[c] = {secret}
    BY <2>1 DEF TypeOK, Issued
  <2>3. TypeOK'
    BY <1>3, <2>1 DEF HandleLogin, TypeOK, LifeInv, Plain, Page
  <2>4. CookiesAreIssued'
    BY <2>1, <2>2 DEF CookiesAreIssued, lifeVars, TypeOK
  <2>5. SignedWithSecret'
    BY <2>1, <2>2 DEF SignedWithSecret, Issued, TypeOK
  <2>6. \A q \in Tabs : shown'[q] = IF q = t THEN Plain("blank") ELSE shown[q]
    BY <2>1 DEF TypeOK
  <2>7. TokensAreGood' /\ ForbiddenNeedsLogin'
    BY <2>1, <2>2, <2>6 DEF TokensAreGood, ForbiddenNeedsLogin, Plain, Page
  <2> QED
    BY <2>3, <2>4, <2>5, <2>7
<1>4. ASSUME NEW t \in Tabs, handleLogout(t)
      PROVE  Inv'
  <2>1. TypeOK'
    BY <1>4 DEF handleLogout, TypeOK, LifeInv, Display, Plain, Page
  <2>2. \A q \in Tabs : shown'[q] = IF q = t THEN Plain("login") ELSE shown[q]
    BY <1>4 DEF handleLogout, Display, TypeOK
  <2>3. UNCHANGED <<lifeVars, secret, signed, age, part, sent, rekeyed>> /\ jar' = NoCookie
    BY <1>4 DEF handleLogout
  <2>4. CookiesAreIssued' /\ SignedWithSecret'
    BY <2>3 DEF CookiesAreIssued, SignedWithSecret, Issued, lifeVars
  <2>5. TokensAreGood' /\ ForbiddenNeedsLogin'
    BY <2>2, <2>3 DEF TokensAreGood, ForbiddenNeedsLogin, Issued, Plain, Page
  <2> QED
    BY <2>1, <2>4, <2>5
<1>5. ASSUME NEW t \in Tabs, Get(t)
      PROVE  Inv'
  BY <1>5, RequestInv DEF Get
<1>6. ASSUME NEW t \in Tabs, Post(t)
      PROVE  Inv'
  BY <1>6, RequestInv, RefusalInv DEF Post
<1>7. ASSUME NEW t \in Tabs, Answer(t)
      PROVE  Inv'
  <2>1. sent[t] \in Cookies /\ Issued(sent[t])
    BY <1>7 DEF Answer, Finish, CookiesAreIssued, TypeOK
  <2>2. PICK pg \in {Page("page", Token(sent[t])), Plain("blank")} : Display(t, pg)
    BY <1>7 DEF Answer
  <2>3. \A q \in Tabs : shown'[q] = IF q = t THEN pg ELSE shown[q]
    BY <2>2 DEF Display, TypeOK
  <2>4. Token(sent[t]) \in Tokens
    BY <2>1 DEF Token, Tokens, TypeOK
  <2>5. TypeOK'
    BY <1>7, <2>2, <2>4 DEF Answer, TypeOK, LifeInv, Display, Plain, Page
  <2>6. UNCHANGED <<secret, signed, age, part, jar, rekeyed>>
    BY <1>7 DEF Answer
  <2>7. CookiesAreIssued' /\ SignedWithSecret'
    BY <1>7, <2>6 DEF Answer, Finish, CookiesAreIssued, SignedWithSecret, Issued, TypeOK, LifeTypeOK
  <2>8. TokensAreGood' /\ ForbiddenNeedsLogin'
    BY <2>1, <2>2, <2>3, <2>6 DEF TokensAreGood, ForbiddenNeedsLogin, Issued, Plain, Page, Token
  <2> QED
    BY <2>5, <2>7, <2>8
<1>8. CASE DropCookie
  BY <1>8 DEF DropCookie, lifeVars, LifeInv, TypeOK, CookiesAreIssued, SignedWithSecret,
              TokensAreGood, ForbiddenNeedsLogin, Issued
<1>9. CASE ClockTick
  <2>1. TypeOK'
    BY <1>9 DEF ClockTick, TypeOK, LifeInv
  <2>2. UNCHANGED <<secret, signed, sent, shown, rekeyed, req>> /\ jar' \in {jar, NoCookie}
    BY <1>9 DEF ClockTick
  <2>3. CookiesAreIssued'
    BY <2>2 DEF CookiesAreIssued, Issued
  <2>4. SignedWithSecret' /\ TokensAreGood' /\ ForbiddenNeedsLogin'
    BY <2>2 DEF SignedWithSecret, TokensAreGood, ForbiddenNeedsLogin, Issued
  <2> QED
    BY <2>1, <2>3, <2>4
<1>10. CASE UNCHANGED vars
  BY <1>10 DEF vars, lifeVars, authVars, LifeInv, TypeOK, CookiesAreIssued, SignedWithSecret,
               TokensAreGood, ForbiddenNeedsLogin, Issued
<1> QED
  BY <1>1, <1>2, <1>3, <1>4, <1>5, <1>6, <1>7, <1>8, <1>9, <1>10 DEF Next

\* The invariant holds in every reachable state.
LEMMA SpecInv == Spec => []Inv
  BY InitInv, NextInv, PTL DEF Spec

\* The state of the browser and of the process stays within its types.
THEOREM TypeCorrect == Spec => []TypeOK
  BY SpecInv, PTL DEF Inv

\* server.Run returns nil, and main exits with status 0, only when every request has
\* had its answer.
THEOREM ExitsAreClean == Spec => []CleanExit
  BY SpecInv, PTL DEF Inv, LifeInv

\* Whatever is wrong at once with the cluster and whatever the Secret holds, a start that
\* fails for lack of a key has logged the layer LoadOrGenerate failed at, unless it is
\* update or the Secret itself; and it has logged only layers that are broken.
THEOREM DiagnosesAreRight == Spec => []DiagnosisIsRight
<1>1. Inv => DiagnosisIsRight
  <2> SUFFICES ASSUME Inv, exit = "key"
               PROVE  cause \in blamed \cup {"update", "secret"}
    <3>1. Inv /\ exit = "key" => fault \in SUBSET Layers /\ blamed = preflight(fault)
      BY DEF Inv, LifeInv, LifeTypeOK, Blame
    <3> QED
      BY <3>1, PreflightNamesLayers DEF DiagnosisIsRight
  <2>1. blamed = preflight(fault)
    BY DEF Inv, LifeInv, Blame
  <2>2. preflight(fault) = (fault \cap {"dns", "network"}) \cup Discovered(fault, {"get", "create"})
    BY DEF preflight
  <2>3. PICK sec \in SecretObj : cause = LoadOrGenerate(fault, sec)
    BY DEF Inv, LifeInv, Blame
  <2>4. cause # "none"
    BY DEF Inv, LifeInv, Blame
  <2>5. CASE "network" \in fault
    <3>1. cause = "network"
      BY <2>3, <2>5 DEF LoadOrGenerate
    <3> QED
      BY <2>1, <2>2, <2>5, <3>1
  <2>6. CASE "network" \notin fault /\ "auth" \in fault
    <3>1. cause = "auth"
      BY <2>3, <2>6 DEF LoadOrGenerate
    <3> QED
      BY <2>1, <2>2, <2>6, <3>1 DEF Discovered
  <2>7. CASE "network" \notin fault /\ "auth" \notin fault
    <3>1. blamed = (fault \cap {"dns", "network"}) \cup (fault \cap {"get", "create"})
      BY <2>1, <2>2, <2>7 DEF Discovered
    <3>2. CASE "get" \in fault
      BY <2>3, <2>7, <3>1, <3>2 DEF LoadOrGenerate
    <3>3. CASE "get" \notin fault
      <4>1. \/ cause = "create" /\ "create" \in fault
            \/ cause \in {"update", "secret"}
        BY <2>3, <2>4, <2>7, <3>3 DEF LoadOrGenerate
      <4> QED
        BY <3>1, <4>1
    <3> QED
      BY <3>2, <3>3
  <2> QED
    BY <2>5, <2>6, <2>7
<1> QED
  BY SpecInv, <1>1, PTL

\* A form is refused with 403 only after a second login or a change of the secret, over
\* any number of restarts (RequireAuth).
THEOREM RefusalsNeedLogin == Spec => []ForbiddenNeedsLogin
  BY SpecInv, PTL DEF Inv

\* A login lasts for the TTL but for less than a second, over any number of restarts
\* that keep the secret, and not for longer (SessionStore.Verify, RequireAuth).
THEOREM LoginsLast == Spec => LoginLasts
<1> DEFINE Lasts ==
      \A t \in Tabs :
         /\ /\ shown[t].kind # "login" /\ shown'[t].kind = "login"
            /\ jar' = jar /\ jar # NoCookie /\ ~rekeyed
            => age[jar] + Second > TTL
         /\ req[t] # "running" /\ req'[t] = "running" => age[jar] <= TTL
<1>1. ASSUME Inv, ~rekeyed, jar # NoCookie, ~Verify(jar)
      PROVE  age[jar] + Second > TTL
  <2>1. jar \in Cookies /\ signed[jar] = {secret}
    BY <1>1 DEF Inv, TypeOK, CookiesAreIssued, SignedWithSecret
  <2>2. age[jar] \in Nat /\ part[jar] \in 0 .. Second - 1 /\ Second \in Nat /\ TTL \in Nat
    BY <1>1, <2>1, AuthAssumption DEF Inv, TypeOK
  <2> QED
    BY <1>1, <2>1, <2>2 DEF Verify
<1>2. ASSUME Inv, [Next]_vars
      PROVE  [Lasts]_vars
  <2> SUFFICES ASSUME NEW t \in Tabs
               PROVE  /\ /\ shown[t].kind # "login" /\ shown'[t].kind = "login"
                         /\ jar' = jar /\ jar # NoCookie /\ ~rekeyed
                         => age[jar] + Second > TTL
                      /\ req[t] # "running" /\ req'[t] = "running" => age[jar] <= TTL
    OBVIOUS
  <2> DEFINE Unasked == UNCHANGED shown /\ (req'[t] = "running" => req[t] = "running")
  <2>0. shown \in [Tabs -> [kind : {"blank", "login", "forbidden", "page"}, token : Tokens \cup {NoToken}]]
    BY <1>2 DEF Inv, TypeOK
  <2>1. CASE ProcessStep
    BY <2>1 DEF ProcessStep, Start, Process, StartFails, LoadKey, Terminate, Drained,
                DrainTimeout, ServeFails, Kill, End
  <2>2. ASSUME NEW s \in Secrets, Rekey(s)
        PROVE  Unasked
    BY <2>2 DEF Rekey, lifeVars
  <2>3. ASSUME NEW q \in Tabs, NEW c \in Cookies, NEW p \in 0 .. Second - 1, HandleLogin(q, c, p)
        PROVE  shown'[t].kind \in {"blank", shown[t].kind} /\ req' = req
    BY <2>0, <2>3 DEF HandleLogin, Display, Plain, Page, lifeVars
  <2>4. ASSUME NEW q \in Tabs, handleLogout(q)
        PROVE  jar' = NoCookie /\ req' = req
    BY <2>4 DEF handleLogout, lifeVars
  <2>5. ASSUME NEW q \in Tabs, Get(q) \/ Post(q)
        PROVE  \/ jar # NoCookie /\ Verify(jar) /\ shown'[t].kind \in {shown[t].kind, "forbidden"}
               \/ ~(jar # NoCookie /\ Verify(jar)) /\ req' = req
    BY <2>0, <2>5 DEF Get, Post, Display, Plain, Page, lifeVars
  <2>6. ASSUME NEW q \in Tabs, Answer(q)
        PROVE  shown'[t].kind \in {"page", "blank", shown[t].kind}
               /\ (req'[t] = "running" => req[t] = "running")
    BY <1>2, <2>0, <2>6
    DEF Answer, Display, Finish, Plain, Page, Inv, TypeOK, LifeTypeOK
  <2>7. CASE DropCookie \/ ClockTick \/ UNCHANGED vars
    BY <2>7 DEF DropCookie, ClockTick, vars, lifeVars, authVars
  <2> QED
    BY <1>1, <1>2, <2>1, <2>2, <2>3, <2>4, <2>5, <2>6, <2>7, VerifiedIsIssued DEF Next, Inv
<1> QED
  BY <1>2, SpecInv, PTL DEF Spec, LoginLasts

=============================================================================
