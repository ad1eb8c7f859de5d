------------------------- MODULE ClientSessionProofs -------------------------
(***************************************************************************)
(* Theorems about the login of a tab, for any number of requests in        *)
(* flight, reloads and redirects.                                          *)
(***************************************************************************)
EXTENDS ClientSessionProperties, TLAPS

-----------------------------------------------------------------------------
(* The invariant *)

Users == {NoUser} \cup Profiles
Stores == [token : BOOLEAN, user : Users, ready : BOOLEAN, loading : BOOLEAN]
Settings == [there : BOOLEAN, loading : BOOLEAN]
Widgets(k) == [held : 0 .. k, asks : {"nothing", "emailcode", "bind"}]
CallKinds ==
    CaptchaKinds \cup {"me", "visit", "walletme", "bindme", "logout", "profile", "accounts",
                       "challenge", "sign"}
CallAnswers == Users \cup {"guest", "done", "email", "fail"}

\* A request, when k challenges have been solved.  A login, a registration or
\* a completed profile is answered with the user or fails.
CallShape(k) == [kind : CallKinds, captcha : 0 .. k, served : BOOLEAN, answer : CallAnswers,
                 gone : BOOLEAN]
AsksForUser == {"login", "register", "profile"}
Calls(k) ==
    {call \in CallShape(k) :
        call.served /\ call.kind \in AsksForUser => call.answer \in Profiles \cup {"fail"}}
AreCalls(cs, k) ==
    cs = [c \in DOMAIN cs |-> cs[c]] /\ \A c \in DOMAIN cs : cs[c] \in Calls(k)

\* A session always has an account.
AccountsTyped(session, accounts) ==
    /\ accounts \in [Owners -> Users] /\ session \in Owners \cup {NoSession}
    /\ session # NoSession => accounts[session] # NoUser
ServerTyped ==
    /\ site \in [captcha : BOOLEAN, guarded : BOOLEAN]
    /\ AccountsTyped(cookie, account)
TokensTyped == solved \in Nat /\ spent \subseteq 1 .. solved
PageTyped ==
    /\ path \in Paths /\ step \in {"credential", "code", "profile"}
    /\ wait \in BOOLEAN /\ payload \in BOOLEAN /\ widget \in Widgets(solved)
ClientTyped ==
    /\ store \in Stores /\ settings \in Settings
    /\ AreCalls(calls, solved) /\ acts \in Nat

TypeOK == ServerTyped /\ TokensTyped /\ PageTyped /\ ClientTyped

\* Only the pages that show the captcha keep a token, and whatever carries it
\* was sent by the page that is shown.
CarriedBy(p) ==
    IF p = "login" THEN {"login", "register", "code", "accounts", "challenge", "sign", "wallet"}
    ELSE IF p = "forgot" THEN {"reset", "resetcode"} ELSE {}

HeldHere == widget.held # 0 => path \in {"login", "forgot"}
CarriedHere ==
    \A c \in DOMAIN calls : widget.held # 0 /\ calls[c].captcha = widget.held =>
        ~calls[c].gone /\ calls[c].kind \in CarriedBy(path)

\* A token that was seen and is still held has its answer to come.
Spends(c) ==
    /\ calls[c].captcha = widget.held /\ ~calls[c].gone
    /\ calls[c].served /\ calls[c].kind \in CaptchaKinds
SeenIsAnswered == widget.held \in spent => \E c \in DOMAIN calls : Spends(c)

SessionInvariant == TypeOK /\ HeldHere /\ CarriedHere /\ SeenIsAnswered

-----------------------------------------------------------------------------
(* Requests in flight *)

LEMMA CallTyped ==
    ASSUME NEW k \in Nat, NEW kind \in CallKinds, NEW t \in 0 .. k
    PROVE  Call(kind, t) \in Calls(k)
BY DEF Call, Calls, CallShape, CallAnswers, Users, NoUser

LEMMA CallsGrow ==
    ASSUME NEW k \in Nat, NEW cs, AreCalls(cs, k) PROVE AreCalls(cs, k + 1)
BY DEF AreCalls, Calls, CallShape

LEMMA WithTyped ==
    ASSUME NEW k, NEW cs, AreCalls(cs, k), NEW call \in Calls(k)
    PROVE  AreCalls(With(cs, call), k)
BY DEF AreCalls, With

LEMMA WithoutTyped ==
    ASSUME NEW k, NEW c, AreCalls(calls, k) PROVE AreCalls(Without(c), k)
BY DEF AreCalls, Without

LEMMA BecameTyped ==
    ASSUME NEW k \in Nat, AreCalls(calls, k), NEW c \in DOMAIN calls, NEW kind \in CallKinds
    PROVE  AreCalls(Became(c, kind), k)
<1>1. calls[c] \in Calls(k) BY DEF AreCalls
<1>2. calls[c].captcha \in 0 .. k BY <1>1 DEF Calls, CallShape
<1>3. Call(kind, calls[c].captcha) \in Calls(k) BY <1>2, CallTyped
<1>4. Became(c, kind) = [calls EXCEPT ![c] = Call(kind, calls[c].captcha)] BY DEF Became
<1> QED BY <1>3, <1>4 DEF AreCalls

-----------------------------------------------------------------------------
(* What the steps of the client have in common *)

\* A step that leaves the server and the tokens solved alone.
LEMMA ClientKept ==
    ASSUME TypeOK, UNCHANGED <<server, solved>>,
           path' \in Paths, step' \in {"credential", "code", "profile"},
           wait' \in BOOLEAN, payload' \in BOOLEAN, widget' \in Widgets(solved),
           store' \in Stores, settings' \in Settings, AreCalls(calls', solved), acts' \in Nat
    PROVE  TypeOK'
BY DEF TypeOK, ServerTyped, TokensTyped, PageTyped, ClientTyped, server

LEMMA ActTyped == TypeOK /\ (Act \/ UNCHANGED acts) => acts' \in Nat
BY DEF TypeOK, ClientTyped, Act

LEMMA NothingHeld ==
    ASSUME TypeOK', widget'.held = 0 PROVE SessionInvariant'
<1>1. 0 \notin spent' BY DEF TypeOK, TokensTyped
<1> QED BY <1>1 DEF SessionInvariant, HeldHere, CarriedHere, SeenIsAnswered

LEMMA NoWidgetTyped == ASSUME NEW k \in Nat PROVE NoWidget \in Widgets(k) /\ NoWidget.held = 0
BY DEF NoWidget, Widgets

\* A request is sent, with the token that is held or with none.
LEMMA SendKeeps ==
    ASSUME SessionInvariant, TypeOK', NEW kind, NEW t,
           t = 0 \/ (t = widget.held /\ kind \in CarriedBy(path)),
           calls' = With(calls, Call(kind, t)),
           UNCHANGED <<spent, path>>, widget'.held = widget.held
    PROVE  SessionInvariant'
<1>1. HeldHere' BY DEF SessionInvariant, HeldHere
<1>2. /\ \A c \in DOMAIN calls : c \in DOMAIN calls' /\ calls'[c] = calls[c]
      /\ \A c \in DOMAIN calls' : c \in DOMAIN calls \/ calls'[c] = Call(kind, t)
  BY DEF With
<1>3. Call(kind, t).captcha = t /\ Call(kind, t).kind = kind /\ ~Call(kind, t).gone BY DEF Call
<1>4. CarriedHere' BY <1>2, <1>3 DEF SessionInvariant, CarriedHere
<1>5. \A c \in DOMAIN calls : Spends(c) => Spends(c)' BY <1>2 DEF Spends
<1>6. SeenIsAnswered' BY <1>2, <1>5 DEF SessionInvariant, SeenIsAnswered
<1> QED BY <1>1, <1>4, <1>6 DEF SessionInvariant

\* An answer is taken, or becomes the next request, where none of those that
\* spend a token is concerned but those of a page that is not shown any more.
LEMMA AnswerKeeps ==
    ASSUME SessionInvariant, TypeOK', NEW c \in DOMAIN calls, ~Spends(c) \/ widget.held = 0,
           \/ calls' = Without(c)
           \/ /\ calls[c].captcha = widget.held => widget.held = 0
              /\ \E kind : calls' = Became(c, kind)
           \/ /\ \E kind \in CarriedBy(path) : calls' = Became(c, kind),
           UNCHANGED <<spent, path>>, widget'.held = widget.held
    PROVE  SessionInvariant'
<1>1. CASE widget.held = 0 BY <1>1, NothingHeld
<1>2. CASE widget.held # 0
  <2>1. HeldHere' BY DEF SessionInvariant, HeldHere
  <2>2. \A d \in DOMAIN calls : d # c => d \in DOMAIN calls' /\ calls'[d] = calls[d]
    BY DEF Without, Became
  <2>3. \A d \in DOMAIN calls' : d \in DOMAIN calls BY DEF Without, Became
  <2>4. c \in DOMAIN calls' =>
           \/ calls[c].captcha # widget.held /\ calls'[c].captcha = calls[c].captcha
           \/ ~calls'[c].gone /\ calls'[c].kind \in CarriedBy(path)
    <3>1. calls' = Without(c) => c \notin DOMAIN calls' BY DEF Without
    <3>2. ASSUME NEW kind, calls' = Became(c, kind)
          PROVE  calls'[c] = Call(kind, calls[c].captcha)
      BY <3>2 DEF Became, SessionInvariant, TypeOK, ClientTyped, AreCalls
    <3> QED BY <1>2, <3>1, <3>2 DEF Call
  <2>5. CarriedHere' BY <1>2, <2>2, <2>3, <2>4 DEF SessionInvariant, CarriedHere
  <2>6. \A d \in DOMAIN calls : Spends(d) => d \in DOMAIN calls' /\ Spends(d)'
    BY <1>2, <2>2 DEF Spends
  <2>7. SeenIsAnswered' BY <2>6 DEF SessionInvariant, SeenIsAnswered
  <2> QED BY <2>1, <2>5, <2>7 DEF SessionInvariant
<1> QED BY <1>1, <1>2

\* Nothing that concerns a token.
LEMMA PageKeeps ==
    ASSUME SessionInvariant, TypeOK', UNCHANGED <<calls, spent, path>>, widget'.held = widget.held
    PROVE  SessionInvariant'
<1>1. \A c \in DOMAIN calls : Spends(c) => Spends(c)' BY DEF Spends
<1> QED BY <1>1 DEF SessionInvariant, HeldHere, CarriedHere, SeenIsAnswered

\* What is shown next begins without a token.
LEMMA ShowKeeps ==
    ASSUME SessionInvariant, NEW p \in Paths, NEW s \in Stores, NEW cs, AreCalls(cs, solved),
           Show(p, s, cs), UNCHANGED <<server, solved>>, payload' \in BOOLEAN, acts' \in Nat
    PROVE  SessionInvariant'
<1> USE DEF SessionInvariant
<1>1. /\ path' = p /\ step' = "credential" /\ wait' = FALSE /\ widget' = NoWidget
      /\ settings' = [settings EXCEPT !.loading = TRUE]
      /\ store' \in {s, [s EXCEPT !.loading = TRUE]}
      /\ calls' \in {cs} \cup {With(cs, Call(kind, 0)) : kind \in {"visit", "me"}}
  BY DEF Show
<1>2. settings' \in Settings /\ store' \in Stores
  BY <1>1 DEF TypeOK, ClientTyped, Settings, Stores
<1>3. solved \in Nat BY DEF TypeOK, TokensTyped
<1>4. Call("visit", 0) \in Calls(solved) /\ Call("me", 0) \in Calls(solved)
  BY <1>3, CallTyped DEF CallKinds
<1>5. AreCalls(calls', solved) BY <1>1, <1>4, WithTyped
<1>6. widget' \in Widgets(solved) /\ widget'.held = 0 BY <1>1, <1>3, NoWidgetTyped
<1>7. TypeOK' BY <1>1, <1>2, <1>5, <1>6, ClientKept
<1> QED BY <1>6, <1>7, NothingHeld

-----------------------------------------------------------------------------
(* The steps of the user and of the page that is shown *)

\* What is there, one part at a time.
LEMMA There ==
    ASSUME SessionInvariant
    PROVE  /\ solved \in Nat /\ path \in Paths /\ step \in {"credential", "code", "profile"}
           /\ wait \in BOOLEAN /\ payload \in BOOLEAN /\ widget \in Widgets(solved)
           /\ widget.held \in 0 .. solved
           /\ store \in Stores /\ settings \in Settings /\ AreCalls(calls, solved) /\ acts \in Nat
           /\ [store EXCEPT !.loading = TRUE] \in Stores
           /\ [store EXCEPT !.loading = FALSE] \in Stores
           /\ LoggedOut \in Stores /\ \A user \in Profiles : LoggedIn(user) \in Stores
BY DEF SessionInvariant, TypeOK, TokensTyped, PageTyped, ClientTyped, Widgets, Stores, Users,
       LoggedOut, LoggedIn

LEMMA ShownAgain ==
    ASSUME SessionInvariant, NEW p \in Paths, Show(p, store, calls),
           UNCHANGED <<server, solved, payload>>, Act \/ UNCHANGED acts
    PROVE  SessionInvariant'
<1>1. acts' \in Nat BY ActTyped DEF SessionInvariant
<1> QED BY <1>1, There, ShowKeeps

LEMMA RedirectsKeep ==
    ASSUME SessionInvariant, Redirects \/ \E p \in Paths : Visit(p) PROVE SessionInvariant'
<1>1. {"login", "setup", "guarded"} \subseteq Paths BY DEF Paths
<1>2. PICK p \in Paths : /\ Show(p, store, calls)
                         /\ UNCHANGED <<server, solved, payload>> /\ (Act \/ UNCHANGED acts)
  BY <1>1 DEF Redirects, GuardPage, GuardProfile, SetupDone, Visit, sameButPage
<1> QED BY <1>2, ShownAgain

\* A request is sent from the page that is shown.
LEMMA SentKeeps ==
    ASSUME SessionInvariant, NEW kind \in CallKinds, NEW t,
           t = 0 \/ (t = widget.held /\ kind \in CarriedBy(path)),
           Send(kind, t), Act \/ UNCHANGED acts, UNCHANGED <<server, page, settings, solved>>,
           store' \in Stores
    PROVE  SessionInvariant'
<1>1. t \in 0 .. solved /\ calls' = With(calls, Call(kind, t)) BY There DEF Send
<1>2. AreCalls(calls', solved) BY <1>1, There, CallTyped, WithTyped
<1>3. acts' \in Nat BY ActTyped DEF SessionInvariant
<1>4. TypeOK' BY <1>2, <1>3, There, ClientKept DEF SessionInvariant, page
<1>5. UNCHANGED <<spent, path>> /\ widget'.held = widget.held BY DEF page, server
<1> QED BY <1>1, <1>4, <1>5, SendKeeps

LEMMA RequestsKeep ==
    ASSUME SessionInvariant,
           HydrateUser \/ ClearSession \/ Login \/ RequestRegisterCode \/ Register
              \/ ConnectMetaMask \/ ResetPassword
    PROVE  SessionInvariant'
<1>1. PICK kind, t :
         /\ kind \in CallKinds
         /\ t = 0 \/ (t = widget.held /\ kind \in CarriedBy(path))
         /\ Send(kind, t) /\ Act /\ UNCHANGED <<server, page, settings, solved>>
         /\ store' \in {store, [store EXCEPT !.loading = TRUE], LoggedOut}
  <2> USE DEF CallKinds, CaptchaKinds, CarriedBy
  <2>1. CASE HydrateUser BY <2>1 DEF HydrateUser
  <2>2. CASE ClearSession BY <2>2 DEF ClearSession
  <2>3. CASE Login BY <2>3 DEF Login
  <2>4. CASE RequestRegisterCode BY <2>4 DEF RequestRegisterCode
  <2>5. CASE Register BY <2>5 DEF Register
  <2>6. CASE ConnectMetaMask BY <2>6 DEF ConnectMetaMask
  <2>7. CASE ResetPassword BY <2>7 DEF ResetPassword
  <2> QED BY <2>1, <2>2, <2>3, <2>4, <2>5, <2>6, <2>7
<1> QED BY <1>1, There, SentKeeps

\* The page changes and sends nothing.
LEMMA PageStepsKeep ==
    ASSUME SessionInvariant,
           SettingsLoaded \/ CodeTimer \/ ConfirmCode \/ SwitchMode
    PROVE  SessionInvariant'
<1>1. /\ UNCHANGED <<server, solved, path, widget, payload, store, calls>>
      /\ Act \/ UNCHANGED acts
      /\ step' \in {step, "profile", "credential"} /\ wait' \in {wait, FALSE}
      /\ settings' = settings \/ \E ok \in BOOLEAN :
            settings' = [there |-> settings.there \/ ok, loading |-> FALSE]
  BY DEF SettingsLoaded, CodeTimer, ConfirmCode, SwitchMode, page
<1>2. settings' \in Settings
  <2>1. settings.there \in BOOLEAN BY There DEF Settings
  <2>2. \A ok \in BOOLEAN : (settings.there \/ ok) \in BOOLEAN BY <2>1, Zenon
  <2> DEFINE known(there) == [there |-> there, loading |-> FALSE]
  <2>3. \A there \in BOOLEAN : known(there) \in Settings BY DEF Settings
  <2>4. settings' = settings \/ \E ok \in BOOLEAN : settings' = known(settings.there \/ ok)
    BY <1>1
  <2> HIDE DEF known
  <2> QED BY <2>2, <2>3, <2>4, There
<1>3. acts' \in Nat BY <1>1, ActTyped DEF SessionInvariant
<1>4. TypeOK' BY <1>1, <1>2, <1>3, There, ClientKept DEF SessionInvariant
<1> QED BY <1>1, <1>4, PageKeeps DEF server

\* A challenge is solved: its token is one that nobody has seen.
LEMMA OnVerifyKeeps == ASSUME SessionInvariant, OnVerify PROVE SessionInvariant'
<1>1. /\ solved' = solved + 1 /\ widget' = [widget EXCEPT !.held = solved']
      /\ UNCHANGED <<server, path, step, wait, payload, store, settings, calls>>
      /\ Act /\ path \in {"login", "forgot"}
  BY DEF OnVerify, Solve, Inline
<1>2. acts' \in Nat BY <1>1, ActTyped DEF SessionInvariant
<1>3. solved \in Nat /\ solved' \in Nat /\ solved' \in 0 .. solved' BY <1>1, There
<1>4. widget' \in Widgets(solved') /\ widget'.held = solved'
  BY <1>1, <1>3, There DEF Widgets
<1>5. AreCalls(calls', solved') BY <1>1, There, CallsGrow
<1>6. spent' \subseteq 1 .. solved'
  BY <1>1, <1>3 DEF SessionInvariant, TypeOK, TokensTyped, server
<1>7. TypeOK'
  BY <1>1, <1>2, <1>3, <1>4, <1>5, <1>6, There
  DEF SessionInvariant, TypeOK, ServerTyped, TokensTyped, PageTyped, ClientTyped, server
<1>8. widget'.held \notin spent'
  BY <1>1, <1>3, <1>4 DEF SessionInvariant, TypeOK, TokensTyped, server
<1>9. \A c \in DOMAIN calls' : calls'[c].captcha # widget'.held
  <2> SUFFICES ASSUME NEW c \in DOMAIN calls PROVE calls[c].captcha # solved + 1
    BY <1>1, <1>4
  <2>1. calls[c].captcha \in 0 .. solved BY There DEF AreCalls, Calls, CallShape
  <2> QED BY <1>3, <2>1
<1> QED BY <1>1, <1>7, <1>8, <1>9 DEF SessionInvariant, HeldHere, CarriedHere, SeenIsAnswered

LEMMA OnErrorKeeps == ASSUME SessionInvariant, OnError PROVE SessionInvariant'
<1>1. acts' \in Nat BY ActTyped DEF SessionInvariant, OnError
<1>2. widget' \in Widgets(solved) /\ widget'.held = 0 BY There, NoWidgetTyped DEF OnError
<1>3. TypeOK' BY <1>1, <1>2, There, ClientKept DEF SessionInvariant, OnError
<1> QED BY <1>2, <1>3, NothingHeld

LEMMA ReloadKeeps == ASSUME SessionInvariant, Reload PROVE SessionInvariant'
<1> DEFINE gone == [c \in DOMAIN calls |-> [calls[c] EXCEPT !.gone = TRUE]]
           kind == IF path = "login" THEN "visit" ELSE "me"
<1>1. /\ Act /\ calls' = With(gone, Call(kind, 0))
      /\ store' = [token |-> store.token, user |-> NoUser, ready |-> FALSE,
                   loading |-> path # "login"]
      /\ settings' = [there |-> FALSE, loading |-> TRUE]
      /\ step' = "credential" /\ wait' = FALSE /\ widget' = NoWidget
      /\ UNCHANGED <<server, path, payload, solved>>
  BY DEF Reload
<1>2. acts' \in Nat BY <1>1, ActTyped DEF SessionInvariant
<1>3. AreCalls(gone, solved)
  <2>1. \A c \in DOMAIN calls : [calls[c] EXCEPT !.gone = TRUE] \in Calls(solved)
    BY There DEF AreCalls, Calls, CallShape
  <2> QED BY <2>1 DEF AreCalls
<1>4. Call(kind, 0) \in Calls(solved) BY There, CallTyped DEF CallKinds
<1> HIDE DEF gone, kind
<1>5. AreCalls(calls', solved) BY <1>1, <1>3, <1>4, WithTyped
<1>6. store' \in Stores /\ settings' \in Settings BY <1>1, There DEF Stores, Settings, Users
<1>7. widget' \in Widgets(solved) /\ widget'.held = 0 BY <1>1, There, NoWidgetTyped
<1>8. TypeOK' BY <1>1, <1>2, <1>5, <1>6, <1>7, There, ClientKept DEF SessionInvariant
<1> QED BY <1>7, <1>8, NothingHeld

-----------------------------------------------------------------------------
(* The steps of the server and of the answers *)

\* What the server answers, with the cookie and the accounts it leaves.
IsOutcome(kind, out) ==
    /\ out[1] \in CallAnswers /\ AccountsTyped(out[2], out[3])
    /\ kind \in AsksForUser => out[1] \in Profiles

LEMMA Answer ==
    ASSUME SessionInvariant, NEW kind, kind \notin AsksForUser, NEW text \in CallAnswers
    PROVE  IsOutcome(kind, <<text, cookie, account>>)
BY DEF IsOutcome, SessionInvariant, TypeOK, ServerTyped

LEMMA Enter ==
    ASSUME SessionInvariant, NEW kind, NEW o \in Existing
    PROVE  IsOutcome(kind, <<account[o], o, account>>)
<1>1. AccountsTyped(cookie, account) BY DEF SessionInvariant, TypeOK, ServerTyped
<1>2. o \in Owners /\ account[o] \in Profiles
  BY <1>1 DEF Existing, AccountsTyped, Users
<1> QED BY <1>1, <1>2 DEF IsOutcome, AccountsTyped, CallAnswers, Users, Profiles, NoUser

LEMMA PutAccount ==
    ASSUME SessionInvariant, NEW kind, NEW o \in Owners, NEW p \in Profiles
    PROVE  IsOutcome(kind, <<p, o, [account EXCEPT ![o] = p]>>)
<1>1. AccountsTyped(cookie, account) BY DEF SessionInvariant, TypeOK, ServerTyped
<1> QED BY <1>1 DEF IsOutcome, AccountsTyped, CallAnswers, Users, Profiles, NoUser

LEMMA OutcomesTyped ==
    ASSUME SessionInvariant, NEW kind \in CallKinds
    PROVE  \A out \in Outcomes(kind) : IsOutcome(kind, out)
<1> SUFFICES ASSUME NEW out \in Outcomes(kind) PROVE IsOutcome(kind, out) OBVIOUS
<1>1. AccountsTyped(cookie, account) BY DEF SessionInvariant, TypeOK, ServerTyped
<1>2. /\ {"guest", "done", "email"} \subseteq CallAnswers
      /\ \A o \in Owners : account[o] \in CallAnswers
      /\ {"incomplete", "complete"} \subseteq Profiles /\ "wallet" \in Owners /\ "password" \in Owners
  BY <1>1 DEF CallAnswers, Users, Profiles, Owners, AccountsTyped
<1>3. CASE kind \in {"me", "visit", "walletme", "bindme"}
  <2>1. \E text \in CallAnswers : out = <<text, cookie, account>>
    BY <1>1, <1>2, <1>3 DEF Outcomes, AccountsTyped
  <2> QED BY <1>3, <2>1, Answer DEF AsksForUser
<1>4. CASE kind = "logout"
  <2>1. out = <<"done", NoSession, account>> BY <1>4 DEF Outcomes
  <2> QED BY <1>1, <1>2, <1>4, <2>1 DEF IsOutcome, AccountsTyped, AsksForUser
<1>5. CASE kind = "login"
  <2>1. \E o \in Existing : out = <<account[o], o, account>> BY <1>5 DEF Outcomes
  <2> QED BY <2>1, Enter
<1>6. CASE kind = "wallet"
  <2>1. \/ out = <<"email", cookie, account>>
        \/ "wallet" \in Existing /\ out = <<account["wallet"], "wallet", account>>
    BY <1>2, <1>6 DEF Outcomes, Existing
  <2> QED BY <1>2, <1>6, <2>1, Answer, Enter DEF AsksForUser
<1>7. CASE kind = "bind"
  <2>1. \/ out = <<"incomplete", "wallet", [account EXCEPT !["wallet"] = "incomplete"]>>
        \/ "wallet" \in Existing /\ out = <<account["wallet"], "wallet", account>>
    BY <1>2, <1>7 DEF Outcomes, Existing
  <2> QED BY <1>2, <2>1, PutAccount, Enter
<1>8. CASE kind = "register"
  <2>1. \E p \in Profiles : out = <<p, "password", [account EXCEPT !["password"] = p]>>
    BY <1>8 DEF Outcomes
  <2> QED BY <1>2, <2>1, PutAccount
<1>9. CASE kind = "profile"
  <2>1. cookie \in Owners /\ out = <<"complete", cookie, [account EXCEPT ![cookie] = "complete"]>>
    BY <1>1, <1>9 DEF Outcomes, AccountsTyped
  <2> QED BY <1>2, <2>1, PutAccount
<1>10. CASE kind \notin {"me", "visit", "walletme", "bindme", "logout", "login", "wallet", "bind",
                         "register", "profile"}
  <2>1. out = <<"done", cookie, account>> BY <1>10 DEF Outcomes
  <2> QED BY <1>2, <1>10, <2>1, Answer DEF AsksForUser
<1> QED BY <1>3, <1>4, <1>5, <1>6, <1>7, <1>8, <1>9, <1>10

\* The server sees the token of a request, which stays in flight.
LEMMA ServeKeeps ==
    ASSUME SessionInvariant, NEW c \in DOMAIN calls, Serve(c) PROVE SessionInvariant'
<1> DEFINE seen == IF calls[c].kind \in CaptchaKinds THEN {calls[c].captcha} \ {0} ELSE {}
           replied(text) == [calls EXCEPT ![c].served = TRUE, ![c].answer = text]
<1>1. /\ spent' = spent \cup seen /\ UNCHANGED <<site, store, settings, page, solved>>
      /\ Act \/ UNCHANGED acts
      /\ \/ \E out \in Outcomes(calls[c].kind) :
                calls' = replied(out[1]) /\ cookie' = out[2] /\ account' = out[3]
         \/ calls' = replied("fail") /\ UNCHANGED <<cookie, account>>
  BY DEF Serve
<1>2. calls[c] \in Calls(solved) BY There DEF AreCalls
<1>3. calls[c].kind \in CallKinds /\ calls[c].captcha \in 0 .. solved BY <1>2 DEF Calls, CallShape
<1>4. PICK text \in CallAnswers :
         /\ calls' = replied(text)
         /\ calls[c].kind \in AsksForUser => text \in Profiles \cup {"fail"}
         /\ AccountsTyped(cookie', account')
  <2>1. "fail" \in CallAnswers BY DEF CallAnswers
  <2>2. AccountsTyped(cookie, account) BY DEF SessionInvariant, TypeOK, ServerTyped
  <2> HIDE DEF replied
  <2> QED BY <1>1, <1>3, <2>1, <2>2, OutcomesTyped DEF IsOutcome
<1>5. [calls[c] EXCEPT !.served = TRUE, !.answer = text] \in Calls(solved)
  BY <1>2, <1>4 DEF Calls, CallShape, AsksForUser
<1>6. /\ DOMAIN calls' = DOMAIN calls
      /\ \A d \in DOMAIN calls : d # c => calls'[d] = calls[d]
      /\ calls'[c] = [calls[c] EXCEPT !.served = TRUE, !.answer = text]
      /\ calls' = [d \in DOMAIN calls' |-> calls'[d]]
  BY <1>4
<1>7. AreCalls(calls', solved') BY <1>1, <1>5, <1>6, There DEF AreCalls
<1>8. calls'[c].served /\ \A d \in DOMAIN calls :
         /\ calls'[d].captcha = calls[d].captcha /\ calls'[d].kind = calls[d].kind
         /\ calls'[d].gone = calls[d].gone /\ (calls[d].served => calls'[d].served)
  BY <1>2, <1>6 DEF Calls, CallShape
<1>9. spent' \subseteq 1 .. solved' /\ solved' \in Nat
  <2>1. seen \subseteq 1 .. solved BY <1>3, There
  <2> HIDE DEF seen
  <2> QED BY <1>1, <2>1, There DEF SessionInvariant, TypeOK, TokensTyped
<1>10. acts' \in Nat BY <1>1, ActTyped DEF SessionInvariant
<1> HIDE DEF replied
<1>11. site' = site /\ PageTyped' /\ path' = path /\ widget' = widget
  BY <1>1 DEF SessionInvariant, TypeOK, PageTyped, page
<1>12. TypeOK'
  BY <1>1, <1>4, <1>7, <1>9, <1>10, <1>11, There
  DEF SessionInvariant, TypeOK, ServerTyped, TokensTyped, ClientTyped
<1>13. HeldHere' BY <1>11 DEF SessionInvariant, HeldHere
<1>14. CarriedHere' BY <1>6, <1>8, <1>11 DEF SessionInvariant, CarriedHere
<1>15. SeenIsAnswered'
  <2>1. \A d \in DOMAIN calls : Spends(d) => Spends(d)' BY <1>8, <1>11 DEF Spends
  <2>2. CASE widget.held \in spent
    BY <1>6, <2>1, <2>2 DEF SessionInvariant, SeenIsAnswered
  <2>3. CASE widget.held \in seen
    <3>1. widget.held # 0 /\ calls[c].captcha = widget.held /\ calls[c].kind \in CaptchaKinds
      BY <2>3
    <3>2. ~calls[c].gone BY <3>1 DEF SessionInvariant, CarriedHere
    <3>3. Spends(c)' BY <1>6, <1>8, <1>11, <3>1, <3>2 DEF Spends
    <3> QED BY <1>6, <3>3 DEF SeenIsAnswered
  <2> HIDE DEF seen
  <2> QED BY <1>1, <1>11, <2>2, <2>3 DEF SeenIsAnswered
<1> QED BY <1>12, <1>13, <1>14, <1>15 DEF SessionInvariant

\* The answer of a request whose token is not held is taken, or becomes the
\* next request; and what of the page is not the token may change.
LEMMA TakenKeeps ==
    ASSUME SessionInvariant, NEW c \in DOMAIN calls, ~Spends(c) \/ widget.held = 0,
           \/ calls' = Without(c)
           \/ /\ calls[c].captcha = widget.held => widget.held = 0
              /\ \E kind \in CallKinds : calls' = Became(c, kind)
           \/ /\ \E kind \in CarriedBy(path) \cap CallKinds : calls' = Became(c, kind),
           UNCHANGED <<server, path, widget, settings, solved>>, Act \/ UNCHANGED acts,
           step' \in {"credential", "code", "profile"}, wait' \in BOOLEAN, payload' \in BOOLEAN,
           store' \in Stores
    PROVE  SessionInvariant'
<1>1. acts' \in Nat BY ActTyped DEF SessionInvariant
<1>2. AreCalls(calls', solved) BY There, WithoutTyped, BecameTyped
<1>3. TypeOK' BY <1>1, <1>2, There, ClientKept DEF SessionInvariant
<1>4. UNCHANGED spent BY DEF server
<1> QED BY <1>3, <1>4, AnswerKeeps

\* The captcha is started over with the answer.
LEMMA ResetKeeps ==
    ASSUME SessionInvariant, NEW c \in DOMAIN calls, NEW p \in {"login", "forgot"},
           ResetCaptcha(c, p), calls[c].kind \in CarriedBy(p),
           calls' = Without(c) \/ \E kind \in CallKinds : calls' = Became(c, kind),
           UNCHANGED <<server, path, settings, solved>>, Act \/ UNCHANGED acts,
           step' \in {"credential", "code", "profile"}, wait' \in BOOLEAN, payload' \in BOOLEAN,
           store' \in Stores
    PROVE  SessionInvariant'
<1>1. CASE path = p
  <2>1. acts' \in Nat BY ActTyped DEF SessionInvariant
  <2>2. AreCalls(calls', solved) BY There, WithoutTyped, BecameTyped
  <2>3. widget' \in Widgets(solved) /\ widget'.held = 0
    BY <1>1, There, NoWidgetTyped DEF ResetCaptcha
  <2>4. TypeOK' BY <2>1, <2>2, <2>3, There, ClientKept DEF SessionInvariant
  <2> QED BY <2>3, <2>4, NothingHeld
<1>2. CASE path # p
  <2>1. calls[c].captcha = widget.held => widget.held = 0
    BY <1>2 DEF SessionInvariant, CarriedHere, CarriedBy
  <2>2. ~Spends(c) \/ widget.held = 0 BY <2>1 DEF Spends
  <2>3. UNCHANGED widget BY <1>2 DEF ResetCaptcha
  <2> QED BY <2>1, <2>2, <2>3, TakenKeeps
<1> QED BY <1>1, <1>2

\* The kinds of request that do not carry the token that is held.
LEMMA NotHeld ==
    ASSUME SessionInvariant, NEW c \in DOMAIN calls,
           calls[c].gone \/ calls[c].kind \notin CarriedBy("login") \cup CarriedBy("forgot")
    PROVE  /\ ~Spends(c) \/ widget.held = 0
           /\ calls[c].captcha = widget.held => widget.held = 0
BY DEF SessionInvariant, CarriedHere, CarriedBy, Spends

LEMMA HomeIsAPath == \A user : Home(user) \in Paths
BY DEF Home, Paths

\* An answer that leads to another page.
LEMMA EnteredKeeps ==
    ASSUME SessionInvariant, NEW c \in DOMAIN calls, calls[c].answer \in Profiles,
           Show(Home(calls[c].answer), LoggedIn(calls[c].answer), Without(c)),
           UNCHANGED <<server, solved, acts>>, payload' \in BOOLEAN
    PROVE  SessionInvariant'
<1>1. Home(calls[c].answer) \in Paths /\ LoggedIn(calls[c].answer) \in Stores
  BY There, HomeIsAPath
<1>2. AreCalls(Without(c), solved) BY There, WithoutTyped
<1>3. acts' \in Nat BY There
<1> QED BY <1>1, <1>2, <1>3, ShowKeeps

LEMMA MovedKeeps ==
    ASSUME SessionInvariant, NEW c \in DOMAIN calls, NEW p \in Paths, Show(p, store, Without(c)),
           UNCHANGED <<server, solved, acts>>, payload' \in BOOLEAN
    PROVE  SessionInvariant'
<1>1. AreCalls(Without(c), solved) BY There, WithoutTyped
<1>2. acts' \in Nat BY There
<1> QED BY <1>1, <1>2, There, ShowKeeps

LEMMA ForgetKeeps == ASSUME SessionInvariant, NEW c \in DOMAIN calls, Forget(c) PROVE SessionInvariant'
BY There, NotHeld, TakenKeeps DEF Forget, page

LEMMA HydratedKeeps ==
    ASSUME SessionInvariant, NEW c \in DOMAIN calls, Hydrated(c) \/ LoggedOff(c)
    PROVE  SessionInvariant'
<1>1. calls[c].kind \in {"me", "logout"} BY DEF Hydrated, LoggedOff, Answered
<1>2. ~Spends(c) \/ widget.held = 0 BY <1>1, NotHeld DEF CarriedBy
<1> QED BY <1>2, There, TakenKeeps DEF Hydrated, LoggedOff, page

LEMMA CodeSentKeeps ==
    ASSUME SessionInvariant, NEW c \in DOMAIN calls, CodeSent(c) PROVE SessionInvariant'
<1>1. /\ calls[c].kind \in CarriedBy("login") /\ calls' = Without(c) /\ ResetCaptcha(c, "login")
      /\ UNCHANGED <<server, path, payload, store, settings, solved, acts>>
      /\ step' \in {step, "code"}
  BY DEF CodeSent, Answered, CarriedBy
<1>2. wait' \in BOOLEAN
  <2>1. PICK here \in BOOLEAN : wait' = (wait \/ here) BY DEF CodeSent
  <2> QED BY <2>1, There, Zenon
<1> QED BY <1>1, <1>2, There, ResetKeeps

LEMMA LoginAnsweredKeeps ==
    ASSUME SessionInvariant, NEW c \in DOMAIN calls, LoginAnswered(c) PROVE SessionInvariant'
<1>1. calls[c].kind \in CarriedBy("login") BY DEF LoginAnswered, Answered, CarriedBy
<1>2. CASE Entered(c) BY <1>2, There, EnteredKeeps DEF Entered, sameButPage
<1>3. CASE /\ calls' = Without(c) /\ ResetCaptcha(c, "login")
           /\ store' = IF calls[c].answer = "fail" THEN [store EXCEPT !.loading = FALSE]
                       ELSE LoggedIn(calls[c].answer)
           /\ UNCHANGED <<server, path, step, wait, payload, settings, solved, acts>>
  <2>1. calls[c].answer = "fail" \/ calls[c].answer \in Profiles
    BY There DEF LoginAnswered, Answered, AsksForUser, AreCalls, Calls
  <2> QED BY <1>1, <1>3, <2>1, There, ResetKeeps
<1> QED BY <1>2, <1>3 DEF LoginAnswered

LEMMA VisitedKeeps ==
    ASSUME SessionInvariant, NEW c \in DOMAIN calls, Visited(c) PROVE SessionInvariant'
<1>1. calls[c].kind \notin CarriedBy("login") \cup CarriedBy("forgot")
  BY DEF Visited, Answered, CarriedBy
<1>2. CASE Entered(c) BY <1>2, There, EnteredKeeps DEF Entered, sameButPage
<1>3. CASE /\ calls' = Without(c)
           /\ store' = IF calls[c].answer \in Profiles THEN LoggedIn(calls[c].answer) ELSE store
           /\ UNCHANGED <<server, page, settings, solved, acts>>
  BY <1>1, <1>3, There, NotHeld, TakenKeeps DEF page
<1> QED BY <1>2, <1>3 DEF Visited

\* The wallet is asked with the token in hand: no request of it is seen before
\* the last.
LEMMA WalletAnsweredKeeps ==
    ASSUME SessionInvariant, NEW c \in DOMAIN calls, WalletAnswered(c) \/ Challenged(c)
    PROVE  SessionInvariant'
<1>1. /\ calls[c].kind \in {"accounts", "sign", "challenge"}
      /\ \/ calls' = Without(c)
         \/ /\ path = "login" \/ calls[c].captcha # widget.held \/ widget.held = 0
            /\ \E kind \in {"challenge", "wallet", "sign"} : calls' = Became(c, kind)
      /\ UNCHANGED <<server, page, store, settings, solved>> /\ (Act \/ UNCHANGED acts)
  <2>1. calls[c].kind \in {"accounts", "sign", "challenge"} =>
           path = "login" \/ calls[c].captcha # widget.held \/ widget.held = 0
    BY DEF SessionInvariant, CarriedHere, CarriedBy
  <2> QED BY <2>1 DEF WalletAnswered, Challenged, Answered
<1>2. ~Spends(c) BY <1>1 DEF Spends, CaptchaKinds
<1>3. {"challenge", "wallet", "sign"} \subseteq CarriedBy("login") \cap CallKinds
  BY DEF CarriedBy, CallKinds, CaptchaKinds
<1>4. \/ calls' = Without(c)
      \/ /\ calls[c].captcha = widget.held => widget.held = 0
         /\ \E kind \in CallKinds : calls' = Became(c, kind)
      \/ \E kind \in CarriedBy(path) \cap CallKinds : calls' = Became(c, kind)
  BY <1>1, <1>3
<1> QED BY <1>1, <1>2, <1>4, There, TakenKeeps DEF page

LEMMA WalletLoginKeeps ==
    ASSUME SessionInvariant, NEW c \in DOMAIN calls, WalletLogin(c) PROVE SessionInvariant'
<1>1. calls[c].kind \in CarriedBy("login") BY DEF WalletLogin, Answered, CarriedBy
<1>2. CASE /\ payload' = TRUE /\ Show("email", store, Without(c))
           /\ UNCHANGED <<server, solved, acts>>
  <2>1. "email" \in Paths BY DEF Paths
  <2> QED BY <1>2, <2>1, MovedKeeps
<1>3. CASE /\ calls' = IF calls[c].answer \in Profiles THEN Became(c, "walletme") ELSE Without(c)
           /\ payload' = (payload \/ calls[c].answer = "email")
           /\ ResetCaptcha(c, "login")
           /\ UNCHANGED <<server, path, step, wait, store, settings, solved, acts>>
  <2>1. payload' \in BOOLEAN
    <3>1. (calls[c].answer = "email") \in BOOLEAN OBVIOUS
    <3> QED BY <1>3, <3>1, There, Zenon
  <2>2. "walletme" \in CallKinds BY DEF CallKinds
  <2> QED BY <1>1, <1>3, <2>1, <2>2, There, ResetKeeps
<1> QED BY <1>2, <1>3 DEF WalletLogin

LEMMA WalletEnteredKeeps ==
    ASSUME SessionInvariant, NEW c \in DOMAIN calls, WalletEntered(c) PROVE SessionInvariant'
<1>1. calls[c].kind \notin CarriedBy("login") \cup CarriedBy("forgot")
  BY DEF WalletEntered, Answered, CarriedBy
<1>2. payload' \in BOOLEAN
  <2>1. \/ \E b \in BOOLEAN : payload' = (payload /\ b)
        \/ \E b \in BOOLEAN : payload' = b
    BY DEF WalletEntered
  <2> QED BY <2>1, There, Zenon
<1>3. CASE /\ calls[c].answer \in Profiles
           /\ Show(Home(calls[c].answer), LoggedIn(calls[c].answer), Without(c))
           /\ UNCHANGED <<server, solved, acts>>
  BY <1>2, <1>3, EnteredKeeps
<1>4. CASE /\ calls' = Without(c)
           /\ store' = IF calls[c].answer \in Profiles THEN LoggedIn(calls[c].answer) ELSE store
           /\ UNCHANGED <<server, path, step, wait, widget, settings, solved, acts>>
  BY <1>1, <1>2, <1>4, There, NotHeld, TakenKeeps
<1> QED BY <1>3, <1>4 DEF WalletEntered

LEMMA EmailVerifyKeeps ==
    ASSUME SessionInvariant, NEW kind \in {"emailcode", "bind"}, EmailVerify(kind)
    PROVE  SessionInvariant'
<1>1. Act /\ UNCHANGED <<server, payload, solved>> BY DEF EmailVerify
<1>2. CASE Show("login", store, calls)
  <2>1. "login" \in Paths BY DEF Paths
  <2> QED BY <1>1, <1>2, <2>1, ShownAgain
<1>3. CASE /\ widget' = [widget EXCEPT !.asks = kind]
           /\ UNCHANGED <<path, step, wait, store, settings, calls>>
  <2>1. widget' \in Widgets(solved) /\ widget'.held = widget.held BY <1>3, There DEF Widgets
  <2>2. acts' \in Nat BY <1>1, ActTyped DEF SessionInvariant
  <2>3. TypeOK' BY <1>1, <1>3, <2>1, <2>2, There, ClientKept DEF SessionInvariant
  <2> QED BY <1>1, <1>3, <2>1, <2>3, PageKeeps DEF server
<1>4. CASE Send(kind, 0) /\ UNCHANGED <<path, step, wait, widget, store, settings>>
  <2>1. kind \in CallKinds BY DEF CallKinds, CaptchaKinds
  <2> QED BY <1>1, <1>4, <2>1, There, SentKeeps DEF page
<1> QED BY <1>2, <1>3, <1>4 DEF EmailVerify

\* The challenge of the e-mail page is sent with the request at once.
LEMMA EmailChallengedKeeps == ASSUME SessionInvariant, EmailChallenged PROVE SessionInvariant'
<1>1. /\ solved' = solved + 1 /\ widget' = NoWidget
      /\ calls' = With(calls, Call(widget.asks, solved')) /\ widget.asks # "nothing"
      /\ UNCHANGED <<server, path, step, wait, payload, store, settings, acts>>
  BY DEF EmailChallenged, Send, Solve
<1>2. solved \in Nat /\ solved' \in Nat /\ solved' \in 0 .. solved' BY <1>1, There
<1>3. widget.asks \in CallKinds BY <1>1, There DEF Widgets, CallKinds, CaptchaKinds
<1>4. AreCalls(calls, solved') BY <1>1, There, CallsGrow
<1>5. AreCalls(calls', solved') BY <1>1, <1>2, <1>3, <1>4, CallTyped, WithTyped
<1>6. widget' \in Widgets(solved') /\ widget'.held = 0 BY <1>1, <1>2, NoWidgetTyped
<1>7. spent' \subseteq 1 .. solved'
  BY <1>1, <1>2 DEF SessionInvariant, TypeOK, TokensTyped, server
<1>8. TypeOK'
  BY <1>1, <1>2, <1>5, <1>6, <1>7, There
  DEF SessionInvariant, TypeOK, ServerTyped, TokensTyped, PageTyped, ClientTyped, server
<1> QED BY <1>6, <1>8, NothingHeld

LEMMA EmailAnsweredKeeps ==
    ASSUME SessionInvariant, NEW c \in DOMAIN calls, EmailAnswered(c) PROVE SessionInvariant'
<1>1. calls[c].kind \notin CarriedBy("login") \cup CarriedBy("forgot")
  BY DEF EmailAnswered, Answered, CarriedBy
<1>2. /\ calls' = Without(c) \/ calls' = Became(c, "bindme")
      /\ UNCHANGED <<server, path, step, widget, payload, store, settings, solved, acts>>
      /\ \E b \in BOOLEAN : wait' = (wait \/ b)
  BY DEF EmailAnswered
<1>3. wait' \in BOOLEAN BY <1>2, There, Zenon
<1>4. "bindme" \in CallKinds BY DEF CallKinds
<1> QED BY <1>1, <1>2, <1>3, <1>4, There, NotHeld, TakenKeeps

LEMMA PasswordResetKeeps ==
    ASSUME SessionInvariant, NEW c \in DOMAIN calls, PasswordReset(c) PROVE SessionInvariant'
<1>1. calls[c].kind \in CarriedBy("forgot") BY DEF PasswordReset, Answered, CarriedBy
<1>2. CASE Show("login", store, Without(c)) /\ UNCHANGED <<server, payload, solved, acts>>
  <2>1. "login" \in Paths BY DEF Paths
  <2> QED BY <1>2, <2>1, There, MovedKeeps
<1>3. CASE /\ calls' = Without(c) /\ ResetCaptcha(c, "forgot")
           /\ UNCHANGED <<server, path, step, wait, payload, store, settings, solved, acts>>
  BY <1>1, <1>3, There, ResetKeeps
<1> QED BY <1>2, <1>3 DEF PasswordReset

LEMMA CompleteProfileKeeps == ASSUME SessionInvariant, CompleteProfile PROVE SessionInvariant'
<1>1. Act /\ UNCHANGED <<server, solved>> BY DEF CompleteProfile
<1>2. CASE Show("login", store, calls) /\ UNCHANGED payload
  <2>1. "login" \in Paths BY DEF Paths
  <2> QED BY <1>1, <1>2, <2>1, ShownAgain
<1>3. CASE Send("profile", 0) /\ UNCHANGED <<page, store, settings>>
  <2>1. "profile" \in CallKinds BY DEF CallKinds
  <2> QED BY <1>1, <1>3, <2>1, There, SentKeeps
<1> QED BY <1>2, <1>3 DEF CompleteProfile

LEMMA ProfileAnsweredKeeps ==
    ASSUME SessionInvariant, NEW c \in DOMAIN calls, ProfileAnswered(c) PROVE SessionInvariant'
<1>1. calls[c].kind \notin CarriedBy("login") \cup CarriedBy("forgot")
  BY DEF ProfileAnswered, Answered, CarriedBy
<1>2. CASE Entered(c) BY <1>2, There, EnteredKeeps DEF Entered, sameButPage
<1>3. CASE /\ calls' = Without(c)
           /\ store' = IF calls[c].answer = "fail" THEN store ELSE LoggedIn(calls[c].answer)
           /\ UNCHANGED <<server, page, settings, solved, acts>>
  <2>1. calls[c].answer = "fail" \/ calls[c].answer \in Profiles
    BY There DEF ProfileAnswered, Answered, AsksForUser, AreCalls, Calls
  <2> QED BY <1>1, <1>3, <2>1, There, NotHeld, TakenKeeps DEF page
<1> QED BY <1>2, <1>3 DEF ProfileAnswered

-----------------------------------------------------------------------------
(* Every behaviour *)

LEMMA SessionOpens == Init => SessionInvariant
<1> SUFFICES ASSUME Init PROVE SessionInvariant OBVIOUS
<1> DEFINE kind == IF path = "login" THEN "visit" ELSE "me"
<1>1. 0 \in Nat /\ NoWidget \in Widgets(0) /\ widget = NoWidget /\ solved = 0 /\ spent = {}
  BY NoWidgetTyped DEF Init
<1>2. Call(kind, 0) \in Calls(0) BY CallTyped DEF CallKinds
<1>3. AreCalls(calls, 0)
  <2>1. calls = [c \in {1} |-> Call(kind, 0)] BY DEF Init
  <2> HIDE DEF kind
  <2> QED BY <1>2, <2>1 DEF AreCalls
<1>4. ServerTyped
  <2>1. AccountsTyped(cookie, account) BY DEF Init, AccountsTyped, Existing, Users
  <2> QED BY <2>1 DEF Init, ServerTyped
<1>5. PageTyped BY <1>1 DEF Init, PageTyped, Paths
<1>6. store \in Stores /\ settings \in Settings BY DEF Init, Stores, Settings, Users
<1>7. TypeOK BY <1>1, <1>3, <1>4, <1>5, <1>6 DEF Init, TypeOK, TokensTyped, ClientTyped
<1>8. widget.held = 0 BY <1>1, NoWidgetTyped
<1> QED BY <1>1, <1>7, <1>8 DEF SessionInvariant, HeldHere, CarriedHere, SeenIsAnswered

LEMMA AnswersKeep ==
    ASSUME SessionInvariant, NEW c \in DOMAIN calls, Replies(c) \/ WalletAnswered(c)
    PROVE  SessionInvariant'
BY ServeKeeps, ForgetKeeps, HydratedKeeps, CodeSentKeeps, LoginAnsweredKeeps, VisitedKeeps,
   WalletAnsweredKeeps, WalletLoginKeeps, WalletEnteredKeeps, EmailAnsweredKeeps,
   PasswordResetKeeps, ProfileAnsweredKeeps DEF Replies

LEMMA SessionKeeps == SessionInvariant /\ [Next]_vars => SessionInvariant'
<1> SUFFICES ASSUME SessionInvariant, [Next]_vars PROVE SessionInvariant' OBVIOUS
<1>1. {"login", "forgot"} \subseteq Paths BY DEF Paths
<1>2. LoginContent \/ ForgotPassword \/ UserStatusActions \/ Browser => SessionInvariant'
  BY <1>1, RequestsKeep, RedirectsKeep, PageStepsKeep, ReloadKeeps
  DEF LoginContent, LoginFields, RegisterFields, LoginActions, ForgotPassword,
      UserStatusActions, Browser
<1>3. CaptchaField => SessionInvariant'
  BY OnVerifyKeeps, OnErrorKeeps, EmailChallengedKeeps DEF CaptchaField
<1>4. EmailContent \/ ProfileSetup => SessionInvariant'
  BY EmailVerifyKeeps, CompleteProfileKeeps DEF EmailContent, ProfileSetup
<1>5. CodeTimer \/ SettingsLoaded \/ Redirects => SessionInvariant'
  BY PageStepsKeep, RedirectsKeep
<1>6. UNCHANGED vars => SessionInvariant'
  <2> SUFFICES ASSUME UNCHANGED vars PROVE SessionInvariant' OBVIOUS
  <2>1. UNCHANGED <<page, server, store, settings, calls, solved, acts>> BY DEF vars
  <2>2. TypeOK' BY <2>1, There, ClientKept DEF SessionInvariant, page
  <2> QED BY <2>1, <2>2, PageKeeps DEF page, server
<1> QED BY <1>2, <1>3, <1>4, <1>5, <1>6, AnswersKeep DEF Next

\* Every reachable state of a tab is well typed, a session always has its
\* account, and a token that the page still holds was sent, if at all, by the
\* page that is shown.
THEOREM SessionHolds == Spec => []SessionInvariant
BY SessionOpens, SessionKeeps, PTL DEF Spec

\* FreshChallenge (ClientSessionProperties): runWithCaptchaReset and the pages
\* that are left drop every token the server has seen, for any number of
\* requests, reloads and redirects in between.
THEOREM ChallengesAreFresh == Spec => []FreshChallenge
<1>1. SessionInvariant => FreshChallenge
  BY DEF SessionInvariant, SeenIsAnswered, Spends, FreshChallenge
<1> QED BY <1>1, SessionHolds, PTL
=============================================================================
