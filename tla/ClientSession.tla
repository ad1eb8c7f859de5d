---------------------------- MODULE ClientSession ----------------------------
(***************************************************************************)
(* One tab of the web client and who is logged in there: the user store    *)
(* (use-user-store.ts) against the session cookie of the browser, the      *)
(* pages that log in, register, complete a profile or reset a password     *)
(* with their captcha, and the redirects of client-root-init.tsx.          *)
(*                                                                         *)
(* A call is a request in flight.  The server serves it at some moment     *)
(* (the cookie changes then) and its answer arrives at a later one.        *)
(***************************************************************************)
EXTENDS Integers, FiniteSets

CONSTANTS
    MaxCalls,    \* bound: requests in flight together
    MaxActs      \* bound: things done by the user, and requests that fail

VARIABLES
    site,        \* the server's public settings: captcha, guarded pages
    account,     \* the person's accounts on the server
    cookie,      \* the one the browser holds a session of
    store,       \* the user store
    settings,    \* publicSettings is there, isPublicSettingsLoading
    path,        \* the page that is shown
    step, wait,  \* registerStep, codeSeconds > 0
    widget,      \* the captcha: the token held, what waits for the modal one
    payload,     \* the wallet's signed login is in sessionStorage
    calls,       \* requests in flight
    solved, spent,  \* number of challenges solved; tokens the server has seen
    acts

page == <<path, step, wait, widget, payload>>
server == <<site, account, cookie, spent>>
vars == <<page, server, store, settings, calls, solved, acts>>

NoUser == "none"
Profiles == {"incomplete", "complete"}

\* One account belongs to the password, another one to the wallet: a wallet
\* that is new gets an account of its own, whatever address it is bound to.
Owners == {"password", "wallet"}
NoSession == "nobody"
Paths == {"login", "setup", "forgot", "email", "open", "guarded"}
NoWidget == [held |-> 0, asks |-> "nothing"]
LoggedOut == [token |-> FALSE, user |-> NoUser, ready |-> TRUE, loading |-> FALSE]
LoggedIn(user) == [token |-> TRUE, user |-> user, ready |-> TRUE, loading |-> FALSE]

CallId == 1 .. MaxCalls
Call(kind, captcha) == [kind |-> kind, captcha |-> captcha, served |-> FALSE, answer |-> "none", gone |-> FALSE]
Free(cs) == DOMAIN cs # CallId
FreeCall(cs) == CHOOSE c \in CallId \ DOMAIN cs : \A d \in CallId \ DOMAIN cs : c <= d
With(cs, call) ==
    [c \in DOMAIN cs \cup {FreeCall(cs)} |-> IF c \in DOMAIN cs THEN cs[c] ELSE call]
Without(c) == [d \in DOMAIN calls \ {c} |-> calls[d]]
InFlight(kinds) == \E c \in DOMAIN calls : ~calls[c].gone /\ calls[c].kind \in kinds

Act == acts < MaxActs /\ acts' = acts + 1
Send(kind, captcha) == Free(calls) /\ calls' = With(calls, Call(kind, captcha))
Answered(c, kinds) == calls[c].served /\ ~calls[c].gone /\ calls[c].kind \in kinds

------------------------------------------------------------------------------
(* The server, as the client sees it *)

CaptchaKinds == {"login", "register", "code", "emailcode", "resetcode", "reset", "wallet", "bind"}

Existing == {o \in Owners : account[o] # NoUser}

\* What a request that passed the captcha answers, with the cookie and the
\* accounts it leaves; none where service/auth.go refuses it.  A reset may have
\* given the wallet's account a password.
Outcomes(kind) ==
    LET Enter(o) == <<account[o], o, account>>
        Put(o, p) == <<p, o, [account EXCEPT ![o] = p]>>
        Answer(text) == <<text, cookie, account>>
    IN  CASE kind \in {"me", "visit", "walletme", "bindme"} ->
                {Answer(IF cookie = NoSession THEN "guest" ELSE account[cookie])}
          [] kind = "logout" -> {<<"done", NoSession, account>>}
          [] kind = "login" -> {Enter(o) : o \in Existing}
          [] kind = "wallet" ->
                {IF account["wallet"] = NoUser THEN Answer("email") ELSE Enter("wallet")}
          [] kind = "bind" ->
                {IF account["wallet"] = NoUser THEN Put("wallet", "incomplete") ELSE Enter("wallet")}
          [] kind = "register" ->
                IF Existing = {} THEN {Put("password", p) : p \in Profiles} ELSE {}
          [] kind = "code" -> IF Existing = {} THEN {Answer("done")} ELSE {}
          [] kind \in {"reset", "resetcode"} -> {Answer("done") : o \in Existing}
          [] kind = "profile" -> IF cookie = NoSession THEN {} ELSE {Put(cookie, "complete")}
          [] OTHER -> {Answer("done")}

\* VerifyCaptcha: a token is accepted once.
Human(call) == call.kind \in CaptchaKinds /\ site.captcha => call.captcha \notin spent \cup {0}

\* The handlers check the captcha, then the service, then set the cookie.
Serve(c) ==
    LET call == calls[c]
        Replied(text) == calls' = [calls EXCEPT ![c].served = TRUE, ![c].answer = text]
    IN  /\ ~call.served /\ call.kind \notin {"accounts", "sign"}
        /\ spent' = spent \cup (IF call.kind \in CaptchaKinds THEN {call.captcha} \ {0} ELSE {})
        /\ UNCHANGED <<site, store, settings, page, solved>>
        /\ \/ /\ Human(call)
              /\ \E out \in Outcomes(call.kind) :
                    Replied(out[1]) /\ cookie' = out[2] /\ account' = out[3]
              /\ UNCHANGED acts
           \/ /\ Act \/ (acts = MaxActs /\ UNCHANGED acts /\ (~Human(call) \/ Outcomes(call.kind) = {}))
              /\ Replied("fail") /\ UNCHANGED <<cookie, account>>

\* The answer of a request of the page before a reload goes nowhere.
Forget(c) ==
    /\ calls[c].gone /\ calls[c].served
    /\ calls' = Without(c)
    /\ UNCHANGED <<server, page, store, settings, solved, acts>>

------------------------------------------------------------------------------
(* Public settings, the user store and the pages it sends the user to *)

SettingsLoaded ==
    /\ settings.loading
    /\ \E ok \in BOOLEAN :
          /\ settings' = [there |-> settings.there \/ ok, loading |-> FALSE]
          /\ IF ok THEN UNCHANGED acts ELSE Act
    /\ UNCHANGED <<server, page, store, calls, solved>>

\* Showing another page drops the state of the one before and loads the public
\* settings again.  The login page asks on its own who is logged in; hydrateUser
\* asks when the login page is left.
Show(p, s, cs) ==
    LET asks == p # "login" /\ path = "login"
    IN  /\ p # path
        /\ Free(cs)
        /\ path' = p
        /\ step' = "credential" /\ wait' = FALSE /\ widget' = NoWidget
        /\ settings' = [settings EXCEPT !.loading = TRUE]
        /\ store' = IF asks THEN [s EXCEPT !.loading = TRUE] ELSE s
        /\ calls' = IF p = "login" THEN With(cs, Call("visit", 0))
                    ELSE IF asks THEN With(cs, Call("me", 0)) ELSE cs

sameButPage == UNCHANGED <<server, payload, solved>>

Visit(p) ==
    /\ Act
    /\ Show(p, store, calls)
    /\ sameButPage

\* Mutant: only a session that ended sends to the login page.
GuardPageExpired ==
    /\ path = "guarded" /\ site.guarded
    /\ settings = [there |-> TRUE, loading |-> FALSE]
    /\ store.ready /\ store.user = NoUser /\ store.token
    /\ Show("login", store, calls)
    /\ sameButPage /\ UNCHANGED acts

\* isLoginRequiredPath: such a page sends the guest to the login page.
GuardPage ==
    /\ path = "guarded" /\ site.guarded
    /\ settings = [there |-> TRUE, loading |-> FALSE]
    /\ store.ready /\ store.user = NoUser
    /\ Show("login", store, calls)
    /\ sameButPage /\ UNCHANGED acts

\* Mutant: completing the profile is asked of everyone.
GuardProfileAll ==
    /\ path \notin {"setup", "login"}
    /\ store.ready /\ store.user # NoUser
    /\ Show("setup", store, calls)
    /\ sameButPage /\ UNCHANGED acts

\* Whoever has not completed the profile is sent to do so.
GuardProfile ==
    /\ path \notin {"setup", "login"}
    /\ store.ready /\ store.user = "incomplete"
    /\ Show("setup", store, calls)
    /\ sameButPage /\ UNCHANGED acts

SetupDone ==
    /\ path = "setup" /\ store.user = "complete"
    /\ Show("guarded", store, calls)
    /\ sameButPage /\ UNCHANGED acts

\* Pages that spend or earn credits ask again who the user is.
HydrateUser ==
    /\ Act
    /\ path = "guarded" /\ store.token
    /\ Send("me", 0)
    /\ store' = [store EXCEPT !.loading = TRUE]
    /\ UNCHANGED <<server, page, settings, solved>>

Hydrated(c) ==
    /\ Answered(c, {"me"})
    /\ calls' = Without(c)
    /\ store' = IF calls[c].answer \in Profiles THEN LoggedIn(calls[c].answer) ELSE LoggedOut
    /\ UNCHANGED <<server, page, settings, solved, acts>>

ClearSession ==
    /\ Act
    /\ store.user # NoUser
    /\ Send("logout", 0)
    /\ store' = LoggedOut
    /\ UNCHANGED <<server, page, settings, solved>>

LoggedOff(c) ==
    /\ Answered(c, {"logout"})
    /\ calls' = Without(c)
    /\ UNCHANGED <<server, page, store, settings, solved, acts>>

\* Only the token survives a reload, and says no more than that there was a
\* session; the requests in flight are still served.
Reload ==
    LET gone == [c \in DOMAIN calls |-> [calls[c] EXCEPT !.gone = TRUE]]
    IN  /\ Act
        /\ Free(calls)
        /\ calls' = With(gone, Call(IF path = "login" THEN "visit" ELSE "me", 0))
        /\ store' = [token |-> store.token, user |-> NoUser, ready |-> FALSE, loading |-> path # "login"]
        /\ settings' = [there |-> FALSE, loading |-> TRUE]
        /\ step' = "credential" /\ wait' = FALSE /\ widget' = NoWidget
        /\ UNCHANGED <<server, path, payload, solved>>

------------------------------------------------------------------------------
(* The captcha: within the login and the password page it is always shown, on
   the e-mail page it opens over the page when a request wants it. *)

Inline == path \in {"login", "forgot"}

\* verify() of the inline captcha: nothing is sent without a token.
Verified == settings.there /\ Inline /\ (site.captcha => widget.held # 0)

\* The callback of the widget gives a token, a new one each time.
Solve == solved' = solved + 1

OnVerify ==
    /\ Act
    /\ site.captcha /\ settings.there /\ Inline /\ widget.held = 0
    /\ Solve
    /\ widget' = [widget EXCEPT !.held = solved']
    /\ UNCHANGED <<server, path, step, wait, payload, store, settings, calls>>

\* The token expires, the widget fails, or the user starts over.
OnError ==
    /\ Act
    /\ widget # NoWidget
    /\ widget' = NoWidget
    /\ UNCHANGED <<server, path, step, wait, payload, store, settings, calls, solved>>

\* Mutant: the captcha is not started over when the request fails.
ResetCaptchaIf(c, p) ==
    widget' = IF calls[c].answer # "fail" /\ path = p THEN NoWidget ELSE widget

\* runWithCaptchaReset: whatever the answer, the widget is started over, if the
\* page that asked is still there.
ResetCaptcha(c, p) == widget' = IF path = p THEN NoWidget ELSE widget

------------------------------------------------------------------------------
(* The login page *)

Idle == ~store.loading /\ ~InFlight({"code"})

Login ==
    /\ Act
    /\ path = "login" /\ step = "credential" /\ Idle /\ Verified
    /\ Send("login", widget.held)
    /\ store' = [store EXCEPT !.loading = TRUE]
    /\ UNCHANGED <<server, page, settings, solved>>

RequestRegisterCode ==
    /\ Act
    /\ path = "login" /\ step \in {"credential", "code"} /\ Idle /\ ~wait /\ Verified
    /\ Send("code", widget.held)
    /\ UNCHANGED <<server, page, store, settings, solved>>

CodeSent(c) ==
    /\ Answered(c, {"code"})
    /\ calls' = Without(c)
    /\ ResetCaptcha(c, "login")
    /\ LET here == path = "login" /\ calls[c].answer = "done"
       IN  /\ step' = IF here /\ step = "credential" THEN "code" ELSE step
           /\ wait' = (wait \/ here)
    /\ UNCHANGED <<server, path, payload, store, settings, solved, acts>>

\* The sixty seconds before another code may be asked for are over.
CodeTimer ==
    /\ wait
    /\ wait' = FALSE
    /\ UNCHANGED <<server, path, step, widget, payload, store, settings, calls, solved, acts>>

ConfirmCode ==
    /\ Act
    /\ path = "login" /\ step = "code" /\ Idle
    /\ step' = "profile"
    /\ UNCHANGED <<server, path, wait, widget, payload, store, settings, calls, solved>>

Register ==
    /\ Act
    /\ path = "login" /\ step = "profile" /\ Idle /\ Verified
    /\ Send("register", widget.held)
    /\ store' = [store EXCEPT !.loading = TRUE]
    /\ UNCHANGED <<server, page, settings, solved>>

SwitchMode ==
    /\ Act
    /\ path = "login" /\ step # "credential"
    /\ step' = "credential" /\ wait' = FALSE
    /\ UNCHANGED <<server, path, widget, payload, store, settings, calls, solved>>

\* Where a login leads: to the page that wanted it, or to the profile.
Home(user) == IF user = "complete" THEN "guarded" ELSE "setup"

\* The answer is put in the store, and the page it leads to is shown, once the
\* overlay that covers the page has had its time.
Entered(c) ==
    /\ calls[c].answer \in Profiles
    /\ Show(Home(calls[c].answer), LoggedIn(calls[c].answer), Without(c))
    /\ sameButPage /\ UNCHANGED acts

LoginAnswered(c) ==
    /\ Answered(c, {"login", "register"})
    /\ \/ Entered(c)
       \/ /\ calls[c].answer = "fail" \/ path = Home(calls[c].answer)
          /\ calls' = Without(c)
          /\ store' = IF calls[c].answer = "fail" THEN [store EXCEPT !.loading = FALSE]
                      ELSE LoggedIn(calls[c].answer)
          /\ ResetCaptcha(c, "login")
          /\ UNCHANGED <<server, path, step, wait, payload, settings, solved, acts>>

\* The login page finds that the browser is logged in already.
Visited(c) ==
    /\ Answered(c, {"visit"})
    /\ \/ Entered(c)
       \/ /\ calls[c].answer \in {"guest", "none", "fail"} \/ path = Home(calls[c].answer)
          /\ calls' = Without(c)
          /\ store' = IF calls[c].answer \in Profiles THEN LoggedIn(calls[c].answer) ELSE store
          /\ UNCHANGED <<server, page, settings, solved, acts>>

------------------------------------------------------------------------------
(* The wallet: it is asked for an account and for a signature, with the token
   of the captcha in hand since the start. *)

ConnectMetaMask ==
    /\ Act
    /\ path = "login" /\ step = "credential" /\ Verified
    /\ Send("accounts", widget.held)
    /\ UNCHANGED <<server, page, store, settings, solved>>

Became(c, kind) == [calls EXCEPT ![c] = Call(kind, calls[c].captcha)]

\* The person answers the wallet's window, or closes it.
WalletAnswered(c) ==
    /\ ~calls[c].gone
    /\ \/ /\ calls[c].kind = "accounts" /\ calls' = Became(c, "challenge") /\ UNCHANGED acts
       \/ /\ calls[c].kind = "sign" /\ calls' = Became(c, "wallet") /\ UNCHANGED acts
       \/ /\ calls[c].kind \in {"accounts", "sign"} /\ Act /\ calls' = Without(c)
    /\ UNCHANGED <<server, page, store, settings, solved>>

Challenged(c) ==
    /\ Answered(c, {"challenge"})
    /\ calls' = IF calls[c].answer = "fail" THEN Without(c) ELSE Became(c, "sign")
    /\ UNCHANGED <<server, page, store, settings, solved, acts>>

\* A wallet without an account is to be bound to an e-mail address first.
WalletLogin(c) ==
    /\ Answered(c, {"wallet"})
    /\ \/ /\ calls[c].answer = "email" /\ path # "email"
          /\ payload' = TRUE
          /\ Show("email", store, Without(c))
          /\ UNCHANGED <<server, solved, acts>>
       \/ /\ calls[c].answer # "email" \/ path = "email"
          /\ calls' = IF calls[c].answer \in Profiles THEN Became(c, "walletme") ELSE Without(c)
          /\ payload' = (payload \/ calls[c].answer = "email")
          /\ ResetCaptcha(c, "login")
          /\ UNCHANGED <<server, path, step, wait, store, settings, solved, acts>>

WalletEntered(c) ==
    /\ Answered(c, {"walletme", "bindme"})
    /\ \/ /\ calls[c].answer \in Profiles
          /\ Show(Home(calls[c].answer), LoggedIn(calls[c].answer), Without(c))
          /\ payload' = (payload /\ calls[c].kind = "walletme")
          /\ UNCHANGED <<server, solved, acts>>
       \/ /\ calls[c].answer \notin Profiles \/ path = Home(calls[c].answer)
          /\ calls' = Without(c)
          /\ store' = IF calls[c].answer \in Profiles THEN LoggedIn(calls[c].answer) ELSE store
          /\ payload' = (payload /\ (calls[c].kind = "walletme" \/ calls[c].answer \notin Profiles))
          /\ UNCHANGED <<server, path, step, wait, widget, settings, solved, acts>>

------------------------------------------------------------------------------
(* The e-mail page of the wallet, the password page, the profile *)

\* Its captcha opens over the page; a second request starts it over.
EmailVerify(kind) ==
    /\ Act
    /\ path = "email" /\ settings.there
    /\ ~InFlight({kind}) /\ widget.asks # kind
    /\ kind = "emailcode" => ~wait
    /\ IF kind = "bind" /\ ~payload
       THEN Show("login", store, calls)
       ELSE IF site.captcha
       THEN /\ widget' = [widget EXCEPT !.asks = kind]
            /\ UNCHANGED <<path, step, wait, store, settings, calls>>
       ELSE /\ Send(kind, 0)
            /\ UNCHANGED <<path, step, wait, widget, store, settings>>
    /\ UNCHANGED <<server, payload, solved>>

EmailChallenged ==
    /\ widget.asks # "nothing"
    /\ Solve
    /\ Send(widget.asks, solved')
    /\ widget' = NoWidget
    /\ UNCHANGED <<server, path, step, wait, payload, store, settings, acts>>

EmailAnswered(c) ==
    /\ Answered(c, {"emailcode", "bind"})
    /\ calls' = IF calls[c].answer \in Profiles THEN Became(c, "bindme") ELSE Without(c)
    /\ wait' = (wait \/ (path = "email" /\ calls[c].kind = "emailcode" /\ calls[c].answer = "done"))
    /\ UNCHANGED <<server, path, step, widget, payload, store, settings, solved, acts>>

\* The code and the new password are sent by the same page; a new password
\* leads to the login page.
ResetPassword ==
    /\ Act
    /\ path = "forgot" /\ Verified
    /\ \E kind \in {"reset", "resetcode"} : ~InFlight({kind}) /\ Send(kind, widget.held)
    /\ UNCHANGED <<server, page, store, settings, solved>>

PasswordReset(c) ==
    /\ Answered(c, {"reset", "resetcode"})
    /\ \/ /\ calls[c].kind = "reset" /\ calls[c].answer = "done"
          /\ Show("login", store, Without(c))
          /\ UNCHANGED <<server, payload, solved, acts>>
       \/ /\ calls[c].kind = "resetcode" \/ calls[c].answer = "fail" \/ path = "login"
          /\ calls' = Without(c)
          /\ ResetCaptcha(c, "forgot")
          /\ UNCHANGED <<server, path, step, wait, payload, store, settings, solved, acts>>

CompleteProfile ==
    /\ Act
    /\ path = "setup" /\ ~InFlight({"profile"})
    /\ IF store.user = NoUser
       THEN Show("login", store, calls) /\ UNCHANGED payload
       ELSE Send("profile", 0) /\ UNCHANGED <<page, store, settings>>
    /\ UNCHANGED <<server, solved>>

ProfileAnswered(c) ==
    /\ Answered(c, {"profile"})
    /\ \/ Entered(c)
       \/ /\ calls[c].answer = "fail" \/ path = Home(calls[c].answer)
          /\ calls' = Without(c)
          /\ store' = IF calls[c].answer = "fail" THEN store ELSE LoggedIn(calls[c].answer)
          /\ UNCHANGED <<server, page, settings, solved, acts>>

------------------------------------------------------------------------------
Init ==
    /\ site \in [captcha : BOOLEAN, guarded : BOOLEAN]
    /\ account \in [Owners -> {NoUser} \cup Profiles] /\ NoUser \in {account[o] : o \in Owners}
    /\ cookie \in {NoSession} \cup Existing
    /\ path \in {"guarded", "login"}
    /\ store = [token |-> FALSE, user |-> NoUser, ready |-> FALSE, loading |-> path # "login"]
    /\ settings = [there |-> FALSE, loading |-> TRUE]
    /\ step = "credential" /\ wait = FALSE /\ widget = NoWidget /\ payload = FALSE
    /\ calls = [c \in {1} |-> Call(IF path = "login" THEN "visit" ELSE "me", 0)]
    /\ solved = 0 /\ spent = {} /\ acts = 0

\* What the pages offer: the fields of the login, the steps of the
\* registration, the links under them, the pages of the other forms, and the
\* menu of the account on every page.
LoginFields == Login
RegisterFields == RequestRegisterCode \/ ConfirmCode \/ Register
LoginActions == ConnectMetaMask \/ (path = "login" /\ step = "credential" /\ Visit("forgot"))
CaptchaField == OnVerify \/ OnError \/ EmailChallenged
LoginContent == LoginFields \/ RegisterFields \/ SwitchMode \/ LoginActions
ForgotPassword == ResetPassword \/ (path = "forgot" /\ Visit("login"))
ProfileSetup == CompleteProfile
EmailContent == \E kind \in {"emailcode", "bind"} : EmailVerify(kind)
UserStatusActions == ClearSession \/ (store.user = NoUser /\ Visit("login"))
Browser == Reload \/ HydrateUser \/ \E p \in Paths : Visit(p)

\* What happens by itself: answers, timers, and the effects of the pages.
Replies(c) ==
    \/ Serve(c) \/ Forget(c) \/ Hydrated(c) \/ LoggedOff(c) \/ CodeSent(c) \/ LoginAnswered(c)
    \/ Visited(c) \/ Challenged(c) \/ WalletLogin(c) \/ WalletEntered(c)
    \/ EmailAnswered(c) \/ PasswordReset(c) \/ ProfileAnswered(c)

Redirects == GuardPage \/ GuardProfile \/ SetupDone
Next ==
    \/ LoginContent \/ CaptchaField \/ EmailContent \/ ForgotPassword \/ ProfileSetup
    \/ UserStatusActions \/ Browser \/ CodeTimer \/ SettingsLoaded \/ Redirects
    \/ \E c \in DOMAIN calls : Replies(c) \/ WalletAnswered(c)

Fairness ==
    /\ WF_vars(SettingsLoaded) /\ WF_vars(Redirects)
    /\ \A c \in CallId : WF_vars(c \in DOMAIN calls /\ Replies(c))

Spec == Init /\ [][Next]_vars /\ Fairness
=============================================================================
