--------------------------- MODULE FrontendSession ---------------------------
(***************************************************************************)
(* The session of the browser client: AuthContext.jsx with the sign-in page,*)
(* the route guard, the sign-out of AppShell.jsx and its notification stream, *)
(* in several tabs that share one localStorage.                             *)
(*                                                                          *)
(* A call is three steps, as far as the client can tell: it is asked, the    *)
(* gateway serves it, and its answer runs the code behind the await.  A tab   *)
(* runs one piece of code at a time, but its calls are answered in any order.  *)
(***************************************************************************)
EXTENDS Naturals

CONSTANTS
  Tabs,       \* browser tabs
  Users,
  Tokens,     \* access tokens the auth service may issue
  MaxFaults,  \* bound: calls that end in an error other than UNAUTHENTICATED
  MaxLoads,   \* bound: page loads after the first
  Null

ASSUME SessionAssumption == Null \notin Users \cup Tokens

VARIABLES
  owner,      \* the user a token was issued to, or Null
  dead,       \* tokens that are revoked or have expired
  storage,    \* what localStorage holds under STORAGE_KEY
  tab,        \* the React state of a tab and the calls it waits for
  faults, loads,
  crossed,    \* history: a login was answered while an older call of that tab
              \* that writes the session (getMe, logout) was still waiting
  bornDead    \* history: the token of a tab was dead when the page was loaded

auth == <<owner, dead>>
counters == <<faults, loads>>
history == <<crossed, bornDead>>
vars == <<auth, storage, tab, counters, history>>

Session == [token : Tokens \cup {Null}, user : Users \cup {Null}]
SignedOut == [token |-> Null, user |-> Null]

Idle == [stage |-> "none", session |-> SignedOut]
Ask(s) == [stage |-> "asked", session |-> s]
Calls == [stage : {"none", "asked", "ok", "refused", "failed"}, session : Session]

(* An error that ends the session: the status code is UNAUTHENTICATED.        *)
IsAuthenticationFailure(call) == call.stage = "refused"

ShellShown_WhileInitializing(s) == s.path = "app" /\ s.session.token # Null

(* The protected part of the application is shown.                            *)
ShellShown(s) ==
  s.path = "app" /\ ~s.initializing /\ s.session.token # Null

(* Without a token the guard sends a protected path to the sign-in page.      *)
Guarded(s) ==
  IF s.path = "app" /\ ~s.initializing /\ s.session.token = Null
  THEN [s EXCEPT !.path = "login"] ELSE s

Streaming_NoCleanUp(s) ==
  [s EXCEPT !.stream =
     IF ~ShellShown(s) \/ s.session.user = Null \/ s.stream.stage # "none" THEN s.stream
     ELSE Ask(s.session)]

(* The shell keeps one stream per session it is shown with; the clean-up of     *)
(* the effect cancels the old one.                                              *)
Streaming(s) ==
  [s EXCEPT !.stream =
     IF ~ShellShown(s) \/ s.session.user = Null THEN Idle
     ELSE IF s.stream.stage # "none" /\ s.stream.session = s.session THEN s.stream
     ELSE Ask(s.session)]

Render(t, s) == tab' = [tab EXCEPT ![t] = Streaming(Guarded(s))]

(* setSession: the effect on the session writes it to localStorage.           *)
SetSession(t, s) == Render(t, s) /\ storage' = s.session

Loaded(s, path) ==
  [session |-> s, path |-> path,
   initializing |-> s.token # Null /\ s.user # Null,
   hydrate |-> IF s.token # Null /\ s.user # Null THEN Ask(s) ELSE Idle,
   login |-> Idle, logout |-> Idle, stream |-> Idle]

Init ==
  /\ owner = [k \in Tokens |-> Null] /\ dead = {}
  /\ storage = SignedOut
  /\ tab = [t \in Tabs |-> Loaded(SignedOut, "login")]
  /\ faults = 0 /\ loads = 0
  /\ crossed = FALSE /\ bornDead = [t \in Tabs |-> FALSE]

(* A tab is opened or reloaded, at the sign-in page or at a protected path.   *)
Load(t) ==
  /\ loads < MaxLoads /\ loads' = loads + 1
  /\ \E path \in {"login", "app"} : Render(t, Loaded(storage, path))
  /\ bornDead' = [bornDead EXCEPT ![t] = storage.token \in dead]
  /\ UNCHANGED <<auth, storage, faults, crossed>>

HydrateAnswered(t) ==
  LET call == tab[t].hydrate
      done == [tab[t] EXCEPT !.hydrate = Idle, !.initializing = FALSE]
  IN /\ call.stage \in {"ok", "refused", "failed"}
     /\ \/ call.stage = "ok"
           /\ SetSession(t, [done EXCEPT !.session.user = owner[call.session.token]])
        \/ IsAuthenticationFailure(call)
           /\ SetSession(t, [done EXCEPT !.session = SignedOut])
        \/ call.stage = "failed" /\ Render(t, done) /\ UNCHANGED storage
     /\ UNCHANGED <<auth, counters, history>>

(* The sign-in page does not wait for the hydration; its button is disabled      *)
(* while it waits for an answer.                                                 *)
SubmitLogin(t) ==
  /\ tab[t].path = "login" /\ tab[t].login.stage = "none"
  /\ \E u \in Users :
       tab' = [tab EXCEPT ![t].login = Ask([SignedOut EXCEPT !.user = u])]
  /\ UNCHANGED <<auth, storage, counters, history>>

LoginAnswered_KeepsUser(t) ==
  LET call == tab[t].login
      old == tab[t].session.user
      new == [call.session EXCEPT !.user = IF old = Null THEN @ ELSE old]
  IN /\ call.stage \in {"ok", "failed"}
     /\ SetSession(t, [tab[t] EXCEPT !.login = Idle, !.path = "app",
                                     !.session = IF call.stage = "ok" THEN new ELSE @])
     /\ UNCHANGED <<auth, counters, history>>

LoginAnswered(t) ==
  LET call == tab[t].login
      done == [tab[t] EXCEPT !.login = Idle]
  IN /\ \/ /\ call.stage = "ok"
           /\ SetSession(t, [done EXCEPT !.session = call.session, !.path = "app"])
           /\ crossed' = (crossed \/ tab[t].hydrate # Idle \/ tab[t].logout # Idle)
           /\ bornDead' = [bornDead EXCEPT ![t] = FALSE]
        \/ /\ call.stage = "failed"
           /\ Render(t, done) /\ UNCHANGED <<storage, history>>
     /\ UNCHANGED <<auth, counters>>

Logout(t) ==
  /\ ShellShown(tab[t]) /\ tab[t].logout.stage = "none"
  /\ tab' = [tab EXCEPT ![t].logout = Ask(tab[t].session)]
  /\ UNCHANGED <<auth, storage, counters, history>>

(* Whatever the answer, the session is cleared, then the path changes.        *)
LogoutAnswered(t) ==
  /\ tab[t].logout.stage \in {"ok", "refused", "failed"}
  /\ SetSession(t, [tab[t] EXCEPT !.logout = Idle, !.session = SignedOut, !.path = "login"])
  /\ UNCHANGED <<auth, counters, history>>

StreamFails_Unreported(t) ==
  /\ tab[t].stream.stage \in {"refused", "failed"}
  /\ tab' = [tab EXCEPT ![t].stream.stage = "ok"]
  /\ UNCHANGED <<auth, storage, counters, history>>

(* The stream ends with an error; it is not opened again for this session.    *)
StreamFails(t) ==
  /\ tab[t].stream.stage \in {"refused", "failed"}
  /\ IF IsAuthenticationFailure(tab[t].stream)
     THEN SetSession(t, [tab[t] EXCEPT !.session = SignedOut])
     ELSE tab' = [tab EXCEPT ![t].stream.stage = "ok"] /\ UNCHANGED storage
  /\ UNCHANGED <<auth, counters, history>>

(* The gateway: it refuses a dead token, and any call may fail otherwise.      *)
Verdict(k) == IF k \in dead THEN "refused" ELSE "ok"

ServeHydrate(t) ==
  /\ tab[t].hydrate.stage = "asked"
  /\ tab' = [tab EXCEPT ![t].hydrate.stage = Verdict(tab[t].hydrate.session.token)]
  /\ UNCHANGED <<auth, storage, counters, history>>

ServeStream(t) ==
  /\ tab[t].stream.stage = "asked"
  /\ tab' = [tab EXCEPT ![t].stream.stage = Verdict(tab[t].stream.session.token)]
  /\ UNCHANGED <<auth, storage, counters, history>>

ServeLogin(t) ==
  /\ tab[t].login.stage = "asked"
  /\ \E k \in Tokens :
       /\ owner[k] = Null
       /\ owner' = [owner EXCEPT ![k] = tab[t].login.session.user]
       /\ tab' = [tab EXCEPT ![t].login = [stage |-> "ok",
                                          session |-> [token |-> k, user |-> @.session.user]]]
  /\ UNCHANGED <<dead, storage, counters, history>>

ServeLogout(t) ==
  /\ tab[t].logout.stage = "asked"
  /\ tab' = [tab EXCEPT ![t].logout.stage = Verdict(tab[t].logout.session.token)]
  /\ dead' = dead \cup {tab[t].logout.session.token}
  /\ UNCHANGED <<owner, storage, counters, history>>

Fault(t) ==
  /\ faults < MaxFaults /\ faults' = faults + 1
  /\ \/ tab[t].hydrate.stage = "asked" /\ tab' = [tab EXCEPT ![t].hydrate.stage = "failed"]
     \/ tab[t].stream.stage = "asked" /\ tab' = [tab EXCEPT ![t].stream.stage = "failed"]
     \/ tab[t].login.stage = "asked" /\ tab' = [tab EXCEPT ![t].login.stage = "failed"]
     \/ tab[t].logout.stage = "asked" /\ tab' = [tab EXCEPT ![t].logout.stage = "failed"]
  /\ UNCHANGED <<auth, storage, loads, history>>

(* Twelve hours pass, or the token is revoked from elsewhere.                  *)
Expire(k) ==
  /\ owner[k] # Null /\ k \notin dead
  /\ dead' = dead \cup {k}
  /\ UNCHANGED <<owner, storage, tab, counters, history>>

Answers(t) == HydrateAnswered(t) \/ LoginAnswered(t) \/ LogoutAnswered(t) \/ StreamFails(t)

Serves(t) == ServeHydrate(t) \/ ServeStream(t) \/ ServeLogout(t)

Next ==
  \/ \E t \in Tabs : Load(t) \/ SubmitLogin(t) \/ Logout(t) \/ ServeLogin(t) \/ Fault(t)
  \/ \E t \in Tabs : Answers(t) \/ Serves(t)
  \/ \E k \in Tokens : Expire(k)

Spec == Init /\ [][Next]_vars

(* The gateway serves and the network delivers; users need not do anything.    *)
Fairness ==
  \A t \in Tabs :
    /\ WF_vars(HydrateAnswered(t)) /\ WF_vars(StreamFails(t))
    /\ WF_vars(ServeHydrate(t)) /\ WF_vars(ServeStream(t))

FairSpec == Spec /\ Fairness

(***************************************************************************)
(* Properties.                                                              *)
(***************************************************************************)
TabState ==
  [session : Session, path : {"login", "app"}, initializing : BOOLEAN,
   hydrate : Calls, login : Calls, logout : Calls, stream : Calls]

(* The variables keep their types (AuthContext.jsx:8-17, LoginPage.jsx:11-13). *)
TypeOK ==
  /\ owner \in [Tokens -> Users \cup {Null}]
  /\ dead \subseteq Tokens
  /\ storage \in Session
  /\ tab \in [Tabs -> TabState]
  /\ faults \in Nat /\ loads \in Nat
  /\ crossed \in BOOLEAN /\ bornDead \in [Tabs -> BOOLEAN]

(* A session has a token and a user, or neither: the answer to getMe is merged   *)
(* into whatever session is there (AuthContext.jsx:45), and only the guard's      *)
(* spinner (ProtectedRoute.jsx:9) keeps a sign-out or a refused stream from       *)
(* emptying the session first.                                                    *)
Paired(s) == (s.token = Null) = (s.user = Null)
PairKept == Paired(storage) /\ \A t \in Tabs : Paired(tab[t].session)

(* The user of a session is the one its token was issued to, in every tab and    *)
(* in localStorage, as long as no login was answered while an older call that      *)
(* writes the session was waiting (AuthContext.jsx:45, :62-66).                    *)
Owned(s, issued) == s.token # Null => issued[s.token] = s.user
OwnSession == ~crossed => Owned(storage, owner) /\ \A t \in Tabs : Owned(tab[t].session, owner)

(* What the two above rest on, an inductive invariant.  Parts: a session             *)
(* has an issued token; a hydration belongs to the session on show, and nothing else    *)
(* runs beside it (ProtectedRoute.jsx:9); the stream is that of the session on show       *)
(* (AppShell.jsx:197-221); a refused call has a dead token.                                 *)
Issued(s, issued) == s.token # Null => issued[s.token] # Null

SessionSound(s, issued, mixed) ==
  Paired(s) /\ Issued(s, issued) /\ (~mixed => Owned(s, issued))

HydrationSound(s, issued, ended, mixed) ==
  /\ s.initializing = (s.hydrate.stage # "none")
  /\ s.initializing =>
       /\ s.session.token # Null /\ s.logout.stage = "none"
       /\ s.hydrate.session.token # Null /\ Issued(s.hydrate.session, issued)
       /\ ~mixed => s.hydrate.session.token = s.session.token
  /\ s.hydrate.stage = "refused" => s.hydrate.session.token \in ended

StreamSound(s, ended) ==
  /\ s.stream.stage # "none" => ~s.initializing /\ s.stream.session = s.session
  /\ s.stream.stage = "refused" => s.stream.session.token \in ended

LoginSound(s, issued) ==
  /\ s.login.stage # "none" => s.login.session.user # Null
  /\ s.login.stage = "ok" =>
       s.login.session.token # Null /\ issued[s.login.session.token] = s.login.session.user

LogoutSound(s, mixed) ==
  s.logout.stage # "none" =>
    /\ s.logout.session.token # Null
    /\ mixed \/ s.session.token \in {Null, s.logout.session.token}

TabSound(s, issued, ended, mixed) ==
  /\ SessionSound(s.session, issued, mixed)
  /\ HydrationSound(s, issued, ended, mixed)
  /\ StreamSound(s, ended) /\ LoginSound(s, issued) /\ LogoutSound(s, mixed)

SessionInv ==
  /\ TypeOK
  /\ SessionSound(storage, owner, crossed)
  /\ \A t \in Tabs : TabSound(tab[t], owner, dead, crossed)

(* A tab loses a session whose token is good only by the sign-out of that very     *)
(* session (AuthContext.jsx:23-31, :50, :82): a stream opened for an earlier        *)
(* session, or a refused check of it, cannot end this one, again unless a login      *)
(* overtook an older call.                                                           *)
GoodSessionKept ==
  [][\A t \in Tabs :
       LET k == tab[t].session.token
       IN ~crossed /\ k # Null /\ tab'[t].session.token # k /\ loads' = loads
          => k \in dead \/ tab[t].logout.session.token = k \/ tab[t].login.stage = "ok"]_vars

(* A page loaded with a dead token does not keep showing the protected pages:     *)
(* one failed call is survived, for getMe and the stream both report it            *)
(* (AuthContext.jsx:50, api.js:543).                                                *)
DeadSessionEnds ==
  \A t \in Tabs : []<>~(ShellShown(tab[t]) /\ bornDead[t] /\ tab[t].session.token \in dead)
=============================================================================
