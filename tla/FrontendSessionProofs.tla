------------------------- MODULE FrontendSessionProofs -------------------------
(***************************************************************************)
(* The session of the browser client for any number of tabs, users and tokens:   *)
(* SessionInv is inductive, and implies the properties of FrontendSession.         *)
(***************************************************************************)
EXTENDS FrontendSession, TLAPS

Rendered(s) == Streaming(Guarded(s))

(* What the guard and the stream's effect change: the path and the stream only.   *)
LEMMA RenderKeeps ==
  ASSUME NEW s \in TabState
  PROVE  /\ Rendered(s) \in TabState
         /\ Rendered(s).session = s.session /\ Rendered(s).initializing = s.initializing
         /\ Rendered(s).hydrate = s.hydrate /\ Rendered(s).login = s.login
         /\ Rendered(s).logout = s.logout
         /\ Rendered(s).stream.stage # "none" =>
              ~s.initializing /\ Rendered(s).stream.session = s.session
         /\ Rendered(s).stream.stage = "refused" => Rendered(s).stream = s.stream
<1> DEFINE g == Guarded(s)
<1>1. /\ g \in TabState /\ g.session = s.session /\ g.initializing = s.initializing
      /\ g.hydrate = s.hydrate /\ g.login = s.login /\ g.logout = s.logout /\ g.stream = s.stream
  BY DEF Guarded, TabState
<1>2. /\ Rendered(s) = [g EXCEPT !.stream = Rendered(s).stream]
      /\ Rendered(s).stream \in {Idle, g.stream, Ask(g.session)}
      /\ Rendered(s).stream = Idle \/ ShellShown(g)
      /\ Rendered(s).stream = g.stream => Rendered(s).stream = Idle \/ g.stream.session = g.session
  <2> HIDE DEF g
  <2> QED BY <1>1 DEF Rendered, Streaming, TabState, Calls, Idle, Ask, g
<1>3. Idle \in Calls /\ Idle.stage = "none"
  BY DEF Idle, Calls, Session, SignedOut
<1>4. Ask(g.session) \in Calls /\ Ask(g.session).stage = "asked" /\ Ask(g.session).session = g.session
  <2> HIDE DEF g
  <2> QED BY <1>1 DEF Ask, Calls, TabState
<1>5. ShellShown(g) => ~g.initializing
  BY DEF ShellShown
<1> HIDE DEF g
<1>6. Rendered(s).stream \in Calls
  BY <1>1, <1>2, <1>3, <1>4 DEF TabState
<1>7. Rendered(s) \in TabState /\ Rendered(s).session = g.session
      /\ Rendered(s).initializing = g.initializing /\ Rendered(s).hydrate = g.hydrate
      /\ Rendered(s).login = g.login /\ Rendered(s).logout = g.logout
  BY <1>1, <1>2, <1>6 DEF TabState
<1> QED BY <1>1, <1>2, <1>3, <1>4, <1>5, <1>7

(* A tab stays sound while tokens are issued and end.                           *)
LEMMA SoundGrows ==
  ASSUME NEW s \in TabState,
         NEW o \in [Tokens -> Users \cup {Null}], NEW o2 \in [Tokens -> Users \cup {Null}],
         NEW d, NEW d2, NEW c \in BOOLEAN, NEW c2 \in BOOLEAN,
         \A k \in Tokens : o[k] # Null => o2[k] = o[k],
         d \subseteq d2, c => c2,
         TabSound(s, o, d, c)
  PROVE  TabSound(s, o2, d2, c2)
<1>1. /\ s.session \in Session /\ s.hydrate.session \in Session
      /\ s.login.session \in Session
      /\ s.initializing \in BOOLEAN
  BY DEF TabState, Calls
<1>2. SessionSound(s.session, o2, c2)
  BY <1>1 DEF TabSound, SessionSound, Issued, Owned, Paired, Session
<1>3. HydrationSound(s, o2, d2, c2)
  BY <1>1 DEF TabSound, HydrationSound, Issued, Session
<1>4. StreamSound(s, d2)
  BY DEF TabSound, StreamSound
<1>5. LoginSound(s, o2)
  BY <1>1 DEF TabSound, LoginSound, Session
<1>6. LogoutSound(s, c2)
  BY DEF TabSound, LogoutSound
<1> QED BY <1>2, <1>3, <1>4, <1>5, <1>6 DEF TabSound

(* A tab that is sound but for its stream is sound once it has been rendered.     *)
LEMMA RenderSound ==
  ASSUME NEW s \in TabState, NEW o, NEW d, NEW c,
         SessionSound(s.session, o, c), HydrationSound(s, o, d, c),
         s.stream.stage = "refused" => s.stream.session.token \in d,
         LoginSound(s, o), LogoutSound(s, c)
  PROVE  TabSound(Rendered(s), o, d, c)
<1> DEFINE r == Rendered(s)
<1>1. /\ r.session = s.session /\ r.initializing = s.initializing
      /\ r.hydrate = s.hydrate /\ r.login = s.login /\ r.logout = s.logout
      /\ r.stream.stage # "none" => ~s.initializing /\ r.stream.session = s.session
      /\ r.stream.stage = "refused" => r.stream = s.stream
  BY RenderKeeps
<1> HIDE DEF r
<1>2. SessionSound(r.session, o, c) /\ HydrationSound(r, o, d, c)
  BY <1>1 DEF HydrationSound
<1>3. StreamSound(r, d)
  BY <1>1 DEF StreamSound
<1>4. LoginSound(r, o) /\ LogoutSound(r, c)
  BY <1>1 DEF LoginSound, LogoutSound
<1>5. TabSound(r, o, d, c)
  BY <1>2, <1>3, <1>4 DEF TabSound
<1> QED BY <1>5 DEF r
(* A step of one tab keeps the invariant when it leaves that tab and localStorage     *)
(* sound; the other tabs stand.                                                         *)
LEMMA StepKeeps ==
  ASSUME SessionInv, NEW t \in Tabs, NEW r \in TabState, tab' = [tab EXCEPT ![t] = r],
         TabSound(r, owner', dead', crossed'),
         owner' \in [Tokens -> Users \cup {Null}],
         \A k \in Tokens : owner[k] # Null => owner'[k] = owner[k],
         dead \subseteq dead', dead' \subseteq Tokens,
         crossed' \in BOOLEAN, crossed => crossed',
         storage' \in Session, SessionSound(storage', owner', crossed'),
         faults' \in Nat, loads' \in Nat, bornDead' \in [Tabs -> BOOLEAN]
  PROVE  SessionInv'
<1>1. TypeOK'
  BY DEF SessionInv, TypeOK
<1>2. ASSUME NEW u \in Tabs PROVE TabSound(tab'[u], owner', dead', crossed')
  <2>1. CASE u = t
    BY <2>1 DEF SessionInv, TypeOK
  <2>2. CASE u # t
    <3>1. /\ tab'[u] = tab[u] /\ tab[u] \in TabState
          /\ owner \in [Tokens -> Users \cup {Null}] /\ crossed \in BOOLEAN
          /\ TabSound(tab[u], owner, dead, crossed)
      BY <2>2 DEF SessionInv, TypeOK
    <3> QED BY <3>1, SoundGrows
  <2> QED BY <2>1, <2>2
<1> QED BY <1>1, <1>2 DEF SessionInv

(* A sound record stays so when a token is issued, or a login crosses.            *)
LEMMA StoredStands ==
  ASSUME NEW s \in Session,
         NEW o \in [Tokens -> Users \cup {Null}], NEW o2 \in [Tokens -> Users \cup {Null}],
         NEW c \in BOOLEAN, NEW c2 \in BOOLEAN,
         \A k \in Tokens : o[k] # Null => o2[k] = o[k], c => c2,
         SessionSound(s, o, c)
  PROVE  SessionSound(s, o2, c2)
BY DEF SessionSound, Issued, Owned, Paired, Session

LEMMA SignedOutSound ==
  ASSUME NEW o, NEW c
  PROVE  SignedOut \in Session /\ SessionSound(SignedOut, o, c)
BY DEF SignedOut, Session, SessionSound, Paired, Issued, Owned

LEMMA InitSound == Init => SessionInv
<1> SUFFICES ASSUME Init PROVE SessionInv
  OBVIOUS
<1>1. SignedOut \in Session /\ SessionSound(SignedOut, owner, crossed)
  BY SignedOutSound
<1>2. Idle \in Calls /\ Idle.stage = "none" /\ SignedOut.token = Null
  BY DEF Idle, Calls, Session, SignedOut
<1> DEFINE s == Loaded(SignedOut, "login")
<1>3. s = [session |-> SignedOut, path |-> "login", initializing |-> FALSE, hydrate |-> Idle,
           login |-> Idle, logout |-> Idle, stream |-> Idle]
  BY <1>2 DEF Loaded
<1> HIDE DEF s
<1>4. s \in TabState
  BY <1>1, <1>2, <1>3 DEF TabState
<1>5. TabSound(s, owner, dead, crossed)
  BY <1>1, <1>2, <1>3 DEF TabSound, HydrationSound, StreamSound, LoginSound, LogoutSound
<1>6. TypeOK
  BY <1>1, <1>4 DEF Init, TypeOK, s
<1>7. storage = SignedOut /\ \A t \in Tabs : tab[t] = s
  BY DEF Init, s
<1> QED BY <1>1, <1>5, <1>6, <1>7 DEF SessionInv

LEMMA LoadKeeps ==
  ASSUME SessionInv, NEW t \in Tabs, Load(t)
  PROVE  SessionInv'
<1>1. PICK path \in {"login", "app"} : Render(t, Loaded(storage, path))
  BY DEF Load
<1> DEFINE s == Loaded(storage, path)
           r == Rendered(s)
<1>2. storage \in Session /\ SessionSound(storage, owner, crossed)
  BY DEF SessionInv, TypeOK
<1>3. /\ Idle \in Calls /\ Idle.stage = "none"
      /\ Ask(storage) \in Calls /\ Ask(storage).stage = "asked" /\ Ask(storage).session = storage
  BY <1>2 DEF Idle, Ask, Calls, Session, SignedOut
<1>4. /\ s.session = storage /\ s.path = path /\ s.initializing = (storage.token # Null)
      /\ s.hydrate = IF storage.token # Null THEN Ask(storage) ELSE Idle
      /\ s.login = Idle /\ s.logout = Idle /\ s.stream = Idle
  BY <1>2 DEF Loaded, SessionSound, Paired
<1>5. s \in TabState
  BY <1>2, <1>3 DEF Loaded, TabState
<1> HIDE DEF s
<1>6. HydrationSound(s, owner, dead, crossed)
  BY <1>2, <1>3, <1>4 DEF HydrationSound, SessionSound
<1>7. LoginSound(s, owner) /\ LogoutSound(s, crossed) /\ s.stream.stage # "refused"
  BY <1>3, <1>4 DEF LoginSound, LogoutSound
<1>8. TabSound(r, owner, dead, crossed) /\ r \in TabState
  BY <1>2, <1>4, <1>5, <1>6, <1>7, RenderSound, RenderKeeps
<1>9. tab' = [tab EXCEPT ![t] = r]
  BY <1>1 DEF Render, Rendered, s
<1> HIDE DEF r
<1>10. bornDead' \in [Tabs -> BOOLEAN] /\ loads' \in Nat
  BY DEF Load, SessionInv, TypeOK
<1>11. UNCHANGED <<owner, dead, storage, faults, crossed>>
  BY DEF Load, auth
<1> QED BY <1>2, <1>8, <1>9, <1>10, <1>11, StepKeeps DEF SessionInv, TypeOK
LEMMA HydrateAnsweredKeeps ==
  ASSUME SessionInv, NEW t \in Tabs, HydrateAnswered(t)
  PROVE  SessionInv'
<1> DEFINE s == tab[t]
           call == s.hydrate
           done == [s EXCEPT !.hydrate = Idle, !.initializing = FALSE]
           welcome == [done EXCEPT !.session.user = owner[call.session.token]]
           out == [done EXCEPT !.session = SignedOut]
<1>1. /\ s \in TabState /\ s.session \in Session /\ call \in Calls /\ call.session \in Session
      /\ TabSound(s, owner, dead, crossed) /\ call.stage # "none"
      /\ owner \in [Tokens -> Users \cup {Null}]
  BY DEF SessionInv, TypeOK, TabState, Calls, HydrateAnswered
<1>2. Idle \in Calls /\ Idle.stage = "none" /\ SignedOut \in Session
  BY DEF Idle, Calls, Session, SignedOut
<1>3. /\ s.session.token \in Tokens /\ call.session.token \in Tokens
      /\ owner[call.session.token] \in Users
      /\ ~crossed => call.session.token = s.session.token
      /\ s.logout.stage = "none" /\ s.stream.stage = "none"
  BY <1>1 DEF TabSound, HydrationSound, StreamSound, Issued, Session
<1>4. UNCHANGED <<owner, dead, faults, loads, crossed, bornDead>>
  BY DEF HydrateAnswered, auth, counters, history
<1>5. ASSUME NEW r \in TabState, r.session \in Session,
             r.hydrate = Idle, r.initializing = FALSE,
             r.login = s.login, r.logout = s.logout, r.stream = s.stream,
             SessionSound(r.session, owner, crossed)
      PROVE  TabSound(Rendered(r), owner, dead, crossed) /\ Rendered(r) \in TabState
  <2>1. HydrationSound(r, owner, dead, crossed)
    BY <1>2, <1>5 DEF HydrationSound
  <2>2. LoginSound(r, owner) /\ LogoutSound(r, crossed) /\ r.stream.stage # "refused"
    BY <1>1, <1>3, <1>5 DEF LoginSound, LogoutSound, TabSound
  <2> QED BY <1>5, <2>1, <2>2, RenderSound, RenderKeeps
<1>6. CASE call.stage = "ok" /\ SetSession(t, welcome)
  <2>1. /\ welcome \in TabState /\ welcome.hydrate = Idle /\ welcome.initializing = FALSE
        /\ welcome.login = s.login /\ welcome.logout = s.logout /\ welcome.stream = s.stream
        /\ welcome.session = [s.session EXCEPT !.user = owner[call.session.token]]
    BY <1>1, <1>2, <1>3 DEF TabState, Session
  <2> HIDE DEF welcome
  <2>2. welcome.session \in Session /\ SessionSound(welcome.session, owner, crossed)
    BY <1>1, <1>3, <2>1, SessionAssumption
       DEF SessionSound, Paired, Issued, Owned, Session, TabSound
  <2>3. tab' = [tab EXCEPT ![t] = Rendered(welcome)] /\ storage' = welcome.session
    BY <1>6 DEF SetSession, Render, Rendered
  <2> QED BY <1>4, <1>5, <2>1, <2>2, <2>3, StepKeeps DEF SessionInv, TypeOK
<1>7. CASE SetSession(t, out)
  <2>1. /\ out \in TabState /\ out.hydrate = Idle /\ out.initializing = FALSE
        /\ out.login = s.login /\ out.logout = s.logout /\ out.stream = s.stream
        /\ out.session = SignedOut
    BY <1>1, <1>2 DEF TabState
  <2> HIDE DEF out
  <2>2. tab' = [tab EXCEPT ![t] = Rendered(out)] /\ storage' = SignedOut
    BY <1>7, <2>1 DEF SetSession, Render, Rendered
  <2> QED BY <1>2, <1>4, <1>5, <2>1, <2>2, SignedOutSound, StepKeeps DEF SessionInv, TypeOK
<1>8. CASE Render(t, done) /\ UNCHANGED storage
  <2>1. /\ done \in TabState /\ done.hydrate = Idle /\ done.initializing = FALSE
        /\ done.login = s.login /\ done.logout = s.logout /\ done.stream = s.stream
        /\ done.session = s.session
    BY <1>1, <1>2 DEF TabState
  <2> HIDE DEF done
  <2>2. tab' = [tab EXCEPT ![t] = Rendered(done)]
    BY <1>8 DEF Render, Rendered
  <2> QED BY <1>1, <1>4, <1>5, <1>8, <2>1, <2>2, StepKeeps DEF SessionInv, TypeOK, TabSound
<1> QED BY <1>6, <1>7, <1>8 DEF HydrateAnswered
(* What is known of a tab before any of the steps below.                          *)
LEMMA TabFacts ==
  ASSUME SessionInv, NEW t \in Tabs
  PROVE  /\ tab[t] \in TabState /\ tab[t].session \in Session
         /\ tab[t].hydrate \in Calls /\ tab[t].hydrate.session \in Session
         /\ tab[t].login \in Calls /\ tab[t].login.session \in Session
         /\ tab[t].logout \in Calls /\ tab[t].logout.session \in Session
         /\ tab[t].stream \in Calls /\ tab[t].stream.session \in Session
         /\ TabSound(tab[t], owner, dead, crossed)
BY DEF SessionInv, TypeOK, TabState, Calls

(* A step that moves the calls of one tab and touches nothing else.               *)
LEMMA CallKeeps ==
  ASSUME SessionInv, NEW t \in Tabs, NEW r \in TabState, tab' = [tab EXCEPT ![t] = r],
         r.session = tab[t].session,
         HydrationSound(r, owner, dead, crossed), StreamSound(r, dead),
         LoginSound(r, owner), LogoutSound(r, crossed),
         faults' \in Nat, UNCHANGED <<owner, dead, storage, loads, crossed, bornDead>>
  PROVE  SessionInv'
<1>1. TabSound(r, owner, dead, crossed)
  BY TabFacts DEF TabSound
<1> QED BY <1>1, StepKeeps DEF SessionInv, TypeOK

LEMMA SubmitLoginKeeps ==
  ASSUME SessionInv, NEW t \in Tabs, SubmitLogin(t)
  PROVE  SessionInv'
<1>1. PICK u \in Users : tab' = [tab EXCEPT ![t].login = Ask([SignedOut EXCEPT !.user = u])]
  BY DEF SubmitLogin
<1> DEFINE s == tab[t]
           call == Ask([SignedOut EXCEPT !.user = u])
           r == [s EXCEPT !.login = call]
<1>2. call \in Calls /\ call.stage = "asked" /\ call.session.user = u
  BY DEF Ask, Calls, Session, SignedOut
<1>3. s \in TabState /\ TabSound(s, owner, dead, crossed)
  BY TabFacts
<1> HIDE DEF call
<1>4. /\ r \in TabState /\ tab' = [tab EXCEPT ![t] = r]
      /\ r.session = s.session /\ r.initializing = s.initializing /\ r.hydrate = s.hydrate
      /\ r.login = call /\ r.logout = s.logout /\ r.stream = s.stream
  BY <1>1, <1>2, <1>3 DEF TabState, SessionInv, TypeOK, call
<1> HIDE DEF r
<1>5. HydrationSound(r, owner, dead, crossed) /\ StreamSound(r, dead) /\ LogoutSound(r, crossed)
  BY <1>3, <1>4 DEF TabSound, HydrationSound, StreamSound, LogoutSound
<1>6. LoginSound(r, owner)
  BY <1>2, <1>4, SessionAssumption DEF LoginSound
<1>7. faults' \in Nat /\ UNCHANGED <<owner, dead, storage, loads, crossed, bornDead>>
  BY DEF SubmitLogin, auth, counters, history, SessionInv, TypeOK
<1> QED BY <1>4, <1>5, <1>6, <1>7, CallKeeps

LEMMA LoginAnsweredKeeps ==
  ASSUME SessionInv, NEW t \in Tabs, LoginAnswered(t)
  PROVE  SessionInv'
<1> DEFINE s == tab[t]
           call == s.login
           done == [s EXCEPT !.login = Idle]
           in == [done EXCEPT !.session = call.session, !.path = "app"]
<1>1. /\ s \in TabState /\ s.session \in Session /\ call \in Calls /\ call.session \in Session
      /\ s.hydrate \in Calls /\ s.logout \in Calls
      /\ TabSound(s, owner, dead, crossed)
  BY TabFacts
<1>2. Idle \in Calls /\ Idle.stage = "none" /\ owner \in [Tokens -> Users \cup {Null}]
  BY DEF Idle, Calls, Session, SignedOut, SessionInv, TypeOK
<1>3. UNCHANGED <<owner, dead, faults, loads>> /\ bornDead' \in [Tabs -> BOOLEAN]
  BY DEF LoginAnswered, auth, counters, history, SessionInv, TypeOK
<1>4. CASE /\ call.stage = "ok" /\ SetSession(t, in)
           /\ crossed' = (crossed \/ tab[t].hydrate # Idle \/ tab[t].logout # Idle)
  <2>1. /\ in \in TabState /\ in.session = call.session /\ in.initializing = s.initializing
        /\ in.hydrate = s.hydrate /\ in.login = Idle /\ in.logout = s.logout
        /\ in.stream = s.stream
    BY <1>1, <1>2 DEF TabState
  <2> HIDE DEF in
  <2>2. /\ call.session.token \in Tokens /\ call.session.user \in Users
        /\ owner[call.session.token] = call.session.user
    BY <1>1, <1>4 DEF TabSound, LoginSound, Session
  <2>3. \A c \in BOOLEAN : SessionSound(call.session, owner, c)
    BY <2>2, SessionAssumption DEF SessionSound, Paired, Issued, Owned
  <2>4. crossed' \in BOOLEAN /\ (crossed => crossed')
    BY <1>4 DEF SessionInv, TypeOK
  <2>5. /\ s.hydrate.stage # "none" => crossed'
        /\ s.logout.stage # "none" => crossed'
    BY <1>2, <1>4
  <2>6. HydrationSound(in, owner, dead, crossed')
    BY <1>1, <2>1, <2>2, <2>5, SessionAssumption DEF HydrationSound, TabSound
  <2>7. LoginSound(in, owner) /\ LogoutSound(in, crossed')
    BY <1>1, <1>2, <2>1, <2>5 DEF LoginSound, LogoutSound, TabSound
  <2>8. in.stream.stage = "refused" => in.stream.session.token \in dead
    BY <1>1, <2>1 DEF TabSound, StreamSound
  <2>9. TabSound(Rendered(in), owner, dead, crossed') /\ Rendered(in) \in TabState
    BY <2>1, <2>3, <2>4, <2>6, <2>7, <2>8, RenderSound, RenderKeeps
  <2>10. tab' = [tab EXCEPT ![t] = Rendered(in)] /\ storage' = call.session
    BY <1>4, <2>1 DEF SetSession, Render, Rendered
  <2> QED BY <1>1, <1>3, <2>3, <2>4, <2>9, <2>10, StepKeeps DEF SessionInv, TypeOK
<1>5. CASE Render(t, done) /\ UNCHANGED <<storage, history>>
  <2>1. /\ done \in TabState /\ done.session = s.session /\ done.initializing = s.initializing
        /\ done.hydrate = s.hydrate /\ done.login = Idle /\ done.logout = s.logout
        /\ done.stream = s.stream
    BY <1>1, <1>2 DEF TabState
  <2> HIDE DEF done
  <2>2. /\ HydrationSound(done, owner, dead, crossed) /\ LoginSound(done, owner)
        /\ LogoutSound(done, crossed) /\ SessionSound(done.session, owner, crossed)
        /\ done.stream.stage = "refused" => done.stream.session.token \in dead
    BY <1>1, <1>2, <2>1 DEF TabSound, HydrationSound, LoginSound, LogoutSound, StreamSound
  <2>3. TabSound(Rendered(done), owner, dead, crossed) /\ Rendered(done) \in TabState
    BY <2>1, <2>2, RenderSound, RenderKeeps
  <2>4. tab' = [tab EXCEPT ![t] = Rendered(done)] /\ UNCHANGED <<storage, crossed>>
    BY <1>5 DEF Render, Rendered, history
  <2> QED BY <1>3, <2>3, <2>4, StepKeeps DEF SessionInv, TypeOK
<1> QED BY <1>4, <1>5 DEF LoginAnswered
LEMMA LogoutKeeps ==
  ASSUME SessionInv, NEW t \in Tabs, Logout(t)
  PROVE  SessionInv'
<1> DEFINE s == tab[t]
           call == Ask(s.session)
           r == [s EXCEPT !.logout = call]
<1>1. s \in TabState /\ s.session \in Session /\ TabSound(s, owner, dead, crossed)
  BY TabFacts
<1>2. call \in Calls /\ call.session = s.session
  BY <1>1 DEF Ask, Calls
<1>3. ~s.initializing /\ s.session.token # Null /\ tab' = [tab EXCEPT ![t].logout = call]
  BY DEF Logout, ShellShown
<1> HIDE DEF call
<1>4. /\ r \in TabState /\ tab' = [tab EXCEPT ![t] = r]
      /\ r.session = s.session /\ r.initializing = s.initializing /\ r.hydrate = s.hydrate
      /\ r.login = s.login /\ r.logout = call /\ r.stream = s.stream
  BY <1>1, <1>2, <1>3 DEF TabState, SessionInv, TypeOK
<1> HIDE DEF r
<1>5. HydrationSound(r, owner, dead, crossed) /\ StreamSound(r, dead) /\ LoginSound(r, owner)
  BY <1>1, <1>3, <1>4 DEF TabSound, HydrationSound, StreamSound, LoginSound
<1>6. LogoutSound(r, crossed)
  BY <1>2, <1>3, <1>4 DEF LogoutSound
<1>7. faults' \in Nat /\ UNCHANGED <<owner, dead, storage, loads, crossed, bornDead>>
  BY DEF Logout, auth, counters, history, SessionInv, TypeOK
<1> QED BY <1>4, <1>5, <1>6, <1>7, CallKeeps

LEMMA LogoutAnsweredKeeps ==
  ASSUME SessionInv, NEW t \in Tabs, LogoutAnswered(t)
  PROVE  SessionInv'
<1> DEFINE s == tab[t]
           out == [s EXCEPT !.logout = Idle, !.session = SignedOut, !.path = "login"]
<1>1. s \in TabState /\ TabSound(s, owner, dead, crossed) /\ s.logout.stage # "none"
  BY TabFacts DEF LogoutAnswered
<1>2. Idle \in Calls /\ Idle.stage = "none" /\ SignedOut \in Session
  BY DEF Idle, Calls, Session, SignedOut
<1>3. /\ out \in TabState /\ out.session = SignedOut /\ out.initializing = s.initializing
      /\ out.hydrate = s.hydrate /\ out.login = s.login /\ out.logout = Idle
      /\ out.stream = s.stream
  BY <1>1, <1>2 DEF TabState
<1>4. SetSession(t, out) /\ UNCHANGED <<owner, dead, faults, loads, crossed, bornDead>>
  BY DEF LogoutAnswered, auth, counters, history
<1> HIDE DEF out
<1>5. tab' = [tab EXCEPT ![t] = Rendered(out)] /\ storage' = SignedOut
  BY <1>3, <1>4 DEF SetSession, Render, Rendered
<1>6. /\ HydrationSound(out, owner, dead, crossed) /\ LoginSound(out, owner)
      /\ LogoutSound(out, crossed)
      /\ out.stream.stage = "refused" => out.stream.session.token \in dead
  BY <1>1, <1>2, <1>3 DEF TabSound, HydrationSound, LoginSound, LogoutSound, StreamSound
<1>7. TabSound(Rendered(out), owner, dead, crossed) /\ Rendered(out) \in TabState
  BY <1>3, <1>6, SignedOutSound, RenderSound, RenderKeeps
<1> QED BY <1>2, <1>4, <1>5, <1>7, SignedOutSound, StepKeeps DEF SessionInv, TypeOK

LEMMA StreamFailsKeeps ==
  ASSUME SessionInv, NEW t \in Tabs, StreamFails(t)
  PROVE  SessionInv'
<1> DEFINE s == tab[t]
           out == [s EXCEPT !.session = SignedOut]
           r == [s EXCEPT !.stream.stage = "ok"]
<1>1. /\ s \in TabState /\ s.stream \in Calls /\ TabSound(s, owner, dead, crossed)
      /\ s.stream.stage \in {"refused", "failed"}
  BY TabFacts DEF StreamFails
<1>2. ~s.initializing /\ s.hydrate.stage = "none"
  BY <1>1 DEF TabSound, StreamSound, HydrationSound
<1>3. UNCHANGED <<owner, dead, faults, loads, crossed, bornDead>>
  BY DEF StreamFails, auth, counters, history
<1>4. CASE SetSession(t, out)
  <2>1. SignedOut \in Session
    BY SignedOutSound
  <2>2. /\ out \in TabState /\ out.session = SignedOut /\ out.initializing = s.initializing
        /\ out.hydrate = s.hydrate /\ out.login = s.login /\ out.logout = s.logout
        /\ out.stream = s.stream
    BY <1>1, <2>1 DEF TabState
  <2>3. SignedOut.token = Null
    BY DEF SignedOut
  <2> HIDE DEF out
  <2>4. tab' = [tab EXCEPT ![t] = Rendered(out)] /\ storage' = SignedOut
    BY <1>4, <2>2 DEF SetSession, Render, Rendered
  <2>5. /\ HydrationSound(out, owner, dead, crossed) /\ LoginSound(out, owner)
        /\ LogoutSound(out, crossed)
        /\ out.stream.stage = "refused" => out.stream.session.token \in dead
    BY <1>1, <1>2, <2>2, <2>3 DEF TabSound, HydrationSound, LoginSound, LogoutSound, StreamSound
  <2>6. TabSound(Rendered(out), owner, dead, crossed) /\ Rendered(out) \in TabState
    BY <2>2, <2>5, SignedOutSound, RenderSound, RenderKeeps
  <2> QED BY <1>3, <2>1, <2>4, <2>6, SignedOutSound, StepKeeps DEF SessionInv, TypeOK
<1>5. CASE tab' = [tab EXCEPT ![t].stream.stage = "ok"] /\ UNCHANGED storage
  <2>1. /\ r \in TabState /\ tab' = [tab EXCEPT ![t] = r]
        /\ r.session = s.session /\ r.initializing = s.initializing /\ r.hydrate = s.hydrate
        /\ r.login = s.login /\ r.logout = s.logout
        /\ r.stream.stage = "ok" /\ r.stream.session = s.stream.session
    BY <1>1, <1>5 DEF TabState, Calls, SessionInv, TypeOK
  <2> HIDE DEF r
  <2>2. /\ HydrationSound(r, owner, dead, crossed) /\ StreamSound(r, dead)
        /\ LoginSound(r, owner) /\ LogoutSound(r, crossed)
    BY <1>1, <1>2, <2>1 DEF TabSound, HydrationSound, StreamSound, LoginSound, LogoutSound
  <2> QED BY <1>3, <1>5, <2>1, <2>2, CallKeeps DEF SessionInv, TypeOK
<1> QED BY <1>4, <1>5 DEF StreamFails
(* A call of one tab is answered, or fails.                                      *)
LEMMA HydrateMoves ==
  ASSUME SessionInv, NEW t \in Tabs, NEW v \in {"ok", "refused", "failed"},
         tab[t].hydrate.stage = "asked",
         v = "refused" => tab[t].hydrate.session.token \in dead,
         tab' = [tab EXCEPT ![t].hydrate.stage = v],
         faults' \in Nat, UNCHANGED <<owner, dead, storage, loads, crossed, bornDead>>
  PROVE  SessionInv'
<1> DEFINE s == tab[t]
           r == [s EXCEPT !.hydrate.stage = v]
<1>1. s \in TabState /\ s.hydrate \in Calls /\ TabSound(s, owner, dead, crossed)
  BY TabFacts
<1>2. /\ r \in TabState /\ tab' = [tab EXCEPT ![t] = r]
      /\ r.session = s.session /\ r.initializing = s.initializing
      /\ r.login = s.login
      /\ r.logout = s.logout
      /\ r.stream = s.stream
      /\ r.hydrate.stage = v /\ r.hydrate.session = s.hydrate.session
  BY <1>1 DEF TabState, Calls, SessionInv, TypeOK
<1> HIDE DEF r
<1>3. /\ HydrationSound(r, owner, dead, crossed) /\ StreamSound(r, dead)
      /\ LoginSound(r, owner) /\ LogoutSound(r, crossed)
  BY <1>1, <1>2 DEF TabSound, HydrationSound, StreamSound, LoginSound, LogoutSound
<1> QED BY <1>2, <1>3, CallKeeps

LEMMA StreamMoves ==
  ASSUME SessionInv, NEW t \in Tabs, NEW v \in {"ok", "refused", "failed"},
         tab[t].stream.stage = "asked",
         v = "refused" => tab[t].stream.session.token \in dead,
         tab' = [tab EXCEPT ![t].stream.stage = v],
         faults' \in Nat, UNCHANGED <<owner, dead, storage, loads, crossed, bornDead>>
  PROVE  SessionInv'
<1> DEFINE s == tab[t]
           r == [s EXCEPT !.stream.stage = v]
<1>1. s \in TabState /\ s.stream \in Calls /\ TabSound(s, owner, dead, crossed)
  BY TabFacts
<1>2. /\ r \in TabState /\ tab' = [tab EXCEPT ![t] = r]
      /\ r.session = s.session /\ r.initializing = s.initializing
      /\ r.hydrate = s.hydrate
      /\ r.login = s.login
      /\ r.logout = s.logout
      /\ r.stream.stage = v /\ r.stream.session = s.stream.session
  BY <1>1 DEF TabState, Calls, SessionInv, TypeOK
<1> HIDE DEF r
<1>3. /\ HydrationSound(r, owner, dead, crossed) /\ StreamSound(r, dead)
      /\ LoginSound(r, owner) /\ LogoutSound(r, crossed)
  BY <1>1, <1>2 DEF TabSound, HydrationSound, StreamSound, LoginSound, LogoutSound
<1> QED BY <1>2, <1>3, CallKeeps

LEMMA LogoutMoves ==
  ASSUME SessionInv, NEW t \in Tabs, NEW v \in {"ok", "refused", "failed"},
         tab[t].logout.stage = "asked",
         v = "refused" => tab[t].logout.session.token \in dead,
         tab' = [tab EXCEPT ![t].logout.stage = v],
         faults' \in Nat, UNCHANGED <<owner, dead, storage, loads, crossed, bornDead>>
  PROVE  SessionInv'
<1> DEFINE s == tab[t]
           r == [s EXCEPT !.logout.stage = v]
<1>1. s \in TabState /\ s.logout \in Calls /\ TabSound(s, owner, dead, crossed)
  BY TabFacts
<1>2. /\ r \in TabState /\ tab' = [tab EXCEPT ![t] = r]
      /\ r.session = s.session /\ r.initializing = s.initializing
      /\ r.hydrate = s.hydrate
      /\ r.login = s.login
      /\ r.stream = s.stream
      /\ r.logout.stage = v /\ r.logout.session = s.logout.session
  BY <1>1 DEF TabState, Calls, SessionInv, TypeOK
<1> HIDE DEF r
<1>3. /\ HydrationSound(r, owner, dead, crossed) /\ StreamSound(r, dead)
      /\ LoginSound(r, owner) /\ LogoutSound(r, crossed)
  BY <1>1, <1>2 DEF TabSound, HydrationSound, StreamSound, LoginSound, LogoutSound
<1> QED BY <1>2, <1>3, CallKeeps

LEMMA LoginFails ==
  ASSUME SessionInv, NEW t \in Tabs, tab' = [tab EXCEPT ![t].login.stage = "failed"],
         tab[t].login.stage = "asked",
         faults' \in Nat, UNCHANGED <<owner, dead, storage, loads, crossed, bornDead>>
  PROVE  SessionInv'
<1> DEFINE s == tab[t]
           r == [s EXCEPT !.login.stage = "failed"]
<1>1. s \in TabState /\ s.login \in Calls /\ TabSound(s, owner, dead, crossed)
  BY TabFacts
<1>2. /\ r \in TabState /\ tab' = [tab EXCEPT ![t] = r]
      /\ r.session = s.session /\ r.initializing = s.initializing
      /\ r.hydrate = s.hydrate /\ r.logout = s.logout /\ r.stream = s.stream
      /\ r.login.stage = "failed" /\ r.login.session = s.login.session
  BY <1>1 DEF TabState, Calls, SessionInv, TypeOK
<1> HIDE DEF r
<1>3. /\ HydrationSound(r, owner, dead, crossed) /\ StreamSound(r, dead)
      /\ LoginSound(r, owner) /\ LogoutSound(r, crossed)
  BY <1>1, <1>2 DEF TabSound, HydrationSound, StreamSound, LoginSound, LogoutSound
<1> QED BY <1>2, <1>3, CallKeeps

LEMMA ServeHydrateKeeps ==
  ASSUME SessionInv, NEW t \in Tabs, ServeHydrate(t)
  PROVE  SessionInv'
<1> DEFINE v == Verdict(tab[t].hydrate.session.token)
<1>1. v \in {"ok", "refused", "failed"} /\ (v = "refused" => tab[t].hydrate.session.token \in dead)
  BY DEF Verdict
<1>2. /\ tab[t].hydrate.stage = "asked" /\ tab' = [tab EXCEPT ![t].hydrate.stage = v]
      /\ faults' \in Nat /\ UNCHANGED <<owner, dead, storage, loads, crossed, bornDead>>
  BY DEF ServeHydrate, auth, counters, history, SessionInv, TypeOK
<1> HIDE DEF v
<1> QED BY <1>1, <1>2, HydrateMoves

LEMMA ServeStreamKeeps ==
  ASSUME SessionInv, NEW t \in Tabs, ServeStream(t)
  PROVE  SessionInv'
<1> DEFINE v == Verdict(tab[t].stream.session.token)
<1>1. v \in {"ok", "refused", "failed"} /\ (v = "refused" => tab[t].stream.session.token \in dead)
  BY DEF Verdict
<1>2. /\ tab[t].stream.stage = "asked" /\ tab' = [tab EXCEPT ![t].stream.stage = v]
      /\ faults' \in Nat /\ UNCHANGED <<owner, dead, storage, loads, crossed, bornDead>>
  BY DEF ServeStream, auth, counters, history, SessionInv, TypeOK
<1> HIDE DEF v
<1> QED BY <1>1, <1>2, StreamMoves

LEMMA ServeLoginKeeps ==
  ASSUME SessionInv, NEW t \in Tabs, ServeLogin(t)
  PROVE  SessionInv'
<1>1. PICK k \in Tokens :
        /\ owner[k] = Null
        /\ owner' = [owner EXCEPT ![k] = tab[t].login.session.user]
        /\ tab' = [tab EXCEPT ![t].login = [stage |-> "ok",
                                           session |-> [token |-> k, user |-> @.session.user]]]
  BY DEF ServeLogin
<1> DEFINE s == tab[t]
           call == [stage |-> "ok", session |-> [token |-> k, user |-> s.login.session.user]]
           r == [s EXCEPT !.login = call]
<1>2. /\ s \in TabState /\ s.login \in Calls /\ s.login.session \in Session
      /\ TabSound(s, owner, dead, crossed) /\ s.login.stage = "asked"
  BY TabFacts DEF ServeLogin
<1>3. s.login.session.user \in Users
  BY <1>2 DEF TabSound, LoginSound, Session
<1>4. /\ r \in TabState /\ tab' = [tab EXCEPT ![t] = r]
      /\ r.session = s.session /\ r.initializing = s.initializing
      /\ r.hydrate = s.hydrate /\ r.logout = s.logout /\ r.stream = s.stream
      /\ r.login.session.token = k /\ r.login.session.user = s.login.session.user
  <2>1. call \in Calls
    BY <1>3 DEF Calls, Session
  <2>2. tab' = [tab EXCEPT ![t].login = call]
    BY <1>1
  <2>3. call.session.token = k /\ call.session.user = s.login.session.user
    OBVIOUS
  <2> HIDE DEF call
  <2> QED BY <1>2, <2>1, <2>2, <2>3 DEF TabState, SessionInv, TypeOK
<1>5. /\ owner \in [Tokens -> Users \cup {Null}] /\ owner' \in [Tokens -> Users \cup {Null}]
      /\ \A j \in Tokens : owner[j] # Null => owner'[j] = owner[j]
      /\ owner'[k] = s.login.session.user
  BY <1>1, <1>3 DEF SessionInv, TypeOK
<1>6. UNCHANGED <<dead, storage, faults, loads, crossed, bornDead>>
  BY DEF ServeLogin, counters, history
<1>7. TabSound(s, owner', dead, crossed) /\ SessionSound(storage, owner', crossed)
  BY <1>2, <1>5, SoundGrows, StoredStands DEF SessionInv, TypeOK
<1> HIDE DEF r
<1>8. LoginSound(r, owner')
  BY <1>1, <1>3, <1>4, <1>5, SessionAssumption DEF LoginSound
<1>9. /\ HydrationSound(r, owner', dead, crossed) /\ StreamSound(r, dead)
      /\ LogoutSound(r, crossed) /\ SessionSound(r.session, owner', crossed)
  BY <1>4, <1>7 DEF TabSound, HydrationSound, StreamSound, LogoutSound
<1>10. TabSound(r, owner', dead, crossed)
  BY <1>8, <1>9 DEF TabSound
<1> QED BY <1>4, <1>5, <1>6, <1>7, <1>10, StepKeeps DEF SessionInv, TypeOK

LEMMA ServeLogoutKeeps ==
  ASSUME SessionInv, NEW t \in Tabs, ServeLogout(t)
  PROVE  SessionInv'
<1> DEFINE s == tab[t]
           v == Verdict(s.logout.session.token)
           r == [s EXCEPT !.logout.stage = v]
<1>1. /\ s \in TabState /\ s.logout \in Calls /\ s.logout.session \in Session
      /\ TabSound(s, owner, dead, crossed) /\ s.logout.stage = "asked"
      /\ tab' = [tab EXCEPT ![t].logout.stage = v]
  BY TabFacts DEF ServeLogout
<1>2. v \in {"ok", "refused"} /\ s.logout.session.token \in Tokens
  BY <1>1 DEF Verdict, TabSound, LogoutSound, Session
<1> HIDE DEF v
<1>3. /\ r \in TabState /\ tab' = [tab EXCEPT ![t] = r]
      /\ r.session = s.session /\ r.initializing = s.initializing /\ r.hydrate = s.hydrate
      /\ r.login = s.login /\ r.stream = s.stream
      /\ r.logout.stage = v /\ r.logout.session = s.logout.session
  BY <1>1, <1>2 DEF TabState, Calls, SessionInv, TypeOK
<1>4. /\ dead' \subseteq Tokens /\ dead \subseteq dead'
      /\ UNCHANGED <<owner, storage, faults, loads, crossed, bornDead>>
  BY <1>2 DEF ServeLogout, counters, history, SessionInv, TypeOK
<1>5. TabSound(s, owner, dead', crossed)
  BY <1>1, <1>4, SoundGrows DEF SessionInv, TypeOK
<1> HIDE DEF r
<1>6. TabSound(r, owner, dead', crossed)
  BY <1>1, <1>3, <1>5 DEF TabSound, HydrationSound, StreamSound, LoginSound, LogoutSound
<1> QED BY <1>3, <1>4, <1>6, StepKeeps DEF SessionInv, TypeOK

LEMMA FaultKeeps ==
  ASSUME SessionInv, NEW t \in Tabs, Fault(t)
  PROVE  SessionInv'
<1>1. faults' \in Nat /\ UNCHANGED <<owner, dead, storage, loads, crossed, bornDead>>
  BY DEF Fault, auth, history, SessionInv, TypeOK
<1>2. CASE tab[t].hydrate.stage = "asked" /\ tab' = [tab EXCEPT ![t].hydrate.stage = "failed"]
  BY <1>1, <1>2, HydrateMoves
<1>3. CASE tab[t].stream.stage = "asked" /\ tab' = [tab EXCEPT ![t].stream.stage = "failed"]
  BY <1>1, <1>3, StreamMoves
<1>4. CASE tab[t].login.stage = "asked" /\ tab' = [tab EXCEPT ![t].login.stage = "failed"]
  BY <1>1, <1>4, LoginFails
<1>5. CASE tab[t].logout.stage = "asked" /\ tab' = [tab EXCEPT ![t].logout.stage = "failed"]
  BY <1>1, <1>5, LogoutMoves
<1> QED BY <1>2, <1>3, <1>4, <1>5 DEF Fault

LEMMA ExpireKeeps ==
  ASSUME SessionInv, NEW k \in Tokens, Expire(k)
  PROVE  SessionInv'
<1>1. /\ dead' \subseteq Tokens /\ dead \subseteq dead'
      /\ UNCHANGED <<owner, storage, tab, faults, loads, crossed, bornDead>>
  BY DEF Expire, counters, history, SessionInv, TypeOK
<1>2. TypeOK' /\ SessionSound(storage', owner', crossed')
  BY <1>1 DEF SessionInv, TypeOK
<1>3. ASSUME NEW t \in Tabs PROVE TabSound(tab[t], owner, dead', crossed)
  BY <1>1, TabFacts, SoundGrows DEF SessionInv, TypeOK
<1> QED BY <1>1, <1>2, <1>3 DEF SessionInv

LEMMA StutterKeeps == SessionInv /\ UNCHANGED vars => SessionInv'
BY DEF vars, auth, counters, history, SessionInv, TypeOK

(***************************************************************************)
(* How a session ends.                                                      *)
(***************************************************************************)
Token(s) == s.session.token

(* Rendering shows the session it is given.                                     *)
LEMMA RenderShows ==
  ASSUME SessionInv, NEW u \in Tabs, NEW s \in TabState, Render(u, s)
  PROVE  tab'[u].session = s.session /\ \A t \in Tabs \ {u} : tab'[t] = tab[t]
<1>1. tab' = [tab EXCEPT ![u] = Rendered(s)]
  BY DEF Render, Rendered
<1>2. Rendered(s).session = s.session
  BY RenderKeeps
<1> QED BY <1>1, <1>2 DEF SessionInv, TypeOK

(* These steps leave every session as it is.                                    *)
LEMMA CallsKeepSessions ==
  ASSUME SessionInv, NEW u \in Tabs, NEW t \in Tabs,
         SubmitLogin(u) \/ Logout(u) \/ ServeLogin(u) \/ Fault(u) \/ Serves(u)
  PROVE  tab'[t].session = tab[t].session
<1>1. tab \in [Tabs -> TabState] /\ tab[t] \in TabState
  BY DEF SessionInv, TypeOK
<1>2. CASE SubmitLogin(u)
  BY <1>1, <1>2 DEF SubmitLogin, TabState
<1>3. CASE Logout(u)
  BY <1>1, <1>3 DEF Logout, TabState
<1>4. CASE ServeLogin(u)
  BY <1>1, <1>4 DEF ServeLogin, TabState
<1>5. CASE Fault(u)
  BY <1>1, <1>5 DEF Fault, TabState
<1>6. CASE Serves(u)
  BY <1>1, <1>6 DEF Serves, ServeHydrate, ServeStream, ServeLogout, TabState
<1> QED BY <1>2, <1>3, <1>4, <1>5, <1>6

Excused(t) ==
  \/ Token(tab[t]) \in dead
  \/ tab[t].logout.session.token = Token(tab[t])
  \/ tab[t].login.stage = "ok"

LEMMA AnswersExcused ==
  ASSUME SessionInv, ~crossed, NEW u \in Tabs, NEW t \in Tabs, Answers(u),
         Token(tab[t]) # Null, tab'[t].session.token # Token(tab[t])
  PROVE  Excused(t)
<1> DEFINE s == tab[u]
<1>1. /\ s \in TabState /\ s.session \in Session /\ SignedOut \in Session /\ Idle \in Calls
      /\ s.login.session \in Session /\ TabSound(s, owner, dead, crossed)
  BY TabFacts, SignedOutSound DEF Idle, Calls
<1>2. CASE HydrateAnswered(u)
  <2> DEFINE done == [s EXCEPT !.hydrate = Idle, !.initializing = FALSE]
             welcome == [done EXCEPT !.session.user = owner[s.hydrate.session.token]]
             out == [done EXCEPT !.session = SignedOut]
  <2>1. /\ s.hydrate.stage # "none" /\ s.hydrate.session.token = Token(s)
        /\ s.hydrate.session.token \in Tokens /\ owner[s.hydrate.session.token] \in Users
    BY <1>1, <1>2, TabFacts
       DEF HydrateAnswered, TabSound, HydrationSound, Token, Issued, Session, SessionInv, TypeOK
  <2>2. CASE SetSession(u, welcome)
    <3>1. welcome \in TabState /\ welcome.session.token = Token(s)
      BY <1>1, <2>1 DEF TabState, Session, Token
    <3> HIDE DEF welcome
    <3> QED BY <2>2, <3>1, RenderShows DEF SetSession, Token
  <2>3. CASE s.hydrate.stage = "refused"
    <3>1. Token(s) \in dead
      BY <1>1, <2>1, <2>3 DEF TabSound, HydrationSound
    <3>2. CASE SetSession(u, out)
      <4>1. out \in TabState
        BY <1>1 DEF TabState
      <4> HIDE DEF out
      <4>2. \A v \in Tabs \ {u} : tab'[v] = tab[v]
        BY <3>2, <4>1, RenderShows DEF SetSession
      <4> QED BY <3>1, <4>2 DEF Excused, Token
    <3> QED BY <1>2, <2>2, <2>3, <3>2 DEF HydrateAnswered, IsAuthenticationFailure
  <2>4. CASE Render(u, done)
    <3>1. done \in TabState /\ done.session = s.session
      BY <1>1 DEF TabState
    <3> HIDE DEF done
    <3> QED BY <2>4, <3>1, RenderShows DEF Token
  <2> QED BY <1>2, <2>2, <2>3, <2>4 DEF HydrateAnswered, IsAuthenticationFailure
<1>3. CASE LoginAnswered(u)
  <2> DEFINE done == [s EXCEPT !.login = Idle]
             in == [done EXCEPT !.session = s.login.session, !.path = "app"]
  <2>1. CASE s.login.stage = "ok" /\ SetSession(u, in)
    <3>1. in \in TabState
      BY <1>1 DEF TabState
    <3> HIDE DEF in
    <3>2. \A v \in Tabs \ {u} : tab'[v] = tab[v]
      BY <2>1, <3>1, RenderShows DEF SetSession
    <3> QED BY <2>1, <3>2 DEF Excused, Token
  <2>2. CASE Render(u, done)
    <3>1. done \in TabState /\ done.session = s.session
      BY <1>1 DEF TabState
    <3> HIDE DEF done
    <3> QED BY <2>2, <3>1, RenderShows DEF Token
  <2> QED BY <1>3, <2>1, <2>2 DEF LoginAnswered
<1>4. CASE LogoutAnswered(u)
  <2> DEFINE out == [s EXCEPT !.logout = Idle, !.session = SignedOut, !.path = "login"]
  <2>1. Token(s) \in {Null, s.logout.session.token}
    BY <1>1, <1>4 DEF LogoutAnswered, TabSound, LogoutSound, Token
  <2>2. out \in TabState
    BY <1>1 DEF TabState
  <2>3. SetSession(u, out)
    BY <1>4 DEF LogoutAnswered
  <2> HIDE DEF out
  <2>4. \A v \in Tabs \ {u} : tab'[v] = tab[v]
    BY <2>2, <2>3, RenderShows DEF SetSession
  <2> QED BY <2>1, <2>4 DEF Excused, Token
<1>5. CASE StreamFails(u)
  <2> DEFINE out == [s EXCEPT !.session = SignedOut]
  <2>1. CASE s.stream.stage = "refused" /\ SetSession(u, out)
    <3>1. Token(s) \in dead
      BY <1>1, <2>1 DEF TabSound, StreamSound, Token
    <3>2. out \in TabState
      BY <1>1 DEF TabState
    <3> HIDE DEF out
    <3>3. \A v \in Tabs \ {u} : tab'[v] = tab[v]
      BY <2>1, <3>2, RenderShows DEF SetSession
    <3> QED BY <3>1, <3>3 DEF Excused, Token
  <2>2. CASE tab' = [tab EXCEPT ![u].stream.stage = "ok"]
    <3>1. tab'[t].session = tab[t].session
      BY <2>2, TabFacts DEF SessionInv, TypeOK, TabState
    <3> QED BY <3>1 DEF Token
  <2> QED BY <1>5, <2>1, <2>2 DEF StreamFails, IsAuthenticationFailure
<1> QED BY <1>2, <1>3, <1>4, <1>5 DEF Answers

(***************************************************************************)
(* Theorems.                                                                *)
(***************************************************************************)
(* The inductive invariant: in every tab the session on show, its hydration, its      *)
(* stream and its login and sign-out calls stay sound (AuthContext.jsx, AppShell.jsx).   *)
THEOREM SessionInvariantHolds == Spec => []SessionInv
<1>1. Init => SessionInv
  BY InitSound
<1>2. SessionInv /\ [Next]_vars => SessionInv'
  <2> SUFFICES ASSUME SessionInv, Next PROVE SessionInv'
    BY StutterKeeps
  <2>1. ASSUME NEW t \in Tabs, Load(t) \/ SubmitLogin(t) \/ Logout(t) \/ ServeLogin(t) \/ Fault(t)
        PROVE  SessionInv'
    BY <2>1, LoadKeeps, SubmitLoginKeeps, LogoutKeeps, ServeLoginKeeps, FaultKeeps
  <2>2. ASSUME NEW t \in Tabs, Answers(t) PROVE SessionInv'
    BY <2>2, HydrateAnsweredKeeps, LoginAnsweredKeeps, LogoutAnsweredKeeps, StreamFailsKeeps
       DEF Answers
  <2>3. ASSUME NEW t \in Tabs, Serves(t) PROVE SessionInv'
    BY <2>3, ServeHydrateKeeps, ServeStreamKeeps, ServeLogoutKeeps DEF Serves
  <2>4. ASSUME NEW k \in Tokens, Expire(k) PROVE SessionInv'
    BY <2>4, ExpireKeeps
  <2> QED BY <2>1, <2>2, <2>3, <2>4 DEF Next
<1> QED BY <1>1, <1>2, PTL DEF Spec

(* The variables of the session keep their types (AuthContext.jsx:8-17).           *)
THEOREM SessionTypeCorrect == Spec => []TypeOK
<1>1. SessionInv => TypeOK
  BY DEF SessionInv
<1> QED BY <1>1, SessionInvariantHolds, PTL

(* A session has a token and a user or neither, though getMe's answer is merged into     *)
(* whatever session is there (AuthContext.jsx:45).                                         *)
THEOREM SessionsArePaired == Spec => []PairKept
<1>1. SessionInv => PairKept
  BY DEF SessionInv, PairKept, TabSound, SessionSound
<1> QED BY <1>1, SessionInvariantHolds, PTL

(* The user of a session is its token's, until a login crosses an older call             *)
(* (AuthContext.jsx:45, :62-66).                                                            *)
THEOREM SessionsAreOwn == Spec => []OwnSession
<1>1. SessionInv => OwnSession
  BY DEF SessionInv, OwnSession, TabSound, SessionSound
<1> QED BY <1>1, SessionInvariantHolds, PTL
(* A session whose token is good is only lost to the sign-out of that very session or     *)
(* to a login (AuthContext.jsx:23-31, :50, :82).                                            *)
THEOREM GoodSessionsAreKept == Spec => GoodSessionKept
<1> DEFINE Kept == \A t \in Tabs :
                     LET k == tab[t].session.token
                     IN ~crossed /\ k # Null /\ tab'[t].session.token # k /\ loads' = loads
                        => k \in dead \/ tab[t].logout.session.token = k \/ tab[t].login.stage = "ok"
<1>1. SessionInv /\ [Next]_vars => [Kept]_vars
  <2> SUFFICES ASSUME SessionInv, Next, NEW t \in Tabs,
                      ~crossed, Token(tab[t]) # Null, tab'[t].session.token # Token(tab[t]),
                      loads' = loads
               PROVE  Excused(t)
    BY DEF Excused, Token
  <2>1. ASSUME NEW u \in Tabs, Load(u) PROVE FALSE
    BY <2>1 DEF Load, SessionInv, TypeOK
  <2>2. ASSUME NEW u \in Tabs,
               SubmitLogin(u) \/ Logout(u) \/ ServeLogin(u) \/ Fault(u) \/ Serves(u)
        PROVE  FALSE
    BY <2>2, CallsKeepSessions DEF Token
  <2>3. ASSUME NEW u \in Tabs, Answers(u) PROVE Excused(t)
    BY <2>3, AnswersExcused
  <2>4. ASSUME NEW k \in Tokens, Expire(k) PROVE FALSE
    BY <2>4 DEF Expire, Token
  <2> QED BY <2>1, <2>2, <2>3, <2>4 DEF Next
<1>2. Spec => [][Kept]_vars
  BY <1>1, SessionInvariantHolds, PTL DEF Spec
<1> QED BY <1>2 DEF GoodSessionKept
=============================================================================
