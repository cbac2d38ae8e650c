------------------------------ MODULE Requests ------------------------------
(***************************************************************************)
(* Requests of one browser with several tabs, from the first to the page   *)
(* it ends at: the auth gate, its sessions, and the login and the refresh  *)
(* at an identity provider.  A handler runs alone up to each await; while  *)
(* it waits for the provider the other tabs' requests are handled.         *)
(* Sessions and pending logins are in the memory of the process.           *)
(***************************************************************************)
EXTENDS Routing, Integers, Sequences, FiniteSets, Functions

CONSTANTS Tabs,
          Goals,       \* what a tab may ask for, with and without a login
          Ttl,         \* idle life of a session
          AccessLife,  \* of an access token, less the refresh window
          StateTtl,    \* of a login that was begun
          MaxTime, MaxEvents     \* requests that are asked for and crashes

VARIABLES world, up, now, events,
          sessions,   \* token -> session
          made,       \* the login every session was made for, in order
          pending,    \* login -> when it was begun and what for
          grant,      \* at the provider: the refresh token it expects next
          jar,        \* the browser's cookies
          tabs,
          out         \* sessions logged out while no request was refreshing them

vars == <<world, up, now, events, sessions, made, pending, grant, jar, tabs, out>>
server == <<sessions, made, pending>>
counters == <<world, now, events>>

Blank == [pc |-> "idle", want |-> None, req |-> None, login |-> None, token |-> None,
          session |-> None, answer |-> None, alone |-> TRUE, shown |-> None]
Start(next) == [kind |-> "start", next |-> next]
Return(l, agreed) == [kind |-> "callback", login |-> l, agreed |-> agreed]
Logout == [kind |-> "logout"]

-----------------------------------------------------------------------------
(* The session store.                                                      *)
isExpired(s) == s.expires <= now
(* Mutation of renew: a session keeps the end it was given.                *)
renewOnce(s) == [s EXCEPT !.seen = now, !.expires = IF @ = None THEN now + Ttl ELSE @]
renew(s) == [s EXCEPT !.seen = now, !.expires = now + Ttl]
sweep == Restrict(sessions, {k \in DOMAIN sessions : ~isExpired(sessions[k])})
delete(live, k) == Restrict(live, DOMAIN live \ {k})
put(live, k, s) == [x \in DOMAIN live \cup {k} |-> IF x = k THEN s ELSE live[x]]
(* Mutation of replace: the refreshed session stays with the request.      *)
replaceNothing(live, k, s) == live
replace(live, k, s) == put(live, k, renew(s))

NewSession(l) == [login |-> l, grant |-> grant[l], issued |-> now, seen |-> None, expires |-> None]
sweepStates == Restrict(pending, {l \in DOMAIN pending : now - pending[l].since <= StateTtl})

-----------------------------------------------------------------------------
Continue(t, r) == tabs' = [tabs EXCEPT ![t] = [Blank EXCEPT !.pc = "sending", !.want = tabs[t].want,
                                                             !.req = r]]
Show(t, reply) == tabs' = [tabs EXCEPT ![t] = [Blank EXCEPT !.pc = "shown", !.want = tabs[t].want,
                                                            !.shown = reply]]
Forget(t) == tabs' = [tabs EXCEPT ![t] = Blank]
Denied == Reply(403, "login", None)
AuthFailed == Reply(500, "login", None)
NotLoggedIn == {Denied, AuthFailed}

(* Sessions are gone with the process, and so is every request under way.  *)
Die(with) ==
  /\ up' = FALSE
  /\ sessions' = <<>> /\ pending' = <<>>
  /\ tabs' = [t \in Tabs |->
       IF t \in with \/ tabs[t].pc \in {"exchanging", "refreshing", "refreshed"} THEN Blank ELSE tabs[t]]
  /\ UNCHANGED <<world, now, made, grant, jar, out>>
Crash == up /\ events < MaxEvents /\ events' = events + 1 /\ Die({})

(* The part of a handler behind the gate.  A policy that throws is not     *)
(* caught: the rejected promise ends the process.                          *)
Respond(t, r, live, k) ==
  IF r.project \in world.undecided /\ ~isGlobalMaintenanceActive(world)
  THEN Die({t}) /\ UNCHANGED events
  ELSE \E reply \in Replies(r, jar.runtime, world) :
         /\ sessions' = live
         /\ jar' = [token |-> k, runtime |-> jar.runtime \cup reply.keeps]
         /\ IF reply.to # None THEN Continue(t, reply.to) ELSE Show(t, reply)
         /\ UNCHANGED <<counters, up, made, pending, grant, out>>

(* Mutation of currentPath: only the query string is kept.                 *)
currentRoot(r) == Portal
currentPath(r) == r
ToLogin(t, r, live) ==
  /\ sessions' = live
  /\ Continue(t, Start(currentPath(r)))
  /\ UNCHANGED <<counters, up, made, pending, grant, jar, out>>

Sent(t, kinds) == up /\ tabs[t].pc = "sending" /\ tabs[t].req.kind \in kinds

(* Mutation of LogOut: the cookie is cleared and the session left.         *)
LogOutCookie(t) ==
  /\ Sent(t, {"logout"})
  /\ sessions' = sweep /\ jar' = [jar EXCEPT !.token = None]
  /\ out' = IF jar.token = None THEN out ELSE out \cup {jar.token}
  /\ Continue(t, Start(Portal))
  /\ UNCHANGED <<counters, up, made, pending, grant>>
Refreshing(k) == {t \in Tabs : tabs[t].pc \in {"refreshing", "refreshed"} /\ tabs[t].token = k}
LogOut(t) ==
  /\ Sent(t, {"logout"})
  /\ sessions' = delete(sweep, jar.token)
  /\ jar' = [jar EXCEPT !.token = None]
  /\ out' = IF jar.token = None \/ Refreshing(jar.token) # {} THEN out ELSE out \cup {jar.token}
  /\ Continue(t, Start(Portal))
  /\ UNCHANGED <<counters, up, made, pending, grant>>

(* Login.  The browser leaves for the provider with a fresh state ... *)
BeginLogin(t) ==
  /\ Sent(t, {"start"})
  /\ sessions' = sweep
  /\ pending' = put(sweepStates, Len(grant) + 1, [since |-> now, next |-> tabs[t].req.next])
  /\ grant' = Append(grant, 0)
  /\ tabs' = [tabs EXCEPT ![t].pc = "idp", ![t].login = Len(grant) + 1]
  /\ UNCHANGED <<counters, up, made, jar, out>>

(* ... and comes back with a code or an error, if it does. *)
AtProvider(t) ==
  /\ tabs[t].pc = "idp"
  /\ \E agreed \in BOOLEAN : Continue(t, Return(tabs[t].login, agreed))
  /\ UNCHANGED <<counters, up, server, grant, jar, out>>

(* Mutation of Callback: the state is dropped once the code is exchanged.  *)
CallbackKeeps(t) ==
  LET l == tabs[t].req.login IN
  /\ Sent(t, {"callback"})
  /\ sessions' = sweep
  /\ pending' = sweepStates
  /\ IF l \in DOMAIN pending' /\ tabs[t].req.agreed
     THEN tabs' = [tabs EXCEPT ![t].pc = "exchanging", ![t].login = l, ![t].req = pending'[l].next]
     ELSE Show(t, Denied)
  /\ UNCHANGED <<counters, up, made, grant, jar, out>>
Callback(t) ==
  LET l == tabs[t].req.login IN
  /\ Sent(t, {"callback"})
  /\ sessions' = sweep
  /\ pending' = delete(sweepStates, l)
  /\ IF l \in DOMAIN sweepStates /\ tabs[t].req.agreed
     THEN tabs' = [tabs EXCEPT ![t].pc = "exchanging", ![t].login = l,
                               ![t].req = pending[l].next]
     ELSE Show(t, Denied)
  /\ UNCHANGED <<counters, up, made, grant, jar, out>>

(* The code is exchanged for a token and the token for a user, or not: the *)
(* provider grants none, or it throws.                                     *)
Exchange(t) ==
  LET l == tabs[t].login
      k == Len(made) + 1
  IN /\ tabs[t].pc = "exchanging"
     /\ \/ /\ sessions' = put(sessions, k, renew(NewSession(l)))
           /\ made' = Append(made, l)
           /\ jar' = [jar EXCEPT !.token = k]
           /\ Continue(t, tabs[t].req)
        \/ /\ \E reply \in NotLoggedIn : Show(t, reply)
           /\ UNCHANGED <<sessions, made, jar>>
     /\ UNCHANGED <<counters, up, pending, grant, out>>

(* Every other request goes through the gate.  A session whose access      *)
(* token is about to expire is refreshed first, if it can be.              *)
isStale(s) == now - s.issued >= AccessLife
Gate(t) ==
  LET r == tabs[t].req
      k == jar.token
  IN /\ Sent(t, {"page", "deep", "asset", "data", "search"})
     /\ IF ~world.auth THEN Respond(t, r, sweep, None)
        ELSE IF k \notin DOMAIN sweep THEN ToLogin(t, r, sweep)
        ELSE IF ~isStale(sweep[k]) THEN Respond(t, r, replace(sweep, k, sweep[k]), k)
        ELSE IF ~world.offline THEN ToLogin(t, r, delete(sweep, k))
        ELSE /\ sessions' = put(sweep, k, renew(sweep[k]))
             /\ tabs' = [u \in Tabs |->
                  IF u = t THEN [tabs[t] EXCEPT !.pc = "refreshing", !.token = k, !.session = sweep[k],
                                                !.alone = Refreshing(k) = {}]
                  ELSE IF u \in Refreshing(k) THEN [tabs[u] EXCEPT !.alone = FALSE] ELSE tabs[u]]
             /\ UNCHANGED <<counters, up, made, pending, grant, jar, out>>

(* The provider takes a refresh token once.  What follows may fail, before *)
(* it took the token or after, when the user is fetched.                   *)
ProviderRefreshes(t) ==
  LET l == tabs[t].session.login IN
  /\ tabs[t].pc = "refreshing"
  /\ \/ /\ tabs[t].session.grant = grant[l]
        /\ grant' = [grant EXCEPT ![l] = @ + 1]
        /\ \E a \in {"new", "down"} : tabs' = [tabs EXCEPT ![t].pc = "refreshed", ![t].answer = a]
     \/ /\ \E a \in IF tabs[t].session.grant = grant[l] THEN {"down"} ELSE {"down", "used"} :
             tabs' = [tabs EXCEPT ![t].pc = "refreshed", ![t].answer = a]
        /\ UNCHANGED grant
  /\ UNCHANGED <<counters, up, server, jar, out>>

Refreshed(t) ==
  LET k == tabs[t].token
      s == tabs[t].session
  IN /\ tabs[t].pc = "refreshed"
     /\ IF tabs[t].answer = "new"
        THEN Respond(t, tabs[t].req,
                     replace(sessions, k, [s EXCEPT !.grant = @ + 1, !.issued = now]), k)
        ELSE ToLogin(t, tabs[t].req, delete(sessions, k))

-----------------------------------------------------------------------------
Ask(t) ==
  /\ tabs[t].pc = "idle" /\ events < MaxEvents /\ events' = events + 1
  /\ \/ \E g \in Goals[world.auth] : tabs' = [tabs EXCEPT ![t] = [Blank EXCEPT !.pc = "sending", !.want = g, !.req = g]]
     \* Back to the provider's page of a login, whatever became of it.
     \/ \E l \in DOMAIN grant : tabs' = [tabs EXCEPT ![t] = [Blank EXCEPT !.pc = "idp", !.login = l]]
  /\ UNCHANGED <<world, now, up, server, grant, jar, out>>

NoServer(t) ==
  /\ ~up /\ tabs[t].pc = "sending" /\ Forget(t)
  /\ UNCHANGED <<counters, up, server, grant, jar, out>>

Look(t) ==
  /\ tabs[t].pc = "shown" /\ Forget(t)
  /\ UNCHANGED <<counters, up, server, grant, jar, out>>

Tick ==
  /\ now < MaxTime /\ now' = now + 1
  /\ UNCHANGED <<world, events, up, server, grant, jar, tabs, out>>
Restart ==
  /\ ~up /\ up' = TRUE
  /\ UNCHANGED <<counters, server, grant, jar, tabs, out>>

Init ==
  /\ world \in Worlds
  /\ up = TRUE /\ now = 0 /\ events = 0
  /\ \/ /\ jar = [token |-> None, runtime |-> {}]
        /\ sessions = <<>> /\ made = <<>> /\ grant = <<>>
     \* A browser that has logged in.
     \/ /\ world.auth /\ jar = [token |-> 1, runtime |-> {}]
        /\ made = <<1>> /\ grant = <<0>>
        /\ \E i, n \in {-1, 0} :
             i <= n /\ sessions = <<[login |-> 1, grant |-> 0, issued |-> i, seen |-> n,
                                    expires |-> n + Ttl]>>
  /\ pending = <<>>
  /\ tabs = [t \in Tabs |-> Blank] /\ out = {}

Step(t) == \/ LogOut(t)
           \/ BeginLogin(t)
           \/ AtProvider(t)
           \/ Callback(t)
           \/ Exchange(t)
           \/ Gate(t)
           \/ ProviderRefreshes(t)
           \/ Refreshed(t)
           \/ NoServer(t)
           \/ Look(t)
Next == (\E t \in Tabs : Ask(t) \/ Step(t)) \/ Tick \/ Crash \/ Restart
Spec == Init /\ [][Next]_vars /\ \A t \in Tabs : WF_vars(Step(t))

-----------------------------------------------------------------------------
(* A login that was begun makes at most one session, however often the     *)
(* browser comes back with its state.                                      *)
OneSessionPerLogin == IsInjective(made)

(* A session that was logged out does not come back.  It does when the     *)
(* logout falls into a refresh of it: replace() does not look.             *)
LogoutHolds == out \cap DOMAIN sessions = {}

(* A session comes from one login and goes with its logout.                *)
SessionsAreEarned == OneSessionPerLogin /\ LogoutHolds

(* A session that is used stays: it ends by logout, by Ttl without a       *)
(* request, by a provider that is down or grants no refresh, or with the   *)
(* process.  A used-up refresh token ends it only when two requests        *)
(* refreshed it at once.                                                   *)
SessionsLast ==
  [][\A k \in DOMAIN sessions \ DOMAIN sessions' :
       \/ sessions[k].seen + Ttl <= now
       \/ ~up' \/ ~world.offline
       \/ \E t \in Tabs : \/ tabs[t].pc = "sending" /\ tabs[t].req = Logout /\ tabs'[t].req # Logout
                          \/ tabs[t].pc = "refreshed" /\ tabs'[t].pc # "refreshed" /\ tabs[t].token = k
                             /\ (tabs[t].answer = "down" \/ ~tabs[t].alone)]_vars

(* A browser ends at what it asked for, or is told why not: a login, a     *)
(* refresh or a redirect in between does not lead elsewhere -- except for  *)
(* a path inside a project's application.                                  *)
RightPage ==
  \A t \in Tabs :
    tabs[t].shown \notin {None} \cup NotLoggedIn /\ tabs[t].want \notin {None, Logout}
      /\ ~(tabs[t].want.kind = "deep" /\ tabs[t].want.project # Own)
    => Promised(tabs[t].want, world, tabs[t].shown)

(* Every request is answered in the end: no chain of redirects goes round. *)
TabsSettle == \A t \in Tabs : tabs[t].pc # "idle" ~> tabs[t].pc = "idle"

-----------------------------------------------------------------------------
(* What the properties follow from.                                        *)

Names == Projects \cup {Own, None}
Resources == {"page", "deep", "asset", "data", "search"}
Gets == [kind : Resources, project : Projects \cup {Own}, token : Names]
ReplyType == [status : Nat, kind : Resources \cup {"login", None}, project : Names,
              to : Gets \cup {None}, keeps : SUBSET Names,
              event : {None, "authz_denied", "project_view"}]
SessionType == [login : Nat, grant : Nat, issued : Int, seen : Int, expires : Int]
RequestType == Gets \cup {Logout} \cup [kind : {"start"}, next : Gets]
                 \cup [kind : {"callback"}, login : Nat, agreed : BOOLEAN]
TabType ==
  [pc : {"idle", "sending", "idp", "exchanging", "refreshing", "refreshed", "shown"},
   want : Gets \cup {Logout, None}, req : RequestType \cup {None}, login : Nat \cup {None},
   token : Nat \cup {None}, session : SessionType \cup {None},
   answer : {None, "new", "down", "used"}, alone : BOOLEAN, shown : ReplyType \cup {None}]

ASSUME GoalsAreRequests == Goals \in [BOOLEAN -> SUBSET (Gets \cup {Logout})]
ASSUME LivesAreNumbers == Ttl \in Nat /\ AccessLife \in Nat /\ StateTtl \in Nat
ASSUME NamesDiffer ==
  /\ Own \notin Projects \cup {None}
  /\ None \notin Projects \cup Nat \cup Resources
                    \cup {"login", "authz_denied", "project_view", "new", "down", "used"}
  /\ None \notin RequestType /\ None \notin ReplyType

Logins == DOMAIN grant
Tokens == DOMAIN made

(* A request on its way has what its phase needs.                          *)
Fits(t) ==
  /\ tabs[t].pc = "sending" => /\ tabs[t].req # None
                               /\ tabs[t].req.kind = "callback" => tabs[t].req.login \in Logins
  /\ tabs[t].pc \in {"idp", "exchanging"} => tabs[t].login \in Logins
  /\ tabs[t].pc \in {"exchanging", "refreshing", "refreshed"} => tabs[t].req \in Gets
  /\ tabs[t].pc \in {"refreshing", "refreshed"} =>
       tabs[t].token \in Tokens /\ tabs[t].session \in SessionType
  /\ tabs[t].answer # None <=> tabs[t].pc = "refreshed"
  /\ tabs[t].pc = "shown" => tabs[t].shown \in ReplyType

TypeOK ==
  /\ world \in Worlds /\ up \in BOOLEAN /\ now \in Nat /\ events \in Nat
  /\ grant \in Seq(Nat) /\ made \in Seq(Nat) /\ \A k \in Tokens : made[k] \in Logins
  /\ DOMAIN sessions \subseteq Tokens
  /\ \A k \in DOMAIN sessions : sessions[k] \in SessionType
  /\ DOMAIN pending \subseteq Logins
  /\ \A l \in DOMAIN pending : pending[l] \in [since : Nat, next : Gets]
  /\ jar \in [token : Tokens \cup {None}, runtime : SUBSET Names]
  /\ tabs \in [Tabs -> TabType]
  /\ \A t \in Tabs : Fits(t)
  /\ out \subseteq Tokens

(* A login is pending, or being exchanged by one tab, or has its session.  *)
LoginInv ==
  /\ OneSessionPerLogin
  /\ \A k \in Tokens : made[k] \notin DOMAIN pending
  /\ \A t \in Tabs : tabs[t].pc = "exchanging" =>
       /\ tabs[t].login \notin DOMAIN pending
       /\ \A k \in Tokens : made[k] # tabs[t].login
       /\ \A u \in Tabs \ {t} : tabs[u].pc = "exchanging" => tabs[u].login # tabs[t].login

(* Nobody can bring back a session that was logged out.                    *)
OutInv == \A k \in out : k \notin DOMAIN sessions /\ Refreshing(k) = {}

(* A session that nobody refreshes has the refresh token that the provider *)
(* expects next, or else the one request does that refreshes it alone, or  *)
(* that the provider answered.                                             *)
GrantInv ==
  /\ \A k \in DOMAIN sessions :
       /\ sessions[k].login = made[k] /\ sessions[k].expires = sessions[k].seen + Ttl
       /\ sessions[k].grant <= grant[made[k]]
       /\ Refreshing(k) = {} => sessions[k].grant = grant[made[k]]
  /\ \A k \in Tokens : \A t \in Refreshing(k) :
       /\ tabs[t].session.login = made[k]
       /\ tabs[t].session.grant <= grant[made[k]]
       /\ tabs[t].alone => /\ Refreshing(k) = {t}
                           /\ tabs[t].pc = "refreshing" => tabs[t].session.grant = grant[made[k]]
                           /\ tabs[t].answer # "used"
       /\ tabs[t].answer = "new" =>
            /\ tabs[t].session.grant + 1 = grant[made[k]]
            /\ k \in DOMAIN sessions => sessions[k].grant < grant[made[k]]
            /\ \A u \in Refreshing(k) : /\ tabs[u].session.grant < grant[made[k]]
                                        /\ tabs[u].answer = "new" => u = t

(* What a request leads to when it is asked for in place of `want'.        *)
Bound(want) == want \notin {None, Logout} /\ ~(want.kind = "deep" /\ want.project # Own)
Leads(want, r, w) ==
  \/ r.kind = want.kind /\ r.project = want.project
  \/ /\ want.project \notin w.live \cup {Own} /\ want.project \notin w.denied
     /\ ~isMaintenanceActiveForProject(w, want.project)
     /\ r.kind = "page" /\ r.project = Own

(* Wherever a request is, it leads to what its tab wants.                  *)
Aims(t) ==
  LET want == tabs[t].want
      r == tabs[t].req
      Coming(l) == l \in DOMAIN pending => Leads(want, pending[l].next, world)
  IN  Bound(want) =>
        /\ tabs[t].pc = "sending" => /\ r.kind \in Resources => Leads(want, r, world)
                                     /\ r.kind = "start" => Leads(want, r.next, world)
                                     /\ r.kind = "callback" => Coming(r.login)
                                     /\ r # Logout
        /\ tabs[t].pc = "idp" => Coming(tabs[t].login)
        /\ tabs[t].pc \in {"exchanging", "refreshing", "refreshed"} => Leads(want, r, world)
        /\ IF tabs[t].pc = "shown"
           THEN tabs[t].shown \in NotLoggedIn \/ Promised(want, world, tabs[t].shown)
           ELSE tabs[t].shown = None
GoalInv == \A t \in Tabs : Aims(t)

RequestsInv == TypeOK /\ LoginInv /\ OutInv /\ GrantInv /\ GoalInv
=============================================================================
