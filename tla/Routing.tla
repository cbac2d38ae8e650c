------------------------------ MODULE Routing ------------------------------
(***************************************************************************)
(* What the gateway answers to a request that its auth gate let through:   *)
(* the maintenance window, the portal, the organisation's policy, the      *)
(* project router and the handlers they share with the gateway's own       *)
(* dashboard.  A request names a project or Own, a kind of resource and    *)
(* the runtime token it carries; the runtime token of a project is written *)
(* as the project itself.                                                  *)
(***************************************************************************)
EXTENDS Naturals

CONSTANTS Projects, Own, None

(* Kinds: "page" (index.html, or the portal), "deep" (any other path of    *)
(* the dashboard's application), "asset", "data" and "search".             *)
Get(kind, p, token) == [kind |-> kind, project |-> p, token |-> token]
Portal == Get("page", Own, None)

(* A reply ends a chain of requests, or continues it at `to'.  `keeps' are *)
(* the runtime tokens it leaves with the browser, `event' what is recorded. *)
Reply(status, kind, p) ==
  [status |-> status, kind |-> kind, project |-> p, to |-> None, keeps |-> {}, event |-> None]
Ok(kind, p) == Reply(200, kind, p)
Refusal(status) == Reply(status, None, None)
Redirect(to) == [Reply(302, None, None) EXCEPT !.to = to]

(* A deployment: is there a login, and does it come with refresh tokens;   *)
(* is the portal on; which projects have a running record and which a      *)
(* built dashboard; which the policy denies, and which it fails on; which  *)
(* are under maintenance, with Own for all of them.                        *)
Usual == [auth |-> TRUE, offline |-> TRUE, portal |-> TRUE, live |-> Projects,
          dist |-> Projects \cup {Own}, denied |-> {}, undecided |-> {}, closed |-> {}]
Open == [Usual EXCEPT !.auth = FALSE]
Worlds ==
  {Usual, [Usual EXCEPT !.portal = FALSE, !.offline = FALSE, !.live = {}],
   Open, [Open EXCEPT !.portal = FALSE], [Open EXCEPT !.dist = {}], [Open EXCEPT !.live = {}],
   [Open EXCEPT !.denied = Projects], [Open EXCEPT !.undecided = Projects],
   [Open EXCEPT !.live = {}, !.closed = Projects], [Open EXCEPT !.closed = {Own}]}

isGlobalMaintenanceActive(w) == Own \in w.closed
isMaintenanceActiveForProject(w, p) == {p, Own} \cap w.closed # {}

-----------------------------------------------------------------------------
(* The handlers.  Each yields the set of replies it may give.              *)
searchSemantically(r) ==
  IF r.token # r.project THEN {Refusal(403)}
  ELSE {Ok("search", r.project)} \cup {Refusal(s) : s \in {400, 405, 500}}

tryServeProdDataApi(r) ==
  IF r.token # r.project THEN {Refusal(403)}
  ELSE {Ok("data", r.project)} \cup {Refusal(s) : s \in {400, 404, 413, 415, 500}}

(* A file needs the token, or the cookie it left; every other path is the  *)
(* index.  The path of the redirect has lost its /project/<id> by then.    *)
tryServeProdStatic(r, cookies, w) ==
  LET p == r.project
      rememberRuntimeToken(reply) == IF r.token = p THEN [reply EXCEPT !.keeps = {p}] ELSE reply
  IN IF p \notin w.dist THEN Refusal(404)
     ELSE IF r.token = p \/ (r.kind = "asset" /\ p \in cookies)
     THEN rememberRuntimeToken(Ok(r.kind, p))
     ELSE IF r.kind = "asset" THEN Refusal(403) ELSE Redirect(Get(r.kind, Own, p))

Handlers(r, cookies, w) ==
  CASE r.kind = "search" -> searchSemantically(r)
    [] r.kind = "data"   -> tryServeProdDataApi(r)
    [] OTHER             -> {tryServeProdStatic(r, cookies, w)}

(* Mutation of addTokenToProjectRoute: the token stays out of the path.    *)
addNothing(r) == r
addTokenToProjectRoute(r) == [r EXCEPT !.token = r.project]

tryServeProjectRoute(r, cookies, w) ==
  IF isMaintenanceActiveForProject(w, r.project) THEN {Refusal(503)}
  ELSE IF r.project \notin w.live THEN {Redirect(Portal)}
  ELSE IF r.kind = "page" /\ r.token # r.project THEN {Redirect(addTokenToProjectRoute(r))}
  ELSE Handlers(r, cookies, w)

isProjectPageNavigation(r) == r.kind \in {"page", "deep"}
trackEvent(reply, event) == [reply EXCEPT !.event = event]

Replies(r, cookies, w) ==
  CASE isGlobalMaintenanceActive(w) -> {Refusal(503)}
    [] ~isGlobalMaintenanceActive(w) /\ r.project = Own ->
         IF w.portal /\ r.kind = "page" THEN {Ok("page", Own)} ELSE Handlers(r, cookies, w)
    [] OTHER ->
         IF r.project \in w.denied THEN {trackEvent(Refusal(403), "authz_denied")}
         ELSE {IF isProjectPageNavigation(r) /\ x.status = 200 THEN trackEvent(x, "project_view")
               ELSE x : x \in tryServeProjectRoute(r, cookies, w)}

-----------------------------------------------------------------------------
(* What whoever asks for r is finally shown, however often the browser is  *)
(* sent elsewhere in between.                                              *)
Promised(r, w, shown) ==
  LET p == r.project
      denied == p \in w.denied /\ ~isGlobalMaintenanceActive(w)
      closed == ~denied /\ isMaintenanceActiveForProject(w, p)
      goal == IF p \in w.live \cup {Own} THEN r ELSE Portal
  IN /\ denied <=> shown.event = "authz_denied"
     /\ closed <=> shown.status = 503
     /\ shown.status = 200 => shown.kind = goal.kind /\ shown.project = goal.project
     /\ shown.event = "project_view" <=>
          shown.status = 200 /\ shown.project # Own /\ isProjectPageNavigation(shown)
     /\ shown.status = 404 => r.kind = "data" \/ goal.project \notin w.dist
     /\ shown.status = 403 => denied \/ r.kind \in {"asset", "data", "search"}
=============================================================================
