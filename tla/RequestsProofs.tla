---------------------------- MODULE RequestsProofs ----------------------------
(***************************************************************************)
(* Proofs about Requests, for any number of tabs and projects, any goals   *)
(* and any lifetimes.                                                      *)
(***************************************************************************)
EXTENDS Requests, SequenceTheorems, TLAPS

-----------------------------------------------------------------------------
(* The routing.                                                            *)

WorldType ==
  [auth : BOOLEAN, offline : BOOLEAN, portal : BOOLEAN, live : SUBSET Projects,
   dist : SUBSET (Projects \cup {Own}), denied : SUBSET Projects, undecided : SUBSET Projects,
   closed : SUBSET (Projects \cup {Own})]

LEMMA WorldNames == Worlds \subseteq WorldType
<1>1. Usual \in WorldType /\ Open \in WorldType
  BY DEF Usual, Open, WorldType
<1>2. /\ \A v \in WorldType : [v EXCEPT !.portal = FALSE] \in WorldType
      /\ \A v \in WorldType : [v EXCEPT !.portal = FALSE, !.offline = FALSE, !.live = {}] \in WorldType
  BY DEF WorldType
<1>3. /\ \A v \in WorldType : [v EXCEPT !.dist = {}] \in WorldType
      /\ \A v \in WorldType : [v EXCEPT !.live = {}] \in WorldType
      /\ \A v \in WorldType : [v EXCEPT !.denied = Projects] \in WorldType
  BY DEF WorldType
<1>4. /\ \A v \in WorldType : [v EXCEPT !.undecided = Projects] \in WorldType
      /\ \A v \in WorldType : [v EXCEPT !.live = {}, !.closed = Projects] \in WorldType
      /\ \A v \in WorldType : [v EXCEPT !.closed = {Own}] \in WorldType
  BY DEF WorldType
<1> HIDE DEF WorldType
<1> QED BY <1>1, <1>2, <1>3, <1>4 DEF Worlds

(* A request, and a reply to it.                                           *)
LEMMA GetsFit ==
  ASSUME NEW kind \in Resources, NEW p \in Projects \cup {Own}, NEW token \in Names
  PROVE  /\ Get(kind, p, token) \in Gets /\ Get(kind, p, token).kind = kind
         /\ Get(kind, p, token).project = p /\ Get(kind, p, token).token = token
BY DEF Get, Gets

LEMMA RepliesAre ==
  ASSUME NEW status \in Nat, NEW kind \in Resources \cup {"login", None}, NEW p \in Names
  PROVE  /\ Reply(status, kind, p) \in ReplyType
         /\ Reply(status, kind, p).status = status /\ Reply(status, kind, p).kind = kind
         /\ Reply(status, kind, p).project = p /\ Reply(status, kind, p).to = None
         /\ Reply(status, kind, p).event = None
BY DEF Reply, ReplyType, Names

(* What a handler behind the router may reply to r.                        *)
Handled(r, w, reply) ==
  /\ reply \in ReplyType /\ reply.event = None
  /\ \/ reply.to = None /\ reply.status = 200 /\ reply.kind = r.kind /\ reply.project = r.project
     \/ reply.to = None /\ reply.status \in {403} /\ r.kind \in {"asset", "data", "search"}
     \/ reply.to = None /\ reply.status = 404 /\ (r.kind = "data" \/ r.project \notin w.dist)
     \/ reply.to = None /\ reply.status \in {400, 405, 413, 415, 500}
     \/ /\ r.kind \notin {"asset", "data", "search"} /\ r.token # r.project
        /\ reply.status = 302 /\ reply.to = Get(r.kind, Own, r.project)

LEMMA HandlersFit ==
  ASSUME NEW w \in Worlds, NEW r \in Gets, NEW cookies, NEW reply \in Handlers(r, cookies, w)
  PROVE  Handled(r, w, reply)
<1>1. /\ r.kind \in Resources /\ r.project \in Projects \cup {Own} /\ r.token \in Names
      /\ r.project \in Names /\ Own \in Projects \cup {Own} /\ None \in Names
  BY DEF Gets, Names
<1>2. \A s \in Nat :
        \/ s \in {400, 405, 413, 415, 500}
        \/ s = 404 /\ (r.kind = "data" \/ r.project \notin w.dist)
        \/ s = 403 /\ r.kind \in {"asset", "data", "search"}
      => Handled(r, w, Refusal(s))
  <2> TAKE s \in Nat
  <2>1. Refusal(s) \in ReplyType /\ Refusal(s).status = s /\ Refusal(s).to = None /\ Refusal(s).event = None
        /\ Refusal(s).kind = None
    BY <1>1, RepliesAre DEF Refusal
  <2> QED BY <1>1, <2>1, NamesDiffer DEF Handled
<1>3. Handled(r, w, Ok(r.kind, r.project))
  BY <1>1, RepliesAre DEF Ok, Handled
<1>4. CASE r.kind = "search"
  <2>1. reply \in searchSemantically(r)
    BY <1>4 DEF Handlers
  <2> QED BY <1>1, <1>2, <1>3, <1>4, <2>1 DEF searchSemantically
<1>5. CASE r.kind = "data"
  <2>1. reply \in tryServeProdDataApi(r)
    BY <1>5 DEF Handlers
  <2> QED BY <1>1, <1>2, <1>3, <1>5, <2>1 DEF tryServeProdDataApi
<1>6. CASE r.kind \notin {"search", "data"}
  <2>1. reply = tryServeProdStatic(r, cookies, w)
    BY <1>6 DEF Handlers
  <2>2. CASE r.project \notin w.dist
    BY <1>2, <2>1, <2>2 DEF tryServeProdStatic
  <2>3. CASE r.project \in w.dist /\ r.kind = "asset" /\ r.token # r.project /\ r.project \notin cookies
    BY <1>2, <2>1, <2>3 DEF tryServeProdStatic
  <2>4. CASE r.project \in w.dist /\ r.kind # "asset" /\ r.token # r.project
    <3>1. reply = Redirect(Get(r.kind, Own, r.project))
      BY <2>1, <2>4 DEF tryServeProdStatic
    <3>2. Get(r.kind, Own, r.project) \in Gets
      BY <1>1, GetsFit
    <3>3. /\ reply \in ReplyType /\ reply.status = 302 /\ reply.event = None
          /\ reply.to = Get(r.kind, Own, r.project)
      BY <1>1, <3>1, <3>2 DEF Redirect, Reply, ReplyType, Names
    <3> QED BY <1>6, <2>4, <3>3 DEF Handled
  <2>5. CASE r.project \in w.dist /\ (r.token = r.project \/ (r.kind = "asset" /\ r.project \in cookies))
    <3>1. reply = Ok(r.kind, r.project) \/ reply = [Ok(r.kind, r.project) EXCEPT !.keeps = {r.project}]
      BY <2>1, <2>5 DEF tryServeProdStatic
    <3>2. /\ reply \in ReplyType /\ reply.status = 200 /\ reply.event = None
          /\ reply.to = None /\ reply.kind = r.kind /\ reply.project = r.project
      BY <1>1, <3>1 DEF Ok, Reply, ReplyType, Names
    <3> QED BY <3>2 DEF Handled
  <2> QED BY <2>2, <2>3, <2>4, <2>5
<1> QED BY <1>4, <1>5, <1>6

(* ... and what the gateway may reply to it.                               *)
Routed(r, w, reply) ==
  LET open == ~isGlobalMaintenanceActive(w)
      closed == isMaintenanceActiveForProject(w, r.project)
      live == open /\ r.project \in w.live \ w.denied /\ ~closed
      tokenless == r.kind = "page" /\ r.token # r.project
      viewed == isProjectPageNavigation(r) /\ reply.status = 200
  IN  /\ reply \in ReplyType
      /\ \/ ~open /\ reply = Refusal(503)
         \/ open /\ r.project = Own /\ r.kind = "page" /\ reply = Ok("page", Own)
         \/ open /\ r.project = Own /\ Handled(r, w, reply)
         \/ /\ open /\ r.project \in w.denied
            /\ reply.status = 403 /\ reply.event = "authz_denied" /\ reply.to = None
         \/ open /\ r.project \notin w.denied \cup {Own} /\ closed /\ reply = Refusal(503)
         \/ open /\ r.project \notin w.live \cup w.denied \cup {Own} /\ ~closed /\ reply = Redirect(Portal)
         \/ live /\ tokenless /\ reply = Redirect(addTokenToProjectRoute(r))
         \/ live /\ ~tokenless /\ ~viewed /\ Handled(r, w, reply)
         \/ /\ live /\ ~tokenless /\ viewed /\ reply.event = "project_view" /\ reply.to = None
            /\ reply.kind = r.kind /\ reply.project = r.project

LEMMA RedirectFits ==
  ASSUME NEW to \in Gets
  PROVE  /\ Redirect(to) \in ReplyType /\ Redirect(to).status = 302 /\ Redirect(to).to = to
         /\ Redirect(to).event = None
BY DEF Redirect, Reply, ReplyType, Names

LEMMA ReroutesFit ==
  /\ Portal \in Gets /\ Portal.kind = "page" /\ Portal.project = Own
  /\ \A r \in Gets : LET to == addTokenToProjectRoute(r)
                     IN  to \in Gets /\ to.kind = r.kind /\ to.project = r.project
<1>1. Portal \in Gets /\ Portal.kind = "page" /\ Portal.project = Own
  BY GetsFit DEF Portal, Resources, Names
<1>2. ASSUME NEW r \in Gets
      PROVE  LET to == addTokenToProjectRoute(r)
             IN  to \in Gets /\ to.kind = r.kind /\ to.project = r.project
  BY <1>2 DEF addTokenToProjectRoute, Gets, Names
<1> QED BY <1>1, <1>2

LEMMA TrackedFits ==
  ASSUME NEW reply \in ReplyType, NEW event \in {"authz_denied", "project_view"}
  PROVE  LET new == trackEvent(reply, event)
         IN  /\ new \in ReplyType /\ new.event = event /\ new.status = reply.status
             /\ new.kind = reply.kind /\ new.project = reply.project /\ new.to = reply.to
BY DEF trackEvent, ReplyType

LEMMA RepliesFit ==
  ASSUME NEW w \in Worlds, NEW r \in Gets, NEW cookies, NEW reply \in Replies(r, cookies, w)
  PROVE  Routed(r, w, reply)
<1>1. /\ r.kind \in Resources /\ r.project \in Projects \cup {Own} /\ r.token \in Names
      /\ Own \in Names /\ None \in Names /\ Own \notin w.live \cup w.denied
  BY WorldNames, NamesDiffer DEF Gets, Names, WorldType
<1>2. \A s \in Nat : /\ Refusal(s) \in ReplyType /\ Refusal(s).status = s /\ Refusal(s).to = None
                     /\ Refusal(s).event = None
  BY <1>1, RepliesAre DEF Refusal
<1>3. CASE isGlobalMaintenanceActive(w)
  BY <1>2, <1>3 DEF Replies, Routed
<1>4. CASE ~isGlobalMaintenanceActive(w) /\ r.project = Own
  <2>1. CASE w.portal /\ r.kind = "page"
    <3>1. reply = Ok("page", Own)
      BY <1>4, <2>1 DEF Replies
    <3>2. reply \in ReplyType
      BY <1>1, <3>1, RepliesAre DEF Ok, Resources
    <3> QED BY <1>4, <2>1, <3>1, <3>2 DEF Routed
  <2>2. CASE ~(w.portal /\ r.kind = "page")
    <3>1. Handled(r, w, reply)
      BY <1>4, <2>2, HandlersFit DEF Replies
    <3> QED BY <1>4, <3>1 DEF Routed, Handled
  <2> QED BY <2>1, <2>2
<1>5. CASE ~isGlobalMaintenanceActive(w) /\ r.project # Own
  <2>1. CASE r.project \in w.denied
    <3>1. reply = trackEvent(Refusal(403), "authz_denied")
      BY <1>5, <2>1 DEF Replies
    <3> QED BY <1>2, <1>5, <2>1, <3>1, TrackedFits DEF Routed
  <2>2. CASE r.project \notin w.denied
    <3>1. PICK x \in tryServeProjectRoute(r, cookies, w) :
            reply = IF isProjectPageNavigation(r) /\ x.status = 200
                    THEN trackEvent(x, "project_view") ELSE x
      BY <1>5, <2>2 DEF Replies
    <3>2. CASE isMaintenanceActiveForProject(w, r.project)
      <4>1. x = Refusal(503)
        BY <3>1, <3>2 DEF tryServeProjectRoute
      <4> QED BY <1>2, <1>5, <2>2, <3>1, <3>2, <4>1 DEF Routed
    <3>3. CASE ~isMaintenanceActiveForProject(w, r.project) /\ r.project \notin w.live
      <4>1. x = Redirect(Portal)
        BY <3>1, <3>3 DEF tryServeProjectRoute
      <4>2. x \in ReplyType /\ x.status = 302
        BY <4>1, RedirectFits, ReroutesFit
      <4> QED BY <1>5, <2>2, <3>1, <3>3, <4>1, <4>2 DEF Routed
    <3>4. CASE /\ ~isMaintenanceActiveForProject(w, r.project) /\ r.project \in w.live
               /\ r.kind = "page" /\ r.token # r.project
      <4>1. x = Redirect(addTokenToProjectRoute(r))
        BY <3>1, <3>4 DEF tryServeProjectRoute
      <4>2. x \in ReplyType /\ x.status = 302
        BY <4>1, RedirectFits, ReroutesFit
      <4> QED BY <1>5, <2>2, <3>1, <3>4, <4>1, <4>2 DEF Routed
    <3>5. CASE /\ ~isMaintenanceActiveForProject(w, r.project) /\ r.project \in w.live
               /\ ~(r.kind = "page" /\ r.token # r.project)
      <4>1. Handled(r, w, x)
        BY <3>1, <3>5, HandlersFit DEF tryServeProjectRoute
      <4>2. CASE isProjectPageNavigation(r) /\ x.status = 200
        <5>1. reply = trackEvent(x, "project_view")
          BY <3>1, <4>2
        <5>2. x \in ReplyType /\ x.kind = r.kind /\ x.project = r.project /\ x.to = None
          BY <4>1, <4>2 DEF Handled
        <5>3. /\ reply \in ReplyType /\ reply.event = "project_view" /\ reply.status = 200
              /\ reply.kind = r.kind /\ reply.project = r.project /\ reply.to = None
          BY <4>2, <5>1, <5>2, TrackedFits
        <5> QED BY <1>5, <2>2, <3>5, <4>2, <5>3 DEF Routed
      <4>3. CASE ~(isProjectPageNavigation(r) /\ x.status = 200)
        BY <1>5, <2>2, <3>1, <3>5, <4>1, <4>3 DEF Routed, Handled
      <4> QED BY <4>2, <4>3
    <3> QED BY <3>2, <3>3, <3>4, <3>5
  <2> QED BY <2>1, <2>2
<1> QED BY <1>3, <1>4, <1>5

LEMMA HandledHere ==
  ASSUME NEW r, NEW w, NEW reply, Handled(r, w, reply), reply.to # Get(r.kind, Own, r.project)
  PROVE  /\ reply.to = None /\ reply.event = None /\ reply.status \in {200, 400, 403, 404, 405, 413, 415, 500}
         /\ reply.status = 200 => reply.kind = r.kind /\ reply.project = r.project
         /\ reply.status = 404 => r.kind = "data" \/ r.project \notin w.dist
         /\ reply.status = 403 => r.kind \in {"asset", "data", "search"}
BY DEF Handled

(* What leads to the goal leads on to it, or keeps the promise.            *)
LEMMA LeadsOn ==
  ASSUME NEW w \in Worlds, NEW want \in Gets, Bound(want), NEW r \in Gets, Leads(want, r, w),
         NEW reply, Routed(r, w, reply)
  PROVE  IF reply.to # None THEN Leads(want, reply.to, w) ELSE Promised(want, w, reply)
<1>1. /\ r.kind \in Resources /\ r.project \in Projects \cup {Own}
      /\ want.kind \in Resources /\ want.project \in Projects \cup {Own}
      /\ Own \notin w.live \cup w.denied /\ Own \in Names /\ None \in Names /\ None \notin Gets
      /\ None \notin {"authz_denied", "project_view"}
      /\ \A p : isMaintenanceActiveForProject(w, p) <=> isGlobalMaintenanceActive(w) \/ p \in w.closed
      /\ isGlobalMaintenanceActive(w) <=> Own \in w.closed
  BY WorldNames, NamesDiffer
     DEF RequestType, Gets, Names, WorldType, isMaintenanceActiveForProject, isGlobalMaintenanceActive
<1>2. /\ Refusal(503).status = 503 /\ Refusal(503).to = None /\ Refusal(503).event = None
      /\ Ok("page", Own).status = 200 /\ Ok("page", Own).kind = "page" /\ Ok("page", Own).project = Own
      /\ Ok("page", Own).to = None /\ Ok("page", Own).event = None
  <2>1. /\ 503 \in Nat /\ None \in Resources \cup {"login", None} /\ 200 \in Nat
        /\ "page" \in Resources \cup {"login", None}
    BY DEF Resources
  <2>2. None \in Names /\ Own \in Names
    BY <1>1
  <2>3. Refusal(503).status = 503 /\ Refusal(503).to = None /\ Refusal(503).event = None
    BY <2>1, <2>2, RepliesAre DEF Refusal
  <2>4. /\ Ok("page", Own).status = 200 /\ Ok("page", Own).kind = "page"
        /\ Ok("page", Own).project = Own
        /\ Ok("page", Own).to = None /\ Ok("page", Own).event = None
    BY <2>1, <2>2, RepliesAre DEF Ok
  <2> QED BY <2>3, <2>4
<1>3. /\ Portal.kind = "page" /\ Portal.project = Own /\ Portal \in Gets
      /\ \A to \in Gets : Redirect(to).to = to
  BY ReroutesFit, RedirectFits
<1>4. \A kind \in Resources : LET to == Get(kind, Own, Own)
                              IN  to \in Gets /\ to.kind = kind /\ to.project = Own
  <2> TAKE kind \in Resources
  <2>1. Own \in Projects \cup {Own}
    OBVIOUS
  <2> QED BY <1>1, <2>1, GetsFit
<1> DEFINE open == ~isGlobalMaintenanceActive(w)
           denied == want.project \in w.denied /\ open
           closed == ~denied /\ isMaintenanceActiveForProject(w, want.project)
           goal == IF want.project \in w.live \cup {Own} THEN want ELSE Portal
           told == (denied <=> reply.event = "authz_denied") /\ (closed <=> reply.status = 503)
           right == /\ reply.status = 200 => reply.kind = goal.kind /\ reply.project = goal.project
                    /\ reply.event = "project_view" <=>
                         reply.status = 200 /\ reply.project # Own /\ isProjectPageNavigation(reply)
           excused == /\ reply.status = 404 => want.kind = "data" \/ goal.project \notin w.dist
                      /\ reply.status = 403 => denied \/ want.kind \in {"asset", "data", "search"}
           kept == told /\ right /\ excused
<1>5. Promised(want, w, reply) <=> kept
  BY DEF Promised
<1>6. CASE r.kind = want.kind /\ r.project = want.project
  <2>1. CASE ~open /\ reply = Refusal(503)
    BY <1>1, <1>2, <1>5, <1>6, <2>1
  <2>2. CASE open /\ r.project = Own /\ r.kind = "page" /\ reply = Ok("page", Own)
    <3>1. ~denied /\ ~closed /\ goal = want
      BY <1>1, <1>6, <2>2
    <3> HIDE DEF denied, closed, goal
    <3>2. told /\ excused
      BY <1>1, <1>2, <1>6, <2>2, <3>1
    <3>3. right
      <4>1. /\ goal.kind = "page" /\ goal.project = Own
            /\ reply.kind = "page" /\ reply.project = Own /\ reply.event # "project_view"
        BY <1>1, <1>2, <1>6, <2>2, <3>1, ZenonT(40)
      <4> QED BY <4>1, Zenon
    <3> QED BY <1>2, <1>5, <2>2, <3>2, <3>3
  <2>3. CASE open /\ r.project = Own /\ Handled(r, w, reply)
    <3>1. CASE reply.to = Get(r.kind, Own, r.project)
      BY <1>1, <1>4, <1>6, <2>3, <3>1 DEF Leads
    <3>2. CASE reply.to # Get(r.kind, Own, r.project)
      <4>1. ~denied /\ ~closed /\ goal = want
        BY <1>1, <1>6, <2>3
      <4>2. /\ reply.to = None /\ reply.event = None /\ reply.status \in {200, 400, 403, 404, 405, 413, 415, 500}
            /\ reply.status = 200 => reply.kind = want.kind /\ reply.project = want.project
            /\ reply.status = 404 => want.kind = "data" \/ want.project \notin w.dist
            /\ reply.status = 403 => want.kind \in {"asset", "data", "search"}
        BY <1>6, <2>3, <3>2, HandledHere
      <4> HIDE DEF denied, closed, goal
      <4>3. told
        BY <1>1, <4>1, <4>2
      <4>4. right
        BY <1>1, <1>6, <2>3, <4>1, <4>2, ZenonT(40)
      <4>5. excused
        BY <4>1, <4>2
      <4> QED BY <1>5, <4>2, <4>3, <4>4, <4>5
    <3> QED BY <3>1, <3>2
  <2>4. CASE /\ open /\ r.project \in w.denied
             /\ reply.status = 403 /\ reply.event = "authz_denied" /\ reply.to = None
    BY <1>1, <1>5, <1>6, <2>4
  <2>5. CASE /\ open /\ r.project \notin w.denied \cup {Own}
             /\ isMaintenanceActiveForProject(w, r.project) /\ reply = Refusal(503)
    BY <1>1, <1>2, <1>5, <1>6, <2>5
  <2>6. CASE /\ r.project \notin w.live \cup w.denied \cup {Own}
             /\ ~isMaintenanceActiveForProject(w, r.project) /\ reply = Redirect(Portal)
    BY <1>1, <1>3, <1>6, <2>6 DEF Leads
  <2>7. CASE reply = Redirect(addTokenToProjectRoute(r))
    BY <1>1, <1>3, <1>6, <2>7, ReroutesFit DEF Leads
  <2>8. CASE /\ open /\ r.project \in w.live \ w.denied /\ ~isMaintenanceActiveForProject(w, r.project)
             /\ ~(r.kind = "page" /\ r.token # r.project) /\ Handled(r, w, reply)
             /\ ~(isProjectPageNavigation(r) /\ reply.status = 200)
    <3>1. r.kind \in {"page", "asset", "data", "search"}
      BY <1>1, <1>6, <2>8 DEF Bound, Resources
    <3>2. reply.to = None
      BY <2>8, <3>1 DEF Handled
    <3>3. kept
      BY <1>1, <1>6, <2>8, <3>1 DEF Handled, isProjectPageNavigation
    <3> QED BY <1>5, <3>2, <3>3
  <2>9. CASE /\ open /\ r.project \in w.live \ w.denied /\ ~isMaintenanceActiveForProject(w, r.project)
             /\ isProjectPageNavigation(r) /\ reply.status = 200
             /\ reply.event = "project_view" /\ reply.to = None
             /\ reply.kind = r.kind /\ reply.project = r.project
    BY <1>1, <1>5, <1>6, <2>9 DEF isProjectPageNavigation
  <2> QED BY <2>1, <2>2, <2>3, <2>4, <2>5, <2>6, <2>7, <2>8, <2>9 DEF Routed
<1>7. CASE /\ want.project \notin w.live \cup {Own} /\ want.project \notin w.denied
           /\ ~isMaintenanceActiveForProject(w, want.project)
           /\ r.kind = "page" /\ r.project = Own
  <2>1. open /\ ~denied /\ ~closed /\ goal = Portal
    BY <1>1, <1>7
  <2>2. reply = Ok("page", Own) \/ Handled(r, w, reply)
    BY <1>1, <1>7, <2>1 DEF Routed
  <2>3. CASE reply = Ok("page", Own)
    BY <1>1, <1>2, <1>3, <1>5, <2>1, <2>3 DEF isProjectPageNavigation
  <2>4. CASE Handled(r, w, reply)
    <3>1. CASE reply.to = Get(r.kind, Own, r.project)
      BY <1>1, <1>4, <1>7, <2>4, <3>1 DEF Leads
    <3>2. CASE reply.to # Get(r.kind, Own, r.project)
      BY <1>1, <1>3, <1>5, <1>7, <2>1, <2>4, <3>2 DEF Handled
    <3> QED BY <3>1, <3>2
  <2> QED BY <2>2, <2>3, <2>4
<1> QED BY <1>6, <1>7 DEF Leads

-----------------------------------------------------------------------------
(* The requests of a tab.                                                  *)

LEMMA KindsDiffer ==
  /\ \A r \in Gets : r.kind \in Resources
  /\ \A n : Start(n).kind = "start" /\ Start(n).next = n
  /\ Logout.kind = "logout"
  /\ \A r \in RequestType :
       /\ r.kind \in Resources => r \in Gets
       /\ r.kind = "start" => r.next \in Gets
       /\ r.kind = "callback" => r.login \in Nat /\ r.agreed \in BOOLEAN
       /\ r.kind = "logout" => r = Logout
  /\ \A r \in Gets : r \in RequestType /\ Start(r) \in RequestType
  /\ \A l \in Nat, a \in BOOLEAN : /\ Return(l, a) \in RequestType /\ Return(l, a).kind = "callback"
                                   /\ Return(l, a).login = l
  /\ Logout \in RequestType
BY DEF Gets, Start, Return, Logout, RequestType, Resources

LEMMA Blanks ==
  /\ Blank \in TabType /\ Blank.pc = "idle" /\ Blank.want = None /\ Blank.req = None
  /\ Blank.shown = None /\ Blank.answer = None
BY DEF Blank, TabType

(* What an answer leaves of the tab it is for.                             *)
LEMMA ContinueFits ==
  ASSUME tabs \in [Tabs -> TabType], NEW t \in Tabs, NEW r \in RequestType, Continue(t, r)
  PROVE  /\ tabs' \in [Tabs -> TabType] /\ \A u \in Tabs \ {t} : tabs'[u] = tabs[u]
         /\ tabs'[t].pc = "sending" /\ tabs'[t].want = tabs[t].want /\ tabs'[t].req = r
         /\ tabs'[t].shown = None /\ tabs'[t].answer = None
<1>1. PICK new : new = [Blank EXCEPT !.pc = "sending", !.want = tabs[t].want, !.req = r]
  OBVIOUS
<1>2. /\ new \in TabType /\ new.pc = "sending" /\ new.want = tabs[t].want /\ new.req = r
      /\ new.shown = None /\ new.answer = None
  BY <1>1 DEF Blank, TabType
<1> QED BY <1>1, <1>2 DEF Continue

LEMMA ShowFits ==
  ASSUME tabs \in [Tabs -> TabType], NEW t \in Tabs, NEW reply \in ReplyType, Show(t, reply)
  PROVE  /\ tabs' \in [Tabs -> TabType] /\ \A u \in Tabs \ {t} : tabs'[u] = tabs[u]
         /\ tabs'[t].pc = "shown" /\ tabs'[t].want = tabs[t].want /\ tabs'[t].req = None
         /\ tabs'[t].shown = reply /\ tabs'[t].answer = None
<1>1. PICK new : new = [Blank EXCEPT !.pc = "shown", !.want = tabs[t].want, !.shown = reply]
  OBVIOUS
<1>2. /\ new \in TabType /\ new.pc = "shown" /\ new.want = tabs[t].want /\ new.req = None
      /\ new.shown = reply /\ new.answer = None
  BY <1>1 DEF Blank, TabType
<1> QED BY <1>1, <1>2 DEF Show

LEMMA ForgetFits ==
  ASSUME tabs \in [Tabs -> TabType], NEW t \in Tabs, Forget(t)
  PROVE  /\ tabs' \in [Tabs -> TabType] /\ \A u \in Tabs \ {t} : tabs'[u] = tabs[u]
         /\ tabs'[t] = Blank
BY Blanks DEF Forget

-----------------------------------------------------------------------------
(* The session store.                                                      *)

LEMMA PutHas ==
  ASSUME NEW live, NEW k, NEW s
  PROVE  /\ DOMAIN put(live, k, s) = DOMAIN live \cup {k} /\ put(live, k, s)[k] = s
         /\ \A x \in DOMAIN live \ {k} : put(live, k, s)[x] = live[x]
BY DEF put

LEMMA DeleteHas ==
  ASSUME NEW live, NEW k
  PROVE  /\ DOMAIN delete(live, k) = DOMAIN live \ {k}
         /\ \A x \in DOMAIN live \ {k} : delete(live, k)[x] = live[x]
BY DEF delete, Restrict

LEMMA SweepHas ==
  /\ DOMAIN sweep = {k \in DOMAIN sessions : ~isExpired(sessions[k])}
  /\ \A k \in DOMAIN sweep : sweep[k] = sessions[k]
BY DEF sweep, Restrict

LEMMA SweepStatesHas ==
  /\ DOMAIN sweepStates \subseteq DOMAIN pending
  /\ \A l \in DOMAIN sweepStates : sweepStates[l] = pending[l]
BY DEF sweepStates, Restrict

LEMMA RenewFits ==
  ASSUME now \in Nat, NEW s \in SessionType
  PROVE  /\ renew(s) \in SessionType /\ renew(s).login = s.login /\ renew(s).grant = s.grant
         /\ renew(s).expires = renew(s).seen + Ttl /\ renew(s).seen = now
<1>1. now \in Int /\ now + Ttl \in Int
  BY LivesAreNumbers
<1>2. PICK new : new = [s EXCEPT !.seen = now, !.expires = now + Ttl]
  OBVIOUS
<1>3. /\ new \in SessionType /\ new.login = s.login /\ new.grant = s.grant
      /\ new.seen = now /\ new.expires = now + Ttl
  BY <1>1, <1>2 DEF SessionType
<1> QED BY <1>2, <1>3 DEF renew

-----------------------------------------------------------------------------
(* Steps of a tab that no refresh is part of.                              *)

(* The sessions of `live' are some of those there are, perhaps renewed.    *)
Lives(live) ==
  /\ DOMAIN live \subseteq DOMAIN sessions
  /\ \A k \in DOMAIN live : /\ live[k] \in SessionType
                            /\ live[k].login = sessions[k].login /\ live[k].grant = sessions[k].grant
                            /\ live[k].expires = live[k].seen + Ttl

LEMMA SweepLives ==
  ASSUME TypeOK, GrantInv
  PROVE  /\ Lives(sweep) /\ \A k : Lives(delete(sweep, k)) /\ Lives(sessions)
         /\ \A k \in DOMAIN sweep : Lives(replace(sweep, k, sweep[k]))
<1>1. Lives(sessions) /\ Lives(sweep)
  BY SweepHas DEF TypeOK, GrantInv, Lives
<1>2. ASSUME NEW k PROVE Lives(delete(sweep, k))
  <2>1. PICK live : live = delete(sweep, k)
    OBVIOUS
  <2>2. /\ DOMAIN live \subseteq DOMAIN sweep
        /\ \A x \in DOMAIN live : live[x] = sweep[x]
    BY <2>1, DeleteHas
  <2> QED BY <1>1, <2>1, <2>2 DEF Lives
<1>3. ASSUME NEW k \in DOMAIN sweep PROVE Lives(replace(sweep, k, sweep[k]))
  <2>1. now \in Nat /\ sweep[k] \in SessionType
    BY <1>1 DEF TypeOK, Lives
  <2>2. PICK live : live = put(sweep, k, renew(sweep[k]))
    OBVIOUS
  <2>3. /\ DOMAIN live = DOMAIN sweep /\ live[k] = renew(sweep[k])
        /\ \A x \in DOMAIN sweep \ {k} : live[x] = sweep[x]
    BY <1>3, <2>2 DEF put
  <2>4. Lives(live)
    BY <1>1, <1>3, <2>1, <2>3, RenewFits DEF Lives
  <2> QED BY <2>2, <2>4 DEF replace
<1> QED BY <1>1, <1>2, <1>3

Growing == /\ world' = world /\ up' \in BOOLEAN /\ now' \in Nat /\ events' \in Nat
           /\ grant' \in Seq(Nat) /\ Logins \subseteq Logins' /\ \A l \in Logins : grant'[l] = grant[l]

Quiet(t) == tabs[t].pc \notin {"refreshing", "refreshed"}

LEMMA OthersFit ==
  ASSUME TypeOK, GoalInv, NEW u \in Tabs, tabs'[u] = tabs[u],
         world' = world, Logins \subseteq Logins', Tokens \subseteq Tokens',
         \A l \in Logins : l \in DOMAIN pending' => l \in DOMAIN pending /\ pending'[l] = pending[l]
  PROVE  Fits(u)' /\ Aims(u)'
<1>1. Fits(u) /\ Aims(u)
  BY DEF TypeOK, GoalInv
<1>2. Fits(u)'
  BY <1>1 DEF Fits
<1>3. tabs[u].pc = "idp" => tabs[u].login \in Logins
  BY <1>1 DEF Fits
<1>4. tabs[u].pc = "sending" /\ tabs[u].req.kind = "callback" => tabs[u].req.login \in Logins
  BY <1>1 DEF Fits
<1>5. Aims(u)'
  BY <1>1, <1>3, <1>4 DEF Aims
<1> QED BY <1>2, <1>5

LEMMA TurnKeeps ==
  ASSUME RequestsInv, NEW t \in Tabs, Growing, made' = made,
         tabs' \in [Tabs -> TabType], \A u \in Tabs \ {t} : tabs'[u] = tabs[u],
         Quiet(t), Quiet(t)',
         tabs'[t].pc = "exchanging" =>
           tabs'[t].login \in DOMAIN pending /\ tabs'[t].login \notin DOMAIN pending',
         Lives(sessions'),
         DOMAIN pending' \subseteq Logins',
         \A l \in DOMAIN pending' : pending'[l] \in [since : Nat, next : Gets],
         \A l \in Logins : l \in DOMAIN pending' => l \in DOMAIN pending /\ pending'[l] = pending[l],
         jar' \in [token : Tokens \cup {None}, runtime : SUBSET Names],
         out \subseteq out',
         \A k \in out' \ out : k \in Tokens /\ k \notin DOMAIN sessions' /\ Refreshing(k) = {},
         Fits(t)', Aims(t)'
  PROVE  RequestsInv'
<1>1. TypeOK /\ LoginInv /\ OutInv /\ GrantInv /\ GoalInv
  BY DEF RequestsInv
<1>2. \A u \in Tabs : Fits(u)' /\ Aims(u)'
  BY <1>1, OthersFit DEF Growing, Tokens
<1>3. TypeOK'
  BY <1>1, <1>2 DEF TypeOK, Growing, Lives, Tokens, Logins
<1>4. LoginInv'
  <2>1. OneSessionPerLogin'
    BY <1>1 DEF LoginInv, OneSessionPerLogin, IsInjective
  <2>2. \A k \in Tokens : made[k] \notin DOMAIN pending'
    BY <1>1 DEF LoginInv, TypeOK
  <2>3. \A u \in Tabs : tabs'[u].pc = "exchanging" =>
          /\ tabs'[u].login \notin DOMAIN pending'
          /\ \A k \in Tokens : made[k] # tabs'[u].login
    <3>1. ASSUME NEW u \in Tabs \ {t}, tabs[u].pc = "exchanging"
          PROVE  tabs[u].login \in Logins /\ tabs[u].login \notin DOMAIN pending'
      BY <1>1, <3>1 DEF LoginInv, TypeOK, Fits
    <3> QED BY <1>1, <3>1 DEF LoginInv
  <2>4. \A u \in Tabs : \A v \in Tabs \ {u} :
          tabs'[u].pc = "exchanging" /\ tabs'[v].pc = "exchanging" => tabs'[u].login # tabs'[v].login
    BY <1>1 DEF LoginInv
  <2> QED BY <2>1, <2>2, <2>3, <2>4 DEF LoginInv, Tokens
<1>5. \A k : Refreshing(k)' = Refreshing(k) /\ t \notin Refreshing(k)
  BY DEF Refreshing, Quiet
<1>6. OutInv'
  BY <1>1, <1>5 DEF OutInv, Lives
<1>7. GrantInv'
  <2>1. \A k \in Tokens : grant'[made[k]] = grant[made[k]]
    BY <1>1 DEF TypeOK, Growing
  <2>2. \A k : \A u \in Refreshing(k) : tabs'[u] = tabs[u]
    BY <1>5 DEF Refreshing
  <2>3. \A k \in DOMAIN sessions' :
          /\ sessions'[k].login = made[k] /\ sessions'[k].expires = sessions'[k].seen + Ttl
          /\ sessions'[k].grant <= grant'[made[k]]
          /\ Refreshing(k) = {} => sessions'[k].grant = grant'[made[k]]
    BY <1>1, <2>1 DEF GrantInv, Lives, TypeOK
  <2>4. ASSUME NEW k \in Tokens, NEW u \in Refreshing(k)
        PROVE  /\ tabs'[u].session.login = made[k]
               /\ tabs'[u].session.grant <= grant'[made[k]]
               /\ tabs'[u].alone =>
                    /\ Refreshing(k) = {u}
                    /\ tabs'[u].pc = "refreshing" => tabs'[u].session.grant = grant'[made[k]]
                    /\ tabs'[u].answer # "used"
               /\ tabs'[u].answer = "new" =>
                    /\ tabs'[u].session.grant + 1 = grant'[made[k]]
                    /\ k \in DOMAIN sessions' => sessions'[k].grant < grant'[made[k]]
                    /\ \A v \in Refreshing(k) : /\ tabs'[v].session.grant < grant'[made[k]]
                                                /\ tabs'[v].answer = "new" => v = u
    <3>1. tabs'[u] = tabs[u] /\ grant'[made[k]] = grant[made[k]]
          /\ \A v \in Refreshing(k) : tabs'[v] = tabs[v]
      BY <2>1, <2>2
    <3>2. k \in DOMAIN sessions' => k \in DOMAIN sessions /\ sessions'[k].grant = sessions[k].grant
      BY DEF Lives
    <3> QED BY <1>1, <3>1, <3>2 DEF GrantInv
  <2>5. Tokens' = Tokens
    BY DEF Tokens
  <2> QED BY <1>5, <2>3, <2>4, <2>5 DEF GrantInv
<1> QED BY <1>2, <1>3, <1>4, <1>6, <1>7 DEF RequestsInv, GoalInv

LEMMA SteadyGrows ==
  ASSUME TypeOK, world' = world, up' \in BOOLEAN, now' \in Nat, events' \in Nat, grant' = grant
  PROVE  Growing
BY DEF Growing, TypeOK, Logins

LEMMA PassKeeps ==
  ASSUME RequestsInv, NEW t \in Tabs, UNCHANGED <<world, made, pending, grant, out>>,
         up' \in BOOLEAN, now' \in Nat, events' \in Nat,
         tabs' \in [Tabs -> TabType], \A u \in Tabs \ {t} : tabs'[u] = tabs[u],
         Quiet(t), Quiet(t)', tabs'[t].pc # "exchanging", Lives(sessions'),
         jar' \in [token : Tokens \cup {None}, runtime : SUBSET Names],
         Fits(t)', Aims(t)'
  PROVE  RequestsInv'
<1>1. TypeOK
  BY DEF RequestsInv
<1>2. Growing /\ Logins' = Logins
  BY <1>1, SteadyGrows DEF Logins
<1>3. DOMAIN pending' \subseteq Logins' /\ \A l \in DOMAIN pending' : pending'[l] \in [since : Nat, next : Gets]
  BY <1>1, <1>2 DEF TypeOK
<1> QED BY <1>1, <1>2, <1>3, TurnKeeps

LEMMA AskKeeps == ASSUME RequestsInv, NEW t \in Tabs, Ask(t) PROVE RequestsInv'
<1>1. TypeOK /\ GrantInv
  BY DEF RequestsInv
<1>2. /\ UNCHANGED <<world, now, up, sessions, made, pending, grant, jar, out>>
      /\ tabs[t].pc = "idle" /\ events' \in Nat
  <2>1. /\ UNCHANGED <<world, now, up, server, grant, jar, out>>
        /\ tabs[t].pc = "idle" /\ events' = events + 1
    BY Zenon DEF Ask
  <2> QED BY <1>1, <2>1 DEF server, TypeOK
<1>3. \/ \E g \in Goals[world.auth] : tabs' = [tabs EXCEPT ![t] = [Blank EXCEPT !.pc = "sending", !.want = g, !.req = g]]
      \/ \E l \in Logins : tabs' = [tabs EXCEPT ![t] = [Blank EXCEPT !.pc = "idp", !.login = l]]
  BY DEF Ask, Logins
<1>4. /\ tabs' \in [Tabs -> TabType] /\ \A u \in Tabs \ {t} : tabs'[u] = tabs[u]
      /\ tabs'[t].pc \in {"sending", "idp"} /\ Fits(t)' /\ Aims(t)'
  <2>1. CASE \E g \in Goals[world.auth] :
               tabs' = [tabs EXCEPT ![t] = [Blank EXCEPT !.pc = "sending", !.want = g, !.req = g]]
    <3>1. PICK g, new :
            /\ g \in Goals[world.auth]
            /\ new = [Blank EXCEPT !.pc = "sending", !.want = g, !.req = g]
            /\ tabs' = [tabs EXCEPT ![t] = new]
      BY <2>1
    <3>2. g \in Gets \cup {Logout} /\ world.auth \in BOOLEAN
      BY <1>1, <3>1, WorldNames, GoalsAreRequests DEF TypeOK, WorldType
    <3>3. /\ new \in TabType /\ new.pc = "sending" /\ new.want = g /\ new.req = g /\ new.shown = None
          /\ new.answer = None
      BY <3>1, <3>2, KindsDiffer DEF Blank, TabType
    <3>4. g # None /\ g.kind \in Resources \cup {"logout"} /\ (g # Logout => g.kind \in Resources)
      BY <3>2, NamesDiffer, KindsDiffer
    <3>5. Fits(t)'
      BY <1>1, <3>1, <3>3, <3>4 DEF Fits, TypeOK, Resources
    <3>6. Aims(t)'
      BY <1>1, <3>1, <3>3, <3>4 DEF Aims, Bound, Leads, TypeOK, Resources
    <3> QED BY <1>1, <3>1, <3>3, <3>5, <3>6 DEF TypeOK
  <2>2. CASE \E l \in Logins : tabs' = [tabs EXCEPT ![t] = [Blank EXCEPT !.pc = "idp", !.login = l]]
    <3>1. PICK l, new :
            /\ l \in Logins
            /\ new = [Blank EXCEPT !.pc = "idp", !.login = l]
            /\ tabs' = [tabs EXCEPT ![t] = new]
      BY <2>2
    <3>2. l \in Nat
      BY <1>1, <3>1 DEF TypeOK, Logins
    <3>3. /\ new \in TabType /\ new.pc = "idp" /\ new.want = None /\ new.login = l
          /\ new.answer = None
      BY <3>1, <3>2 DEF Blank, TabType
    <3>4. Fits(t)'
      BY <1>1, <1>2, <3>1, <3>3 DEF Fits, TypeOK, Logins
    <3>5. Aims(t)'
      BY <1>1, <3>1, <3>3 DEF Aims, Bound, TypeOK
    <3> QED BY <1>1, <3>1, <3>3, <3>4, <3>5 DEF TypeOK
  <2> QED BY <1>3, <2>1, <2>2
<1>5. Lives(sessions')
  BY <1>1, <1>2, SweepLives
<1> QED BY <1>1, <1>2, <1>4, <1>5, PassKeeps DEF Quiet, TypeOK

LEMMA LookKeeps == ASSUME RequestsInv, NEW t \in Tabs, Look(t) \/ NoServer(t) PROVE RequestsInv'
<1>1. TypeOK /\ GrantInv
  BY DEF RequestsInv
<1>2. /\ UNCHANGED <<world, now, events, up, sessions, made, pending, grant, jar, out>>
      /\ tabs[t].pc \in {"shown", "sending"} /\ Forget(t)
  BY DEF Look, NoServer, counters, server
<1>3. tabs' \in [Tabs -> TabType] /\ (\A u \in Tabs \ {t} : tabs'[u] = tabs[u]) /\ tabs'[t] = Blank
  BY <1>1, <1>2, ForgetFits DEF TypeOK
<1>4. Fits(t)' /\ Aims(t)'
  BY <1>3, Blanks DEF Fits, Aims, Bound
<1>5. Lives(sessions')
  BY <1>1, <1>2, SweepLives
<1> QED BY <1>1, <1>2, <1>3, <1>4, <1>5, PassKeeps, Blanks DEF Quiet, TypeOK

LEMMA AtProviderKeeps == ASSUME RequestsInv, NEW t \in Tabs, AtProvider(t) PROVE RequestsInv'
<1>1. TypeOK /\ GrantInv /\ GoalInv
  BY DEF RequestsInv
<1>2. /\ UNCHANGED <<world, now, events, up, sessions, made, pending, grant, jar, out>>
      /\ tabs[t].pc = "idp"
  BY DEF AtProvider, counters, server
<1>3. PICK agreed \in BOOLEAN : Continue(t, Return(tabs[t].login, agreed))
  BY DEF AtProvider
<1>4. tabs[t].login \in Logins /\ tabs[t].login \in Nat
  BY <1>1, <1>2 DEF TypeOK, Fits, Logins
<1>5. PICK r \in RequestType : /\ r = Return(tabs[t].login, agreed) /\ Continue(t, r)
                              /\ r.kind = "callback" /\ r.login = tabs[t].login
  BY <1>3, <1>4, KindsDiffer
<1>6. /\ tabs' \in [Tabs -> TabType] /\ \A u \in Tabs \ {t} : tabs'[u] = tabs[u]
      /\ tabs'[t].pc = "sending" /\ tabs'[t].want = tabs[t].want /\ tabs'[t].req = r
      /\ tabs'[t].shown = None /\ tabs'[t].answer = None
  BY <1>1, <1>5, ContinueFits DEF TypeOK
<1>7. r # None /\ r # Logout
  BY <1>5, KindsDiffer, NamesDiffer DEF RequestType
<1>8. Fits(t)'
  BY <1>2, <1>4, <1>5, <1>6, <1>7 DEF Fits, Logins
<1>9. Aims(t)'
  BY <1>1, <1>2, <1>5, <1>6, <1>7 DEF GoalInv, Aims, Resources
<1>10. Lives(sessions')
  BY <1>1, <1>2, SweepLives
<1> QED BY <1>1, <1>2, <1>6, <1>8, <1>9, <1>10, PassKeeps DEF Quiet, TypeOK

LEMMA SentFits ==
  ASSUME TypeOK, NEW t \in Tabs, NEW kinds, Sent(t, kinds)
  PROVE  /\ tabs[t].pc = "sending" /\ tabs[t].req \in RequestType /\ tabs[t].req.kind \in kinds
         /\ Quiet(t) /\ Fits(t) /\ tabs[t] \in TabType /\ tabs[t].answer = None
BY DEF Sent, TypeOK, Fits, TabType, Quiet

LEMMA LogOutKeeps == ASSUME RequestsInv, NEW t \in Tabs, LogOut(t) PROVE RequestsInv'
<1>1. TypeOK /\ GrantInv /\ GoalInv
  BY DEF RequestsInv
<1>2. /\ UNCHANGED <<world, now, events, up, made, pending, grant>>
      /\ Sent(t, {"logout"}) /\ Continue(t, Start(Portal))
      /\ sessions' = delete(sweep, jar.token) /\ jar' = [jar EXCEPT !.token = None]
      /\ out' = IF jar.token = None \/ Refreshing(jar.token) # {} THEN out ELSE out \cup {jar.token}
  BY DEF LogOut, counters
<1>3. tabs[t].req = Logout /\ Quiet(t) /\ Portal \in Gets
  BY <1>1, <1>2, SentFits, KindsDiffer, ReroutesFit
<1>4. PICK r \in RequestType : r = Start(Portal) /\ r.kind = "start" /\ r # None
  BY <1>3, KindsDiffer, NamesDiffer
<1>5. /\ tabs' \in [Tabs -> TabType] /\ \A u \in Tabs \ {t} : tabs'[u] = tabs[u]
      /\ tabs'[t].pc = "sending" /\ tabs'[t].want = tabs[t].want /\ tabs'[t].req = r
      /\ tabs'[t].shown = None /\ tabs'[t].answer = None
  BY <1>1, <1>2, <1>4, ContinueFits DEF TypeOK
<1>6. Fits(t)'
  BY <1>4, <1>5 DEF Fits
<1>7. Aims(t)'
  BY <1>1, <1>2, <1>3, <1>5, SentFits DEF GoalInv, Aims
<1>8. Lives(sessions') /\ jar.token \notin DOMAIN sessions'
  BY <1>1, <1>2, SweepLives, DeleteHas, ZenonT(40)
<1>9. Growing /\ Logins' = Logins
  BY <1>1, <1>2, SteadyGrows DEF TypeOK, Logins
<1>10. jar' \in [token : Tokens \cup {None}, runtime : SUBSET Names]
  BY <1>1, <1>2 DEF TypeOK
<1>11. out \subseteq out' /\ \A k \in out' \ out : k \in Tokens /\ k \notin DOMAIN sessions' /\ Refreshing(k) = {}
  BY <1>1, <1>2, <1>8 DEF TypeOK
<1>12. DOMAIN pending' \subseteq Logins' /\ \A l \in DOMAIN pending' : pending'[l] \in [since : Nat, next : Gets]
  BY <1>1, <1>2, <1>9 DEF TypeOK
<1> QED BY <1>1, <1>2, <1>3, <1>5, <1>6, <1>7, <1>8, <1>9, <1>10, <1>11, <1>12, TurnKeeps DEF Quiet

LEMMA BeginLoginKeeps == ASSUME RequestsInv, NEW t \in Tabs, BeginLogin(t) PROVE RequestsInv'
<1> DEFINE l == Len(grant) + 1
           begun == [since |-> now, next |-> tabs[t].req.next]
<1>1. TypeOK /\ GrantInv /\ GoalInv
  BY DEF RequestsInv
<1>2. /\ UNCHANGED <<world, now, events, up, made, jar, out>>
      /\ Sent(t, {"start"}) /\ sessions' = sweep
      /\ pending' = put(sweepStates, l, begun) /\ grant' = Append(grant, 0)
      /\ tabs' = [tabs EXCEPT ![t].pc = "idp", ![t].login = l]
  BY DEF BeginLogin, counters
<1>3. /\ grant' \in Seq(Nat) /\ Len(grant') = l /\ \A i \in Logins : grant'[i] = grant[i]
      /\ Logins = 1 .. Len(grant) /\ Logins' = 1 .. l /\ l \in Nat /\ l \notin Logins
  BY <1>1, <1>2, AppendProperties DEF TypeOK, Logins
<1>4. tabs[t].req.kind = "start" /\ tabs[t].req.next \in Gets /\ Quiet(t) /\ tabs[t].pc = "sending"
      /\ tabs[t].answer = None
  BY <1>1, <1>2, SentFits, KindsDiffer
<1>5. begun \in [since : Nat, next : Gets] /\ begun.next = tabs[t].req.next
  BY <1>1, <1>4 DEF TypeOK
<1> HIDE DEF l, begun
<1>6. /\ tabs' \in [Tabs -> TabType] /\ \A u \in Tabs \ {t} : tabs'[u] = tabs[u]
      /\ tabs'[t].pc = "idp" /\ tabs'[t].login = l /\ tabs'[t].want = tabs[t].want
      /\ tabs'[t].shown = tabs[t].shown /\ tabs'[t].answer = None
  <2>1. PICK new : new = [tabs[t] EXCEPT !.pc = "idp", !.login = l]
    OBVIOUS
  <2>2. tabs[t] \in TabType /\ l \in Nat
    BY <1>1, <1>3 DEF TypeOK
  <2>3. /\ new \in TabType /\ new.pc = "idp" /\ new.login = l /\ new.want = tabs[t].want
        /\ new.shown = tabs[t].shown /\ new.answer = None
    BY <1>4, <2>1, <2>2, ZenonT(40) DEF TabType
  <2>4. tabs' = [tabs EXCEPT ![t] = new]
    BY <1>1, <1>2, <2>1, <2>2 DEF TypeOK, TabType
  <2> QED BY <1>1, <2>3, <2>4 DEF TypeOK
<1>7. /\ DOMAIN pending' = DOMAIN sweepStates \cup {l} /\ pending'[l] = begun
      /\ \A x \in DOMAIN sweepStates \ {l} : pending'[x] = sweepStates[x]
  <2>1. PICK new, states, s : new = pending' /\ states = sweepStates /\ s = begun
    OBVIOUS
  <2>2. new = put(states, l, s)
    BY <1>2, <2>1
  <2>3. /\ DOMAIN new = DOMAIN states \cup {l} /\ new[l] = s
        /\ \A x \in DOMAIN states \ {l} : new[x] = states[x]
    BY <2>2 DEF put
  <2> QED BY <2>1, <2>3
<1>8. /\ DOMAIN pending' \subseteq Logins' /\ \A x \in DOMAIN pending' : pending'[x] \in [since : Nat, next : Gets]
      /\ \A x \in Logins : x \in DOMAIN pending' => x \in DOMAIN pending /\ pending'[x] = pending[x]
  <2>1. \A x \in DOMAIN pending' : x = l \/ (x \in DOMAIN pending /\ pending'[x] = pending[x])
    BY <1>7, SweepStatesHas
  <2>2. l \in Logins' /\ \A x \in Logins : x \in Logins' /\ x # l
    BY <1>3 DEF l
  <2>3. DOMAIN pending \subseteq Logins /\ \A x \in DOMAIN pending : pending[x] \in [since : Nat, next : Gets]
    BY <1>1 DEF TypeOK
  <2>4. \A x \in DOMAIN pending' : x \in Logins' /\ pending'[x] \in [since : Nat, next : Gets]
    BY <1>5, <1>7, <2>1, <2>2, <2>3
  <2> QED BY <2>1, <2>2, <2>4
<1>9. Fits(t)'
  <2>1. l \in Logins'
    BY <1>3 DEF l
  <2> QED BY <1>6, <2>1 DEF Fits
<1>10. Aims(t)'
  BY <1>1, <1>2, <1>4, <1>5, <1>6, <1>7 DEF GoalInv, Aims
<1>11. Growing
  BY <1>1, <1>2, <1>3 DEF Growing, TypeOK
<1>12. Lives(sessions')
  BY <1>1, <1>2, SweepLives
<1> QED BY <1>1, <1>2, <1>4, <1>6, <1>8, <1>9, <1>10, <1>11, <1>12, TurnKeeps DEF Quiet, TypeOK

LEMMA DeniedFits == NotLoggedIn \subseteq ReplyType /\ Denied \in NotLoggedIn
BY RepliesAre DEF NotLoggedIn, Denied, AuthFailed, Names

LEMMA CallbackHolds == ASSUME RequestsInv, NEW t \in Tabs, Callback(t) PROVE RequestsInv'
<1> DEFINE l == tabs[t].req.login
           next == pending[l].next
           taken == l \in DOMAIN sweepStates /\ tabs[t].req.agreed
<1>1. TypeOK /\ GrantInv /\ GoalInv
  BY DEF RequestsInv
<1>2. /\ UNCHANGED <<world, now, events, up, made, grant, jar, out>>
      /\ Sent(t, {"callback"}) /\ sessions' = sweep /\ pending' = delete(sweepStates, l)
      /\ IF taken THEN tabs' = [tabs EXCEPT ![t].pc = "exchanging", ![t].login = l, ![t].req = next]
         ELSE Show(t, Denied)
  BY DEF Callback, counters
<1>3. tabs[t].req.kind = "callback" /\ l \in Logins /\ l \in Nat /\ Quiet(t) /\ tabs[t].pc = "sending"
      /\ tabs[t].answer = None
  BY <1>1, <1>2, SentFits DEF Fits, TypeOK, Logins
<1>4. /\ DOMAIN pending' = DOMAIN sweepStates \ {l}
      /\ \A x \in DOMAIN pending' : x \in DOMAIN pending /\ pending'[x] = pending[x]
  <2>1. PICK new, states : new = pending' /\ states = sweepStates
    OBVIOUS
  <2>2. new = delete(states, l)
    BY <1>2, <2>1
  <2>3. /\ DOMAIN new = DOMAIN states \ {l}
        /\ \A x \in DOMAIN new : new[x] = states[x]
    BY <2>2, DeleteHas
  <2> QED BY <2>1, <2>3, SweepStatesHas
<1>5. /\ tabs' \in [Tabs -> TabType] /\ \A u \in Tabs \ {t} : tabs'[u] = tabs[u]
      /\ Quiet(t)' /\ Fits(t)' /\ Aims(t)'
      /\ tabs'[t].pc = "exchanging" =>
           tabs'[t].login \in DOMAIN pending /\ tabs'[t].login \notin DOMAIN pending'
  <2>1. CASE taken
    <3>1. l \in DOMAIN pending /\ next \in Gets
      BY <1>1, <2>1, SweepStatesHas DEF TypeOK
    <3>2. Bound(tabs[t].want) => Leads(tabs[t].want, next, world) /\ tabs[t].shown = None
      BY <1>1, <1>3, <3>1 DEF GoalInv, Aims
    <3> HIDE DEF l, next, taken
    <3>3. PICK new : new = [tabs[t] EXCEPT !.pc = "exchanging", !.login = l, !.req = next]
      OBVIOUS
    <3>4. tabs[t] \in TabType /\ next \in RequestType
      BY <1>1, <3>1, KindsDiffer DEF TypeOK
    <3>5. /\ new \in TabType /\ new.pc = "exchanging" /\ new.login = l /\ new.req = next
          /\ new.want = tabs[t].want /\ new.shown = tabs[t].shown /\ new.answer = None
      BY <1>3, <3>3, <3>4, ZenonT(40) DEF TabType
    <3>6. tabs' = [tabs EXCEPT ![t] = new]
      BY <1>1, <1>2, <2>1, <3>3, <3>4 DEF TypeOK, TabType
    <3>7. tabs' \in [Tabs -> TabType] /\ tabs'[t] = new /\ \A u \in Tabs \ {t} : tabs'[u] = tabs[u]
      BY <1>1, <3>5, <3>6 DEF TypeOK
    <3>8. Fits(t)'
      BY <1>2, <1>3, <3>1, <3>5, <3>7 DEF Fits, Logins
    <3>9. Aims(t)'
      BY <1>2, <3>2, <3>5, <3>7 DEF Aims
    <3> QED BY <1>4, <3>1, <3>5, <3>7, <3>8, <3>9 DEF Quiet
  <2>2. CASE ~taken
    <3>1. Show(t, Denied)
      BY <1>2, <2>2
    <3>2. /\ tabs' \in [Tabs -> TabType] /\ \A u \in Tabs \ {t} : tabs'[u] = tabs[u]
          /\ tabs'[t].pc = "shown" /\ tabs'[t].shown = Denied
          /\ tabs'[t].answer = None
      BY <1>1, <3>1, ShowFits, DeniedFits DEF TypeOK
    <3> QED BY <3>2, DeniedFits DEF Quiet, Fits, Aims
  <2> QED BY <2>1, <2>2
<1> HIDE DEF l, next, taken
<1>6. Growing /\ Logins' = Logins
  BY <1>1, <1>2, SteadyGrows DEF TypeOK, Logins
<1>7. DOMAIN pending' \subseteq Logins' /\ \A x \in DOMAIN pending' : pending'[x] \in [since : Nat, next : Gets]
  BY <1>1, <1>4, <1>6 DEF TypeOK
<1>8. Lives(sessions')
  BY <1>1, <1>2, SweepLives
<1> QED BY <1>1, <1>2, <1>3, <1>4, <1>5, <1>6, <1>7, <1>8, TurnKeeps DEF TypeOK

(* With the process go its sessions, the logins and the requests under way. *)
LEMMA DieKeeps ==
  ASSUME RequestsInv, NEW with, Die(with), events' \in Nat PROVE RequestsInv'
<1>1. TypeOK /\ LoginInv /\ OutInv /\ GoalInv
  BY DEF RequestsInv
<1>2. /\ UNCHANGED <<world, now, made, grant, jar, out>> /\ up' = FALSE
      /\ DOMAIN sessions' = {} /\ DOMAIN pending' = {}
      /\ tabs' = [t \in Tabs |->
           IF t \in with \/ tabs[t].pc \in {"exchanging", "refreshing", "refreshed"} THEN Blank ELSE tabs[t]]
  BY DEF Die
<1>3. /\ tabs' \in [Tabs -> TabType]
      /\ \A t \in Tabs : \/ tabs'[t] = Blank
                         \/ tabs'[t] = tabs[t] /\ tabs[t].pc \notin {"exchanging", "refreshing", "refreshed"}
  BY <1>1, <1>2, Blanks DEF TypeOK
<1>4. ASSUME NEW t \in Tabs PROVE Fits(t)' /\ Aims(t)'
  <2>1. CASE tabs'[t] = Blank
    BY <2>1, Blanks DEF Fits, Aims, Bound
  <2>2. CASE tabs'[t] = tabs[t]
    BY <1>1, <1>2, <2>2, OthersFit DEF Logins, Tokens
  <2> QED BY <1>3, <2>1, <2>2
<1>5. TypeOK'
  BY <1>1, <1>2, <1>3, <1>4 DEF TypeOK, Tokens, Logins
<1>6. \A t \in Tabs : tabs'[t].pc \notin {"exchanging", "refreshing", "refreshed"}
  BY <1>3, Blanks
<1>7. LoginInv'
  BY <1>1, <1>2, <1>6 DEF LoginInv, OneSessionPerLogin, IsInjective
<1>8. \A k : Refreshing(k)' = {}
  BY <1>6 DEF Refreshing
<1>9. OutInv' /\ GrantInv'
  BY <1>2, <1>8 DEF OutInv, GrantInv
<1> QED BY <1>4, <1>5, <1>7, <1>9 DEF RequestsInv, GoalInv

(* What the part of a handler behind the gate does.                        *)
Answered(t, live) ==
  /\ sessions' = live
  /\ UNCHANGED <<world, now, events, up, made, pending, grant, out>>
  /\ jar' \in [token : Tokens \cup {None}, runtime : SUBSET Names]
  /\ tabs' \in [Tabs -> TabType] /\ \A u \in Tabs \ {t} : tabs'[u] = tabs[u]
  /\ tabs'[t].pc \in {"sending", "shown"}
  /\ Fits(t)' /\ Aims(t)'

LEMMA RespondFits ==
  ASSUME TypeOK, NEW t \in Tabs, NEW r \in Gets, NEW live, NEW k \in Tokens \cup {None},
         Bound(tabs[t].want) => Leads(tabs[t].want, r, world), Respond(t, r, live, k)
  PROVE  (Die({t}) /\ UNCHANGED events) \/ Answered(t, live)
<1>1. CASE r.project \in world.undecided /\ ~isGlobalMaintenanceActive(world)
  BY <1>1 DEF Respond
<1>2. CASE ~(r.project \in world.undecided /\ ~isGlobalMaintenanceActive(world))
  <2>1. PICK reply \in Replies(r, jar.runtime, world) :
          /\ sessions' = live
          /\ jar' = [token |-> k, runtime |-> jar.runtime \cup reply.keeps]
          /\ IF reply.to # None THEN Continue(t, reply.to) ELSE Show(t, reply)
          /\ UNCHANGED <<counters, up, made, pending, grant, out>>
    BY <1>2 DEF Respond
  <2>2. Routed(r, world, reply)
    BY RepliesFit DEF TypeOK
  <2>3. reply \in ReplyType /\ reply.keeps \subseteq Names /\ reply.to \in Gets \cup {None}
    BY <2>2 DEF Routed, ReplyType
  <2>4. jar' \in [token : Tokens \cup {None}, runtime : SUBSET Names]
    BY <2>1, <2>3 DEF TypeOK
  <2>5. tabs[t].want \in Gets \cup {Logout, None}
    BY DEF TypeOK, TabType
  <2>6. Bound(tabs[t].want) => IF reply.to # None THEN Leads(tabs[t].want, reply.to, world)
                               ELSE Promised(tabs[t].want, world, reply)
    <3>1. Bound(tabs[t].want) => tabs[t].want \in Gets
      BY <2>5 DEF Bound
    <3> QED BY <2>2, <3>1, LeadsOn DEF TypeOK
  <2>7. CASE reply.to # None
    <3>1. /\ reply.to \in RequestType /\ reply.to # None /\ reply.to.kind \in Resources
          /\ reply.to # Logout
      BY <2>3, <2>7, KindsDiffer DEF Resources
    <3>2. /\ tabs' \in [Tabs -> TabType] /\ \A u \in Tabs \ {t} : tabs'[u] = tabs[u]
          /\ tabs'[t].pc = "sending" /\ tabs'[t].want = tabs[t].want /\ tabs'[t].req = reply.to
          /\ tabs'[t].shown = None /\ tabs'[t].answer = None
      BY <2>1, <2>7, <3>1, ContinueFits DEF TypeOK
    <3>3. Fits(t)'
      BY <3>1, <3>2 DEF Fits, Resources
    <3>4. Aims(t)'
      BY <2>1, <2>6, <2>7, <3>1, <3>2 DEF Aims, Resources, counters
    <3> QED BY <2>1, <2>4, <3>2, <3>3, <3>4 DEF Answered, counters
  <2>8. CASE reply.to = None
    <3>1. /\ tabs' \in [Tabs -> TabType] /\ \A u \in Tabs \ {t} : tabs'[u] = tabs[u]
          /\ tabs'[t].pc = "shown" /\ tabs'[t].want = tabs[t].want /\ tabs'[t].req = None
          /\ tabs'[t].shown = reply /\ tabs'[t].answer = None
      BY <2>1, <2>3, <2>8, ShowFits DEF TypeOK
    <3>2. Fits(t)'
      BY <2>3, <3>1 DEF Fits
    <3>3. Aims(t)'
      BY <2>1, <2>6, <2>8, <3>1 DEF Aims, counters
    <3> QED BY <2>1, <2>4, <3>1, <3>2, <3>3 DEF Answered, counters
  <2> QED BY <2>7, <2>8
<1> QED BY <1>1, <1>2

LEMMA ToLoginFits ==
  ASSUME TypeOK, NEW t \in Tabs, NEW r \in Gets, NEW live,
         Bound(tabs[t].want) => Leads(tabs[t].want, r, world), ToLogin(t, r, live)
  PROVE  Answered(t, live) /\ tabs'[t].pc = "sending" /\ tabs'[t].req # Logout
<1>1. /\ sessions' = live /\ Continue(t, Start(r))
      /\ UNCHANGED <<world, now, events, up, made, pending, grant, jar, out>>
  BY DEF ToLogin, currentPath, counters
<1>2. PICK s \in RequestType : s = Start(r) /\ s.kind = "start" /\ s.next = r /\ s # None /\ s # Logout
  BY KindsDiffer, NamesDiffer
<1>3. /\ tabs' \in [Tabs -> TabType] /\ \A u \in Tabs \ {t} : tabs'[u] = tabs[u]
      /\ tabs'[t].pc = "sending" /\ tabs'[t].want = tabs[t].want /\ tabs'[t].req = s
      /\ tabs'[t].shown = None /\ tabs'[t].answer = None
  BY <1>1, <1>2, ContinueFits DEF TypeOK
<1>4. Fits(t)'
  BY <1>2, <1>3 DEF Fits
<1>5. Aims(t)'
  BY <1>1, <1>2, <1>3 DEF Aims, Resources
<1> QED BY <1>1, <1>2, <1>3, <1>4, <1>5 DEF Answered, TypeOK

LEMMA ExchangeKeeps == ASSUME RequestsInv, NEW t \in Tabs, Exchange(t) PROVE RequestsInv'
<1> DEFINE l == tabs[t].login
           k == Len(made) + 1
           s == renew(NewSession(l))
<1>1. TypeOK /\ LoginInv /\ OutInv /\ GrantInv /\ GoalInv
  BY DEF RequestsInv
<1>2. /\ UNCHANGED <<world, now, events, up, pending, grant, out>> /\ tabs[t].pc = "exchanging"
      /\ \/ /\ sessions' = put(sessions, k, s) /\ made' = Append(made, l)
            /\ jar' = [jar EXCEPT !.token = k] /\ Continue(t, tabs[t].req)
         \/ /\ \E reply \in NotLoggedIn : Show(t, reply)
            /\ UNCHANGED <<sessions, made, jar>>
  BY DEF Exchange, counters
<1>3. l \in Logins /\ l \in Nat /\ tabs[t].req \in Gets /\ Quiet(t)
  BY <1>1, <1>2 DEF TypeOK, Fits, Logins, Quiet
<1>4. CASE (\E reply \in NotLoggedIn : Show(t, reply)) /\ UNCHANGED <<sessions, made, jar>>
  <2> PICK reply \in NotLoggedIn : Show(t, reply)
    BY <1>4
  <2>1. /\ tabs' \in [Tabs -> TabType] /\ \A u \in Tabs \ {t} : tabs'[u] = tabs[u]
        /\ tabs'[t].pc = "shown" /\ tabs'[t].shown \in NotLoggedIn /\ tabs'[t].answer = None
    BY <1>1, ShowFits, DeniedFits DEF TypeOK
  <2>2. Fits(t)' /\ Aims(t)' /\ Quiet(t)'
    BY <2>1, DeniedFits DEF Fits, Aims, Quiet
  <2>3. Lives(sessions')
    BY <1>1, <1>4, SweepLives
  <2> QED BY <1>1, <1>2, <1>3, <1>4, <2>1, <2>2, <2>3, PassKeeps DEF TypeOK
<1>5. CASE /\ sessions' = put(sessions, k, s) /\ made' = Append(made, l)
           /\ jar' = [jar EXCEPT !.token = k] /\ Continue(t, tabs[t].req)
  <2>1. /\ made' \in Seq(Nat) /\ Tokens = 1 .. Len(made) /\ Tokens' = 1 .. k /\ k \in Nat
        /\ made'[k] = l /\ \A x \in Tokens : made'[x] = made[x]
    BY <1>1, <1>3, <1>5, AppendProperties DEF TypeOK, Tokens
  <2>2. k \notin Tokens /\ Tokens' = Tokens \cup {k}
    BY <2>1
  <2>3. /\ s \in SessionType /\ s.login = l /\ s.grant = grant[l] /\ s.expires = s.seen + Ttl
    <3>1. now \in Int /\ now + Ttl \in Int /\ grant[l] \in Nat /\ l \in Nat
      BY <1>1, <1>3, LivesAreNumbers DEF TypeOK, Logins
    <3>2. PICK fresh : fresh = NewSession(l)
      OBVIOUS
    <3> HIDE DEF l
    <3>3. /\ fresh \in [login : Nat, grant : Nat, issued : Int, seen : {None}, expires : {None}]
          /\ fresh.login = l /\ fresh.grant = grant[l]
      BY <3>1, <3>2 DEF NewSession
    <3>4. PICK new : new = [fresh EXCEPT !.seen = now, !.expires = now + Ttl]
      OBVIOUS
    <3>5. /\ new \in SessionType /\ new.login = l /\ new.grant = grant[l]
          /\ new.expires = new.seen + Ttl
      BY <3>1, <3>3, <3>4 DEF SessionType
    <3>6. s = new
      BY <3>2, <3>4 DEF renew
    <3> HIDE DEF s
    <3> QED BY <3>5, <3>6
  <2>4. /\ tabs' \in [Tabs -> TabType] /\ \A u \in Tabs \ {t} : tabs'[u] = tabs[u]
        /\ tabs'[t].pc = "sending" /\ tabs'[t].want = tabs[t].want /\ tabs'[t].req = tabs[t].req
        /\ tabs'[t].shown = None /\ tabs'[t].answer = None
    BY <1>1, <1>3, <1>5, ContinueFits, KindsDiffer DEF TypeOK
  <2>5. /\ tabs[t].req # None /\ tabs[t].req # Logout /\ tabs[t].req.kind \in Resources
    BY <1>3, KindsDiffer, NamesDiffer DEF RequestType, Resources
  <2>6. Bound(tabs[t].want) => Leads(tabs[t].want, tabs[t].req, world)
    BY <1>1, <1>2 DEF GoalInv, Aims
  <2> HIDE DEF k, l, s
  <2>7. /\ DOMAIN sessions' = DOMAIN sessions \cup {k} /\ sessions'[k] = s
        /\ \A x \in DOMAIN sessions \ {k} : sessions'[x] = sessions[x]
    <3>1. PICK new : new = sessions'
      OBVIOUS
    <3> QED BY <1>5, <3>1 DEF put
  <2>8. Fits(t)'
    BY <2>4, <2>5 DEF Fits, Resources
  <2>9. Aims(t)'
    BY <1>2, <2>4, <2>5, <2>6 DEF Aims, Resources
  <2>10. \A u \in Tabs : Fits(u)' /\ Aims(u)'
    BY <1>1, <1>2, <2>2, <2>4, <2>8, <2>9, OthersFit DEF Logins
  <2>11. TypeOK'
    <3>1. DOMAIN sessions' \subseteq Tokens' /\ \A x \in DOMAIN sessions' : sessions'[x] \in SessionType
      BY <1>1, <2>2, <2>3, <2>7 DEF TypeOK
    <3>2. jar' \in [token : Tokens' \cup {None}, runtime : SUBSET Names]
      BY <1>1, <1>5, <2>2 DEF TypeOK
    <3>3. \A x \in Tokens' : made'[x] \in Logins
      BY <1>1, <1>3, <2>1, <2>2 DEF TypeOK
    <3>4. out \subseteq Tokens'
      BY <1>1, <2>2 DEF TypeOK
    <3> QED BY <1>1, <1>2, <2>1, <2>4, <2>10, <3>1, <3>2, <3>3, <3>4 DEF TypeOK, Logins
  <2>12. l \notin DOMAIN pending /\ \A x \in Tokens : made[x] # l
    BY <1>1, <1>2 DEF LoginInv, l
  <2>13. LoginInv'
    <3>1. OneSessionPerLogin'
      <4>1. \A x \in Tokens' : \A y \in Tokens' : made'[x] = made'[y] => x = y
        BY <1>1, <2>1, <2>2, <2>12 DEF LoginInv, OneSessionPerLogin, IsInjective, Tokens
      <4> QED BY <4>1 DEF OneSessionPerLogin, IsInjective, Tokens
    <3>2. \A x \in Tokens' : made'[x] \notin DOMAIN pending
      BY <1>1, <2>1, <2>2, <2>12 DEF LoginInv
    <3>3. ASSUME NEW u \in Tabs, tabs'[u].pc = "exchanging"
          PROVE  /\ tabs'[u].login \notin DOMAIN pending
                 /\ \A x \in Tokens' : made'[x] # tabs'[u].login
                 /\ \A v \in Tabs \ {u} : tabs'[v].pc = "exchanging" => tabs'[v].login # tabs'[u].login
      <4>1. u # t /\ tabs'[u] = tabs[u]
        BY <2>4, <3>3
      <4>2. tabs[u].login # l
        BY <1>1, <1>2, <3>3, <4>1 DEF LoginInv, l
      <4>3. /\ tabs[u].login \notin DOMAIN pending /\ \A x \in Tokens : made[x] # tabs[u].login
            /\ \A v \in Tabs \ {u} : tabs[v].pc = "exchanging" => tabs[v].login # tabs[u].login
        BY <1>1, <3>3, <4>1 DEF LoginInv
      <4>4. \A x \in Tokens' : made'[x] # tabs[u].login
        BY <2>1, <2>2, <4>2, <4>3
      <4>5. \A v \in Tabs \ {u} : tabs'[v].pc = "exchanging" => tabs'[v].login # tabs[u].login
        BY <2>4, <4>3
      <4> QED BY <4>1, <4>3, <4>4, <4>5
    <3> QED BY <1>2, <3>1, <3>2, <3>3 DEF LoginInv
  <2>14. \A x : Refreshing(x)' = Refreshing(x)
    BY <1>2, <2>4 DEF Refreshing
  <2>15. Refreshing(k) = {} /\ \A x \in Tokens : \A u \in Refreshing(x) : tabs'[u] = tabs[u]
    BY <1>1, <1>2, <2>2, <2>4 DEF Refreshing, TypeOK, Fits
  <2>16. OutInv'
    BY <1>1, <1>2, <2>2, <2>7, <2>14 DEF OutInv, TypeOK
  <2>17. GrantInv'
    <3>1. \A x \in DOMAIN sessions' :
            /\ sessions'[x].login = made'[x] /\ sessions'[x].expires = sessions'[x].seen + Ttl
            /\ sessions'[x].grant <= grant[made'[x]]
            /\ Refreshing(x) = {} => sessions'[x].grant = grant[made'[x]]
      <4>1. /\ sessions'[k].login = made'[k] /\ sessions'[k].expires = sessions'[k].seen + Ttl
            /\ sessions'[k].grant = grant[made'[k]] /\ grant[made'[k]] \in Nat
        BY <1>1, <1>3, <2>1, <2>3, <2>7 DEF TypeOK, Logins
      <4>2. \A x \in DOMAIN sessions : x # k /\ sessions'[x] = sessions[x] /\ made'[x] = made[x]
        BY <1>1, <2>1, <2>2, <2>7 DEF TypeOK
      <4> QED BY <1>1, <2>7, <4>1, <4>2 DEF GrantInv
    <3>2. \A x \in Tokens : \A u \in Refreshing(x) :
            /\ tabs'[u].session.login = made'[x]
            /\ tabs'[u].session.grant <= grant[made'[x]]
            /\ tabs'[u].alone => /\ Refreshing(x) = {u}
                                 /\ tabs'[u].pc = "refreshing" => tabs'[u].session.grant = grant[made'[x]]
                                 /\ tabs'[u].answer # "used"
            /\ tabs'[u].answer = "new" =>
                 /\ tabs'[u].session.grant + 1 = grant[made'[x]]
                 /\ x \in DOMAIN sessions' => sessions'[x].grant < grant[made'[x]]
                 /\ \A v \in Refreshing(x) : /\ tabs'[v].session.grant < grant[made'[x]]
                                             /\ tabs'[v].answer = "new" => v = u
      <4> TAKE x \in Tokens
      <4> TAKE u \in Refreshing(x)
      <4>1. made'[x] = made[x] /\ tabs'[u] = tabs[u] /\ \A v \in Refreshing(x) : tabs'[v] = tabs[v]
        BY <2>1, <2>15
      <4>2. x \in DOMAIN sessions' => x \in DOMAIN sessions /\ sessions'[x] = sessions[x]
        BY <2>2, <2>7
      <4> QED BY <1>1, <4>1, <4>2 DEF GrantInv
    <3> QED BY <1>2, <2>2, <2>14, <2>15, <3>1, <3>2 DEF GrantInv
  <2> QED BY <2>10, <2>11, <2>13, <2>16, <2>17 DEF RequestsInv, GoalInv
<1> QED BY <1>2, <1>4, <1>5

LEMMA AnsweredKeeps ==
  ASSUME RequestsInv, NEW t \in Tabs, Quiet(t), NEW live, Lives(live), Answered(t, live)
  PROVE  RequestsInv'
BY PassKeeps DEF Answered, Quiet, RequestsInv, TypeOK

(* A refresh that starts.                                                  *)
Starts(t, k, live) ==
  /\ sessions' = live
  /\ tabs' = [u \in Tabs |->
       IF u = t THEN [tabs[t] EXCEPT !.pc = "refreshing", !.token = k, !.session = sweep[k],
                                     !.alone = Refreshing(k) = {}]
       ELSE IF u \in Refreshing(k) THEN [tabs[u] EXCEPT !.alone = FALSE] ELSE tabs[u]]
  /\ UNCHANGED <<world, now, events, up, made, pending, grant, jar, out>>

LEMMA StartsFits ==
  ASSUME TypeOK, NEW t \in Tabs, tabs[t].pc = "sending", NEW k \in Tokens, NEW live,
         sweep[k] \in SessionType, Starts(t, k, live)
  PROVE  /\ tabs' \in [Tabs -> TabType]
         /\ tabs'[t].pc = "refreshing" /\ tabs'[t].token = k /\ tabs'[t].session = sweep[k]
         /\ tabs'[t].alone = (Refreshing(k) = {}) /\ tabs'[t].want = tabs[t].want
         /\ tabs'[t].req = tabs[t].req /\ tabs'[t].answer = tabs[t].answer /\ tabs'[t].shown = tabs[t].shown
         /\ \A u \in Tabs \ {t} :
              /\ tabs'[u].pc = tabs[u].pc /\ tabs'[u].want = tabs[u].want /\ tabs'[u].req = tabs[u].req
              /\ tabs'[u].login = tabs[u].login /\ tabs'[u].token = tabs[u].token
              /\ tabs'[u].session = tabs[u].session /\ tabs'[u].answer = tabs[u].answer
              /\ tabs'[u].shown = tabs[u].shown
              /\ u \in Refreshing(k) => ~tabs'[u].alone
              /\ u \notin Refreshing(k) => tabs'[u] = tabs[u]
<1>1. k \in Nat \cup {None} /\ \A u \in Tabs : tabs[u] \in TabType
  BY DEF TypeOK, Tokens
<1>2. ASSUME NEW u \in Tabs, u # t
      PROVE  /\ tabs'[u] \in TabType
             /\ tabs'[u].pc = tabs[u].pc /\ tabs'[u].want = tabs[u].want /\ tabs'[u].req = tabs[u].req
             /\ tabs'[u].login = tabs[u].login /\ tabs'[u].token = tabs[u].token
             /\ tabs'[u].session = tabs[u].session /\ tabs'[u].answer = tabs[u].answer
             /\ tabs'[u].shown = tabs[u].shown
             /\ u \in Refreshing(k) => ~tabs'[u].alone
             /\ u \notin Refreshing(k) => tabs'[u] = tabs[u]
  <2>1. PICK old, new : old = tabs[u] /\ new = [old EXCEPT !.alone = FALSE]
    OBVIOUS
  <2>2. old \in TabType
    BY <1>1, <2>1
  <2>3. /\ new \in TabType /\ ~new.alone
        /\ new.pc = old.pc /\ new.want = old.want /\ new.req = old.req /\ new.login = old.login
        /\ new.token = old.token /\ new.session = old.session /\ new.answer = old.answer
        /\ new.shown = old.shown
    BY <2>1, <2>2 DEF TabType
  <2>4. tabs'[u] = IF u \in Refreshing(k) THEN new ELSE old
    BY <1>2, <2>1 DEF Starts
  <2> QED BY <2>1, <2>2, <2>3, <2>4
<1>3. /\ tabs'[t] \in TabType
      /\ tabs'[t].pc = "refreshing" /\ tabs'[t].token = k /\ tabs'[t].session = sweep[k]
      /\ tabs'[t].alone = (Refreshing(k) = {}) /\ tabs'[t].want = tabs[t].want
      /\ tabs'[t].req = tabs[t].req /\ tabs'[t].answer = tabs[t].answer /\ tabs'[t].shown = tabs[t].shown
  <2>1. PICK old, s, alone : old = tabs[t] /\ s = sweep[k] /\ alone = (Refreshing(k) = {})
    OBVIOUS
  <2>2. PICK new : new = [old EXCEPT !.pc = "refreshing", !.token = k, !.session = s, !.alone = alone]
    OBVIOUS
  <2>3. old \in TabType /\ s \in SessionType /\ alone \in BOOLEAN
    BY <1>1, <2>1
  <2>4. /\ new \in TabType /\ new.pc = "refreshing" /\ new.token = k /\ new.session = s
        /\ new.alone = alone /\ new.want = old.want /\ new.req = old.req /\ new.answer = old.answer
        /\ new.shown = old.shown
    BY <1>1, <2>2, <2>3 DEF TabType
  <2>5. tabs'[t] = new
    BY <2>1, <2>2 DEF Starts
  <2> QED BY <2>1, <2>4, <2>5
<1>4. tabs' \in [Tabs -> TabType]
  <2>1. tabs' = [u \in Tabs |-> tabs'[u]]
    BY DEF Starts
  <2> QED BY <1>2, <1>3, <2>1
<1> QED BY <1>2, <1>3, <1>4

LEMMA StartsKeeps ==
  ASSUME RequestsInv, NEW t \in Tabs, tabs[t].pc = "sending", tabs[t].answer = None,
         tabs[t].req \in Gets, NEW k \in DOMAIN sweep, NEW live, Lives(live), k \in DOMAIN live,
         Starts(t, k, live)
  PROVE  RequestsInv'
<1>1. TypeOK /\ LoginInv /\ OutInv /\ GrantInv /\ GoalInv
  BY DEF RequestsInv
<1>2. /\ sessions' = live /\ UNCHANGED <<world, now, events, up, made, pending, grant, jar, out>>
  BY DEF Starts
<1>3. k \in Tokens /\ k \in DOMAIN sessions /\ sweep[k] = sessions[k] /\ sweep[k] \in SessionType
  BY <1>1, SweepHas DEF TypeOK
<1>4. /\ tabs' \in [Tabs -> TabType]
      /\ tabs'[t].pc = "refreshing" /\ tabs'[t].token = k /\ tabs'[t].session = sweep[k]
      /\ tabs'[t].alone = (Refreshing(k) = {}) /\ tabs'[t].want = tabs[t].want
      /\ tabs'[t].req = tabs[t].req /\ tabs'[t].answer = tabs[t].answer /\ tabs'[t].shown = tabs[t].shown
  BY <1>1, <1>3, StartsFits
<1>5. \A u \in Tabs \ {t} :
        /\ tabs'[u].pc = tabs[u].pc /\ tabs'[u].want = tabs[u].want /\ tabs'[u].req = tabs[u].req
        /\ tabs'[u].login = tabs[u].login /\ tabs'[u].token = tabs[u].token
        /\ tabs'[u].session = tabs[u].session /\ tabs'[u].answer = tabs[u].answer
        /\ tabs'[u].shown = tabs[u].shown
        /\ u \in Refreshing(k) => ~tabs'[u].alone
        /\ u \notin Refreshing(k) => tabs'[u] = tabs[u]
  BY <1>1, <1>3, StartsFits
<1>6. ASSUME NEW u \in Tabs PROVE Fits(u)' /\ Aims(u)'
  <2>1. Fits(u) /\ Aims(u)
    BY <1>1 DEF TypeOK, GoalInv
  <2>2. CASE u = t
    <3>1. Fits(t)'
      BY <1>2, <1>3, <1>4, <2>1, <2>2 DEF Fits, Tokens
    <3>2. tabs[t].req.kind \in Resources
      BY KindsDiffer
    <3>3. Aims(t)'
      BY <1>2, <1>4, <2>1, <2>2, <3>2 DEF Aims
    <3> QED BY <2>2, <3>1, <3>3
  <2>3. CASE u # t
    <3>1. Fits(u)'
      BY <1>2, <1>5, <2>1, <2>3 DEF Fits, Tokens, Logins
    <3>2. Aims(u)'
      BY <1>2, <1>5, <2>1, <2>3 DEF Aims
    <3> QED BY <3>1, <3>2
  <2> QED BY <2>2, <2>3
<1>7. TypeOK'
  <2>1. DOMAIN sessions' \subseteq Tokens /\ \A x \in DOMAIN sessions' : sessions'[x] \in SessionType
    BY <1>1, <1>2 DEF TypeOK, Lives
  <2> QED BY <1>1, <1>2, <1>4, <1>6, <2>1 DEF TypeOK, Tokens, Logins
<1>8. LoginInv'
  <2>1. OneSessionPerLogin'
    BY <1>1, <1>2 DEF LoginInv, OneSessionPerLogin, IsInjective
  <2>2. \A x \in Tokens : made[x] \notin DOMAIN pending
    BY <1>1 DEF LoginInv
  <2>3. ASSUME NEW u \in Tabs, tabs'[u].pc = "exchanging"
        PROVE  /\ tabs'[u].login \notin DOMAIN pending
               /\ \A x \in Tokens : made[x] # tabs'[u].login
               /\ \A v \in Tabs \ {u} : tabs'[v].pc = "exchanging" => tabs'[v].login # tabs'[u].login
    <3>1. u # t /\ tabs[u].pc = "exchanging" /\ tabs'[u].login = tabs[u].login
      BY <1>4, <1>5, <2>3
    <3> QED BY <1>1, <1>4, <1>5, <3>1 DEF LoginInv
  <2> QED BY <1>2, <2>1, <2>2, <2>3 DEF LoginInv, Tokens
<1>9. /\ Refreshing(k)' = Refreshing(k) \cup {t} /\ t \notin Refreshing(k)
      /\ \A x : x # k => Refreshing(x)' = Refreshing(x)
      /\ \A x : Refreshing(x) \subseteq Tabs \ {t}
  BY <1>4, <1>5 DEF Refreshing
<1>10. OutInv'
  BY <1>1, <1>2, <1>3, <1>9 DEF OutInv, Lives
<1>11. GrantInv'
  <2>1. \A x \in DOMAIN sessions' :
          /\ sessions'[x].login = made[x] /\ sessions'[x].expires = sessions'[x].seen + Ttl
          /\ sessions'[x].grant <= grant[made[x]]
          /\ Refreshing(x)' = {} => sessions'[x].grant = grant[made[x]]
    BY <1>1, <1>2, <1>9 DEF GrantInv, Lives
  <2>2. /\ sweep[k].login = made[k] /\ sweep[k].grant <= grant[made[k]]
        /\ Refreshing(k) = {} => sweep[k].grant = grant[made[k]]
    BY <1>1, <1>3 DEF GrantInv
  <2>3. ASSUME NEW x \in Tokens, NEW u \in Refreshing(x)'
        PROVE  /\ tabs'[u].session.login = made[x]
               /\ tabs'[u].session.grant <= grant[made[x]]
               /\ tabs'[u].alone =>
                    /\ Refreshing(x)' = {u}
                    /\ tabs'[u].pc = "refreshing" => tabs'[u].session.grant = grant[made[x]]
                    /\ tabs'[u].answer # "used"
               /\ tabs'[u].answer = "new" =>
                    /\ tabs'[u].session.grant + 1 = grant[made[x]]
                    /\ x \in DOMAIN sessions' => sessions'[x].grant < grant[made[x]]
                    /\ \A v \in Refreshing(x)' : /\ tabs'[v].session.grant < grant[made[x]]
                                                 /\ tabs'[v].answer = "new" => v = u
    <3>1. CASE u = t
      <4>1. x = k
        BY <1>4, <3>1 DEF Refreshing
      <4>2. tabs'[u].answer = None /\ None # "new" /\ None # "used"
        BY <1>4, <3>1, NamesDiffer
      <4> QED BY <1>4, <1>9, <2>2, <3>1, <4>1, <4>2
    <3>2. CASE u # t
      <4>1. /\ u \in Refreshing(x) /\ u \in Tabs \ {t}
            /\ tabs'[u].session = tabs[u].session /\ tabs'[u].answer = tabs[u].answer
            /\ tabs'[u].pc = tabs[u].pc
        BY <1>5, <1>9, <2>3, <3>2
      <4>2. tabs'[u].alone => tabs'[u] = tabs[u] /\ x # k /\ Refreshing(x)' = Refreshing(x)
        BY <1>5, <1>9, <4>1
      <4>3. /\ tabs[u].session.login = made[x] /\ tabs[u].session.grant <= grant[made[x]]
            /\ tabs[u].alone =>
                 /\ Refreshing(x) = {u}
                 /\ tabs[u].pc = "refreshing" => tabs[u].session.grant = grant[made[x]]
                 /\ tabs[u].answer # "used"
        BY <1>1, <4>1 DEF GrantInv
      <4>4. ASSUME tabs[u].answer = "new"
            PROVE  /\ tabs[u].session.grant + 1 = grant[made[x]]
                   /\ x \in DOMAIN sessions => sessions[x].grant < grant[made[x]]
                   /\ \A v \in Refreshing(x) : /\ tabs[v].session.grant < grant[made[x]]
                                               /\ tabs[v].answer = "new" => v = u
        BY <1>1, <4>1, <4>4 DEF GrantInv
      <4>5. x \in DOMAIN sessions' => x \in DOMAIN sessions /\ sessions'[x].grant = sessions[x].grant
        BY <1>2 DEF Lives
      <4>6. ASSUME tabs[u].answer = "new", NEW v \in Refreshing(x)'
            PROVE  tabs'[v].session.grant < grant[made[x]] /\ (tabs'[v].answer = "new" => v = u)
        <5>1. CASE v = t
          <6>1. x = k
            BY <1>4, <5>1 DEF Refreshing
          <6> QED BY <1>3, <1>4, <4>4, <4>6, <5>1, <6>1, NamesDiffer
        <5>2. CASE v # t
          <6>1. v \in Refreshing(x) /\ v \in Tabs \ {t}
            BY <1>9, <4>6, <5>2
          <6> QED BY <1>5, <4>4, <4>6, <6>1
        <5> QED BY <5>1, <5>2
      <4> QED BY <4>1, <4>2, <4>3, <4>4, <4>5, <4>6
    <3> QED BY <3>1, <3>2
  <2> QED BY <1>2, <2>1, <2>3 DEF GrantInv, Tokens
<1> QED BY <1>6, <1>7, <1>8, <1>10, <1>11 DEF RequestsInv, GoalInv

(* What the gate does with a request.                                      *)
LEMMA GateDoes ==
  ASSUME RequestsInv, NEW t \in Tabs, Gate(t)
  PROVE  /\ Quiet(t) /\ tabs[t].pc = "sending" /\ tabs[t].answer = None /\ tabs[t].req \in Gets
         /\ \/ Die({t}) /\ UNCHANGED events
            \/ \E live : /\ Answered(t, live) /\ Lives(live)
                         /\ world.offline => DOMAIN sweep \subseteq DOMAIN live
            \/ \E k \in DOMAIN sweep : \E live : /\ Starts(t, k, live) /\ Lives(live)
                                                 /\ DOMAIN sweep \subseteq DOMAIN live
<1> DEFINE r == tabs[t].req
           k == jar.token
<1>1. TypeOK /\ GrantInv /\ GoalInv
  BY DEF RequestsInv
<1>2. /\ Sent(t, {"page", "deep", "asset", "data", "search"})
      /\ IF ~world.auth THEN Respond(t, r, sweep, None)
         ELSE IF k \notin DOMAIN sweep THEN ToLogin(t, r, sweep)
         ELSE IF ~isStale(sweep[k]) THEN Respond(t, r, replace(sweep, k, sweep[k]), k)
         ELSE IF ~world.offline THEN ToLogin(t, r, delete(sweep, k))
         ELSE Starts(t, k, put(sweep, k, renew(sweep[k])))
  BY Zenon DEF Gate, Starts, counters
<1>3. /\ Quiet(t) /\ tabs[t].pc = "sending" /\ tabs[t].answer = None /\ r \in Gets
      /\ r.kind \in Resources
  BY <1>1, <1>2, SentFits, KindsDiffer DEF Resources
<1>4. /\ Bound(tabs[t].want) => Leads(tabs[t].want, r, world)
      /\ k \in Tokens \cup {None} /\ None \in Tokens \cup {None}
  BY <1>1, <1>3 DEF GoalInv, Aims, TypeOK
<1>5. /\ Lives(sweep) /\ Lives(delete(sweep, k))
      /\ k \in DOMAIN sweep => Lives(replace(sweep, k, sweep[k]))
  BY <1>1, SweepLives
<1>6. k \in DOMAIN sweep => /\ DOMAIN sweep \subseteq DOMAIN replace(sweep, k, sweep[k])
                            /\ replace(sweep, k, sweep[k]) = put(sweep, k, renew(sweep[k]))
  <2>1. PICK s, live : s = renew(sweep[k]) /\ live = put(sweep, k, s)
    OBVIOUS
  <2>2. DOMAIN live = DOMAIN sweep \cup {k}
    BY <2>1, PutHas
  <2>3. live = replace(sweep, k, sweep[k])
    BY <2>1 DEF replace
  <2> QED BY <2>1, <2>2, <2>3
<1> HIDE DEF r, k
<1>7. CASE ~world.auth
  <2>1. Respond(t, r, sweep, None)
    BY <1>2, <1>7
  <2>2. (Die({t}) /\ UNCHANGED events) \/ Answered(t, sweep)
    BY <1>1, <1>3, <1>4, <2>1, RespondFits
  <2> QED BY <1>3, <1>5, <2>2 DEF r
<1>8. CASE world.auth /\ k \notin DOMAIN sweep
  <2>1. ToLogin(t, r, sweep)
    BY <1>2, <1>8
  <2>2. Answered(t, sweep)
    BY <1>1, <1>3, <1>4, <2>1, ToLoginFits
  <2> QED BY <1>3, <1>5, <2>2 DEF r
<1>9. CASE world.auth /\ k \in DOMAIN sweep /\ ~isStale(sweep[k])
  <2>1. Respond(t, r, replace(sweep, k, sweep[k]), k)
    BY <1>2, <1>9
  <2>2. (Die({t}) /\ UNCHANGED events) \/ Answered(t, replace(sweep, k, sweep[k]))
    BY <1>1, <1>3, <1>4, <2>1, RespondFits
  <2> QED BY <1>3, <1>5, <1>6, <1>9, <2>2 DEF r
<1>10. CASE world.auth /\ k \in DOMAIN sweep /\ isStale(sweep[k]) /\ ~world.offline
  <2>1. ToLogin(t, r, delete(sweep, k))
    BY <1>2, <1>10
  <2>2. Answered(t, delete(sweep, k))
    BY <1>1, <1>3, <1>4, <2>1, ToLoginFits
  <2> QED BY <1>3, <1>5, <1>10, <2>2 DEF r
<1>11. CASE world.auth /\ k \in DOMAIN sweep /\ isStale(sweep[k]) /\ world.offline
  <2>1. Starts(t, k, replace(sweep, k, sweep[k]))
    BY <1>2, <1>6, <1>11
  <2> QED BY <1>3, <1>5, <1>6, <1>11, <2>1 DEF r
<1> QED BY <1>7, <1>8, <1>9, <1>10, <1>11

LEMMA GateKeeps == ASSUME RequestsInv, NEW t \in Tabs, Gate(t) PROVE RequestsInv'
<1>1. Quiet(t) /\ tabs[t].pc = "sending" /\ tabs[t].answer = None /\ tabs[t].req \in Gets
  BY GateDoes
<1>2. CASE Die({t}) /\ UNCHANGED events
  <2>1. events' \in Nat
    BY <1>2 DEF RequestsInv, TypeOK
  <2> QED BY <1>2, <2>1, DieKeeps
<1>3. CASE \E live : Answered(t, live) /\ Lives(live)
  BY <1>1, <1>3, AnsweredKeeps
<1>4. CASE \E k \in DOMAIN sweep : \E live : /\ Starts(t, k, live) /\ Lives(live)
                                             /\ DOMAIN sweep \subseteq DOMAIN live
  <2>1. PICK k \in DOMAIN sweep : \E live : /\ Starts(t, k, live) /\ Lives(live)
                                            /\ DOMAIN sweep \subseteq DOMAIN live
    BY <1>4
  <2>2. PICK live : Starts(t, k, live) /\ Lives(live) /\ k \in DOMAIN live
    BY <2>1
  <2> QED BY <1>1, <2>1, <2>2, StartsKeeps
<1> QED BY <1>2, <1>3, <1>4, GateDoes

(* The provider's answer: its effect on the tab, and on the refresh token  *)
(* that it expects next.                                                   *)
LEMMA ProviderDoes ==
  ASSUME RequestsInv, NEW t \in Tabs, ProviderRefreshes(t)
  PROVE  LET l == tabs[t].session.login
         IN  /\ UNCHANGED <<world, now, events, up, sessions, made, pending, jar, out>>
             /\ tabs[t].pc = "refreshing" /\ tabs' \in [Tabs -> TabType]
             /\ tabs'[t].pc = "refreshed" /\ tabs'[t].answer \in {"new", "down", "used"}
             /\ tabs'[t].want = tabs[t].want /\ tabs'[t].req = tabs[t].req
             /\ tabs'[t].token = tabs[t].token /\ tabs'[t].session = tabs[t].session
             /\ tabs'[t].alone = tabs[t].alone /\ tabs'[t].shown = tabs[t].shown
             /\ \A u \in Tabs \ {t} : tabs'[u] = tabs[u]
             /\ l \in Logins /\ l = made[tabs[t].token] /\ tabs[t].token \in Tokens
             /\ \/ /\ tabs[t].session.grant = grant[l] /\ grant' = [grant EXCEPT ![l] = grant[l] + 1]
                   /\ tabs'[t].answer # "used"
                \/ /\ UNCHANGED grant /\ tabs'[t].answer # "new"
                   /\ tabs'[t].answer = "used" => tabs[t].session.grant # grant[l]
<1> DEFINE l == tabs[t].session.login
<1>1. TypeOK /\ GrantInv
  BY DEF RequestsInv
<1>2. /\ tabs[t].pc = "refreshing" /\ UNCHANGED <<world, now, events, up, sessions, made, pending, jar, out>>
      /\ \/ /\ tabs[t].session.grant = grant[l] /\ grant' = [grant EXCEPT ![l] = @ + 1]
            /\ \E a \in {"new", "down"} : tabs' = [tabs EXCEPT ![t].pc = "refreshed", ![t].answer = a]
         \/ /\ \E a \in IF tabs[t].session.grant = grant[l] THEN {"down"} ELSE {"down", "used"} :
                  tabs' = [tabs EXCEPT ![t].pc = "refreshed", ![t].answer = a]
            /\ UNCHANGED grant
  BY DEF ProviderRefreshes, counters, server
<1>3. tabs[t].token \in Tokens /\ l = made[tabs[t].token] /\ l \in Logins
  <2>1. tabs[t].token \in Tokens /\ t \in Refreshing(tabs[t].token)
    BY <1>1, <1>2 DEF TypeOK, Fits, Refreshing
  <2> QED BY <1>1, <2>1 DEF GrantInv, TypeOK
<1>4. ASSUME NEW a \in {"new", "down", "used"},
             tabs' = [tabs EXCEPT ![t].pc = "refreshed", ![t].answer = a]
      PROVE  /\ tabs' \in [Tabs -> TabType] /\ tabs'[t].pc = "refreshed" /\ tabs'[t].answer = a
             /\ tabs'[t].want = tabs[t].want /\ tabs'[t].req = tabs[t].req
             /\ tabs'[t].token = tabs[t].token /\ tabs'[t].session = tabs[t].session
             /\ tabs'[t].alone = tabs[t].alone /\ tabs'[t].shown = tabs[t].shown
             /\ \A u \in Tabs \ {t} : tabs'[u] = tabs[u]
  <2>1. PICK old, new : old = tabs[t] /\ new = [old EXCEPT !.pc = "refreshed", !.answer = a]
    OBVIOUS
  <2>2. old \in TabType
    BY <1>1, <2>1 DEF TypeOK
  <2>3. /\ new \in TabType /\ new.pc = "refreshed" /\ new.answer = a
        /\ new.want = old.want /\ new.req = old.req /\ new.token = old.token
        /\ new.session = old.session /\ new.alone = old.alone /\ new.shown = old.shown
    BY <2>1, <2>2 DEF TabType
  <2>4. tabs' = [tabs EXCEPT ![t] = new]
    BY <1>1, <1>4, <2>1, <2>2 DEF TypeOK, TabType
  <2> QED BY <1>1, <2>1, <2>3, <2>4 DEF TypeOK
<1> HIDE DEF l
<1>5. CASE /\ tabs[t].session.grant = grant[l] /\ grant' = [grant EXCEPT ![l] = @ + 1]
           /\ \E a \in {"new", "down"} : tabs' = [tabs EXCEPT ![t].pc = "refreshed", ![t].answer = a]
  <2>1. PICK a \in {"new", "down"} : tabs' = [tabs EXCEPT ![t].pc = "refreshed", ![t].answer = a]
    BY <1>5
  <2> QED BY <1>2, <1>3, <1>4, <1>5, <2>1 DEF l
<1>6. CASE /\ \E a \in IF tabs[t].session.grant = grant[l] THEN {"down"} ELSE {"down", "used"} :
                  tabs' = [tabs EXCEPT ![t].pc = "refreshed", ![t].answer = a]
           /\ UNCHANGED grant
  <2>1. PICK a \in IF tabs[t].session.grant = grant[l] THEN {"down"} ELSE {"down", "used"} :
               tabs' = [tabs EXCEPT ![t].pc = "refreshed", ![t].answer = a]
    BY <1>6
  <2>2. a \in {"down", "used"} /\ (a = "used" => tabs[t].session.grant # grant[l])
    BY <2>1
  <2> QED BY <1>2, <1>3, <1>4, <1>6, <2>1, <2>2 DEF l
<1> QED BY <1>2, <1>5, <1>6

LEMMA ProviderKeeps == ASSUME RequestsInv, NEW t \in Tabs, ProviderRefreshes(t) PROVE RequestsInv'
<1> DEFINE l == tabs[t].session.login
           k == tabs[t].token
<1>1. TypeOK /\ LoginInv /\ OutInv /\ GrantInv /\ GoalInv
  BY DEF RequestsInv
<1>2. /\ UNCHANGED <<world, now, events, up, sessions, made, pending, jar, out>>
      /\ tabs[t].pc = "refreshing" /\ tabs' \in [Tabs -> TabType]
      /\ tabs'[t].pc = "refreshed" /\ tabs'[t].answer \in {"new", "down", "used"}
      /\ tabs'[t].want = tabs[t].want /\ tabs'[t].req = tabs[t].req
      /\ tabs'[t].token = tabs[t].token /\ tabs'[t].session = tabs[t].session
      /\ tabs'[t].alone = tabs[t].alone /\ tabs'[t].shown = tabs[t].shown
      /\ \A u \in Tabs \ {t} : tabs'[u] = tabs[u]
  BY ProviderDoes
<1>3. l \in Logins /\ l = made[k] /\ k \in Tokens
  BY ProviderDoes
<1>4. \/ /\ tabs[t].session.grant = grant[l] /\ grant' = [grant EXCEPT ![l] = grant[l] + 1]
         /\ tabs'[t].answer # "used"
      \/ /\ UNCHANGED grant /\ tabs'[t].answer # "new"
         /\ tabs'[t].answer = "used" => tabs[t].session.grant # grant[l]
  BY ProviderDoes
<1> HIDE DEF l, k
<1>5. /\ grant' \in Seq(Nat) /\ Logins' = Logins /\ grant[l] \in Nat
      /\ \A x \in Logins : x # l => grant'[x] = grant[x]
      /\ grant'[l] \in {grant[l], grant[l] + 1}
  <2>1. grant \in Seq(Nat) /\ grant[l] \in Nat
    BY <1>1, <1>3 DEF TypeOK, Logins
  <2>2. CASE UNCHANGED grant
    BY <2>1, <2>2 DEF Logins
  <2>3. CASE grant' = [grant EXCEPT ![l] = grant[l] + 1]
    BY <1>3, <2>1, <2>3, ExceptSeq DEF Logins
  <2> QED BY <1>4, <2>2, <2>3
<1>6. ASSUME NEW u \in Tabs PROVE Fits(u)' /\ Aims(u)'
  <2>1. Fits(u) /\ Aims(u)
    BY <1>1 DEF TypeOK, GoalInv
  <2>2. CASE u = t
    <3>1. Fits(t)'
      BY <1>2, <2>1, <2>2, NamesDiffer DEF Fits, Tokens
    <3>2. Aims(t)'
      BY <1>2, <2>1, <2>2 DEF Aims
    <3> QED BY <2>2, <3>1, <3>2
  <2>3. CASE u # t
    BY <1>1, <1>2, <1>5, <2>3, OthersFit DEF Tokens
  <2> QED BY <2>2, <2>3
<1>7. TypeOK'
  BY <1>1, <1>2, <1>5, <1>6 DEF TypeOK, Tokens
<1>8. LoginInv'
  <2>1. OneSessionPerLogin'
    BY <1>1, <1>2 DEF LoginInv, OneSessionPerLogin, IsInjective
  <2>2. \A x \in Tokens : made[x] \notin DOMAIN pending
    BY <1>1 DEF LoginInv
  <2>3. ASSUME NEW u \in Tabs, tabs'[u].pc = "exchanging"
        PROVE  /\ tabs'[u].login \notin DOMAIN pending
               /\ \A x \in Tokens : made[x] # tabs'[u].login
               /\ \A v \in Tabs \ {u} : tabs'[v].pc = "exchanging" => tabs'[v].login # tabs'[u].login
    <3>1. u # t /\ tabs'[u] = tabs[u]
      BY <1>2, <2>3
    <3> QED BY <1>1, <1>2, <2>3, <3>1 DEF LoginInv
  <2> QED BY <1>2, <2>1, <2>2, <2>3 DEF LoginInv, Tokens
<1>9. /\ \A x : Refreshing(x)' = Refreshing(x) 
      /\ t \in Refreshing(k) /\ \A x : x # k => t \notin Refreshing(x)
      /\ \A x : Refreshing(x) \subseteq Tabs
  BY <1>2 DEF Refreshing, k
<1>10. OutInv'
  BY <1>1, <1>2, <1>9 DEF OutInv
<1>11. GrantInv'
  <2>1. \A x \in Tokens : x # k => made[x] # l
    BY <1>1, <1>3 DEF LoginInv, OneSessionPerLogin, IsInjective, Tokens
  <2>2. \A x \in Tokens : /\ made[x] \in Logins /\ grant[made[x]] \in Nat /\ grant'[made[x]] \in Nat
                          /\ x # k => grant'[made[x]] = grant[made[x]]
                          /\ grant[made[x]] <= grant'[made[x]]
    <3> TAKE x \in Tokens
    <3>1. made[x] \in Logins /\ grant[made[x]] \in Nat /\ grant'[made[x]] \in Nat
      <4>1. grant \in Seq(Nat) /\ made[x] \in Logins
        BY <1>1 DEF TypeOK
      <4>2. made[x] \in DOMAIN grant /\ made[x] \in DOMAIN grant'
        BY <1>5, <4>1 DEF Logins
      <4> QED BY <1>5, <4>1, <4>2, SMTT(30)
    <3>2. x # k => grant'[made[x]] = grant[made[x]]
      BY <1>5, <2>1, <3>1
    <3>3. grant[made[x]] <= grant'[made[x]]
      BY <1>3, <1>5, <3>1, <3>2
    <3> QED BY <3>1, <3>2, <3>3
  <2>3. ASSUME NEW x \in DOMAIN sessions
        PROVE  /\ sessions[x].login = made[x] /\ sessions[x].expires = sessions[x].seen + Ttl
               /\ sessions[x].grant <= grant'[made[x]]
               /\ Refreshing(x) = {} => sessions[x].grant = grant'[made[x]]
    <3>1. x \in Tokens /\ sessions[x].grant \in Nat
      BY <1>1 DEF TypeOK, SessionType
    <3>2. /\ sessions[x].login = made[x] /\ sessions[x].expires = sessions[x].seen + Ttl
          /\ sessions[x].grant <= grant[made[x]]
          /\ Refreshing(x) = {} => sessions[x].grant = grant[made[x]]
      BY <1>1 DEF GrantInv
    <3> QED BY <1>9, <2>2, <3>1, <3>2
  <2>4. \A x \in Tokens : \A u \in Refreshing(x) : tabs[u].session.grant \in Nat
    BY <1>1, <1>9 DEF TypeOK, Fits, Refreshing, SessionType
  <2>5. ASSUME NEW x \in Tokens, NEW u \in Refreshing(x)
        PROVE  /\ tabs'[u].session.login = made[x]
               /\ tabs'[u].session.grant <= grant'[made[x]]
               /\ tabs'[u].alone =>
                    /\ Refreshing(x) = {u}
                    /\ tabs'[u].pc = "refreshing" => tabs'[u].session.grant = grant'[made[x]]
                    /\ tabs'[u].answer # "used"
               /\ tabs'[u].answer = "new" =>
                    /\ tabs'[u].session.grant + 1 = grant'[made[x]]
                    /\ x \in DOMAIN sessions => sessions[x].grant < grant'[made[x]]
                    /\ \A v \in Refreshing(x) : /\ tabs'[v].session.grant < grant'[made[x]]
                                                /\ tabs'[v].answer = "new" => v = u
    <3>1. /\ tabs[u].session.login = made[x] /\ tabs[u].session.grant <= grant[made[x]]
          /\ tabs[u].alone =>
               /\ Refreshing(x) = {u}
               /\ tabs[u].pc = "refreshing" => tabs[u].session.grant = grant[made[x]]
               /\ tabs[u].answer # "used"
      BY <1>1 DEF GrantInv
    <3>2. ASSUME NEW w \in Refreshing(x), tabs[w].answer = "new"
          PROVE  /\ tabs[w].session.grant + 1 = grant[made[x]]
                 /\ x \in DOMAIN sessions => sessions[x].grant < grant[made[x]]
                 /\ \A v \in Refreshing(x) : /\ tabs[v].session.grant < grant[made[x]]
                                             /\ tabs[v].answer = "new" => v = w
      BY <1>1, <3>2 DEF GrantInv
    <3>3. \A v \in Refreshing(x) : tabs'[v].session = tabs[v].session /\ tabs'[v].alone = tabs[v].alone
      BY <1>2, <1>9
    <3>4. CASE x # k
      <4>1. u # t /\ tabs'[u] = tabs[u] /\ grant'[made[x]] = grant[made[x]]
            /\ \A v \in Refreshing(x) : tabs'[v] = tabs[v]
        BY <1>2, <1>9, <2>2, <3>4
      <4> QED BY <3>1, <3>2, <4>1
    <3>5. CASE x = k /\ UNCHANGED grant
      <4>1. tabs'[t].answer # "new" /\ (tabs'[t].answer = "used" => tabs[t].session.grant # grant[made[x]])
        BY <1>3, <1>4, <1>5, <3>5 DEF Logins
      <4>2. CASE u = t
        BY <1>2, <3>1, <3>3, <3>5, <4>1, <4>2
      <4>3. CASE u # t
        BY <1>2, <1>9, <3>1, <3>2, <3>3, <3>5, <4>1, <4>3
      <4> QED BY <4>2, <4>3
    <3>6. CASE x = k /\ tabs[t].session.grant = grant[l] /\ grant' = [grant EXCEPT ![l] = grant[l] + 1]
      <4>1. made[x] = l /\ grant'[made[x]] = grant[made[x]] + 1 /\ grant[made[x]] \in Nat
        BY <1>1, <1>3, <2>2, <3>6 DEF TypeOK, Logins
      <4>2. \A v \in Refreshing(x) : /\ tabs[v].session.grant \in Nat
                                     /\ tabs[v].session.grant <= grant[made[x]]
        BY <1>1, <2>4 DEF GrantInv
      <4>3. \A v \in Refreshing(x) : tabs[v].answer # "new"
        BY <1>9, <3>2, <3>6, <4>1, <4>2
      <4>4. tabs'[u].alone => u = t
        BY <1>9, <3>1, <3>3, <3>6
      <4>5. tabs'[u].answer = "new" => u = t
        BY <1>2, <1>9, <4>3
      <4>6. x \in DOMAIN sessions => sessions[x].grant < grant'[made[x]]
        BY <1>1, <4>1 DEF GrantInv, TypeOK, SessionType
      <4>7. \A v \in Refreshing(x) : tabs'[v].answer = "new" => v = t
        BY <1>2, <1>9, <4>3
      <4>8. tabs'[t].answer # "used"
        BY <1>4, <3>6, <4>1
      <4> QED BY <1>2, <3>1, <3>3, <3>6, <4>1, <4>2, <4>4, <4>5, <4>6, <4>7, <4>8
    <3> QED BY <1>4, <3>4, <3>5, <3>6
  <2> QED BY <1>2, <1>9, <2>3, <2>5 DEF GrantInv, Tokens
<1> QED BY <1>6, <1>7, <1>8, <1>10, <1>11 DEF RequestsInv, GoalInv

(* What a request does when the provider has answered: its session is back *)
(* with the next refresh token, or it is gone.                             *)
Renewed(t, live) ==
  LET k == tabs[t].token IN
  /\ tabs[t].answer = "new" /\ DOMAIN live = DOMAIN sessions \cup {k}
  /\ \A x \in DOMAIN sessions \ {k} : live[x] = sessions[x]
  /\ live[k] \in SessionType /\ live[k].login = tabs[t].session.login
  /\ live[k].grant = tabs[t].session.grant + 1 /\ live[k].expires = live[k].seen + Ttl
Ended(t, live) ==
  LET k == tabs[t].token IN
  /\ tabs[t].answer \in {"down", "used"} /\ tabs'[t].pc = "sending"
  /\ DOMAIN live = DOMAIN sessions \ {k}
  /\ \A x \in DOMAIN sessions \ {k} : live[x] = sessions[x]

LEMMA RefreshedDoes ==
  ASSUME RequestsInv, NEW t \in Tabs, Refreshed(t)
  PROVE  /\ tabs[t].pc = "refreshed"
         /\ \/ Die({t}) /\ UNCHANGED events
            \/ \E live : Answered(t, live) /\ (Renewed(t, live) \/ Ended(t, live))
<1> DEFINE k == tabs[t].token
           s == tabs[t].session
           r == tabs[t].req
           live == replace(sessions, k, [s EXCEPT !.grant = @ + 1, !.issued = now])
<1>1. TypeOK /\ GoalInv
  BY DEF RequestsInv
<1>2. /\ tabs[t].pc = "refreshed"
      /\ IF tabs[t].answer = "new" THEN Respond(t, r, live, k) ELSE ToLogin(t, r, delete(sessions, k))
  BY DEF Refreshed
<1>3. /\ k \in Tokens /\ s \in SessionType /\ r \in Gets /\ now \in Nat
      /\ Bound(tabs[t].want) => Leads(tabs[t].want, r, world)
      /\ tabs[t].answer \in {"new", "down", "used"}
  <2>1. Fits(t) /\ Aims(t) /\ tabs[t] \in TabType
    BY <1>1 DEF TypeOK, GoalInv
  <2>2. tabs[t].answer # None /\ tabs[t].answer \in {None, "new", "down", "used"}
    BY <1>2, <2>1 DEF Fits, TabType
  <2> QED BY <1>1, <1>2, <2>1, <2>2 DEF Fits, Aims, TypeOK
<1>4. /\ DOMAIN live = DOMAIN sessions \cup {k}
      /\ \A x \in DOMAIN sessions \ {k} : live[x] = sessions[x]
      /\ live[k] \in SessionType /\ live[k].login = s.login
      /\ live[k].grant = s.grant + 1 /\ live[k].expires = live[k].seen + Ttl
  <2> HIDE DEF s, k
  <2>1. PICK granted : granted = [s EXCEPT !.grant = @ + 1, !.issued = now]
    OBVIOUS
  <2>2. granted \in SessionType /\ granted.login = s.login /\ granted.grant = s.grant + 1
    <3>1. PICK next : next = s.grant + 1
      OBVIOUS
    <3>2. next \in Nat /\ now \in Int
      BY <1>3, <3>1 DEF SessionType
    <3>3. granted = [s EXCEPT !.grant = next, !.issued = now]
      BY <1>3, <2>1, <3>1 DEF SessionType
    <3> QED BY <1>3, <3>1, <3>2, <3>3 DEF SessionType
  <2>3. PICK new : new = renew(granted)
    OBVIOUS
  <2>4. /\ new \in SessionType /\ new.login = s.login /\ new.grant = s.grant + 1
        /\ new.expires = new.seen + Ttl
    BY <1>3, <2>2, <2>3, RenewFits
  <2>5. PICK after : after = put(sessions, k, new)
    OBVIOUS
  <2>6. /\ DOMAIN after = DOMAIN sessions \cup {k} /\ after[k] = new
        /\ \A x \in DOMAIN sessions \ {k} : after[x] = sessions[x]
    BY <2>5 DEF put
  <2>7. live = after
    BY <2>1, <2>3, <2>5 DEF replace
  <2> HIDE DEF live
  <2> QED BY <2>4, <2>6, <2>7
<1> HIDE DEF live, k, s, r
<1>5. CASE tabs[t].answer = "new"
  <2>1. (Die({t}) /\ UNCHANGED events) \/ Answered(t, live)
    BY <1>1, <1>2, <1>3, <1>5, RespondFits
  <2>2. Renewed(t, live)
    BY <1>4, <1>5 DEF Renewed, k, s
  <2> QED BY <1>2, <2>1, <2>2
<1>6. CASE tabs[t].answer # "new"
  <2>1. ToLogin(t, r, delete(sessions, k))
    BY <1>2, <1>6
  <2>2. Answered(t, delete(sessions, k)) /\ tabs'[t].pc = "sending"
    BY <1>1, <1>3, <2>1, ToLoginFits
  <2>3. PICK after : after = delete(sessions, k)
    OBVIOUS
  <2>4. /\ DOMAIN after = DOMAIN sessions \ {k}
        /\ \A x \in DOMAIN sessions \ {k} : after[x] = sessions[x]
    BY <2>3, DeleteHas
  <2>5. Ended(t, after)
    BY <1>3, <1>6, <2>2, <2>4 DEF Ended, k
  <2> QED BY <1>2, <2>2, <2>3, <2>5
<1> QED BY <1>5, <1>6

LEMMA EndKeeps ==
  ASSUME RequestsInv, NEW t \in Tabs, tabs[t].pc = "refreshed", NEW live, Answered(t, live),
         Renewed(t, live) \/ Ended(t, live)
  PROVE  RequestsInv'
<1>0. PICK k : k = tabs[t].token
  OBVIOUS
<1>1. TypeOK /\ LoginInv /\ OutInv /\ GrantInv /\ GoalInv
  BY DEF RequestsInv
<1>2. /\ sessions' = live /\ UNCHANGED <<world, now, events, up, made, pending, grant, out>>
      /\ jar' \in [token : Tokens \cup {None}, runtime : SUBSET Names]
      /\ tabs' \in [Tabs -> TabType] /\ \A u \in Tabs \ {t} : tabs'[u] = tabs[u]
      /\ tabs'[t].pc \in {"sending", "shown"} /\ Fits(t)' /\ Aims(t)'
  BY DEF Answered
<1>3. k \in Tokens /\ t \in Refreshing(k)
  BY <1>0, <1>1 DEF TypeOK, Fits, Refreshing
<1>4. /\ tabs[t].session.login = made[k]
      /\ tabs[t].answer = "new" =>
           /\ tabs[t].session.grant + 1 = grant[made[k]]
           /\ \A u \in Refreshing(k) : tabs[u].answer = "new" => u = t
  BY <1>1, <1>3 DEF GrantInv
<1>5. \/ /\ DOMAIN live = DOMAIN sessions \cup {k} /\ tabs[t].answer = "new"
         /\ live[k] \in SessionType /\ live[k].login = made[k]
         /\ live[k].grant = grant[made[k]] /\ live[k].expires = live[k].seen + Ttl
      \/ DOMAIN live = DOMAIN sessions \ {k}
  BY <1>0, <1>4 DEF Renewed, Ended
<1>6. \A x \in DOMAIN sessions \ {k} : live[x] = sessions[x]
  BY <1>0 DEF Renewed, Ended
<1>7. \A u \in Tabs : Fits(u)' /\ Aims(u)'
  BY <1>1, <1>2, OthersFit DEF Logins, Tokens
<1>8. TypeOK'
  <2>1. DOMAIN live \subseteq Tokens /\ \A x \in DOMAIN live : live[x] \in SessionType
    BY <1>1, <1>3, <1>5, <1>6 DEF TypeOK
  <2> QED BY <1>1, <1>2, <1>7, <2>1 DEF TypeOK, Tokens, Logins
<1>9. LoginInv'
  <2>1. OneSessionPerLogin'
    BY <1>1, <1>2 DEF LoginInv, OneSessionPerLogin, IsInjective
  <2>2. \A x \in Tokens : made[x] \notin DOMAIN pending
    BY <1>1 DEF LoginInv
  <2>3. ASSUME NEW u \in Tabs, tabs'[u].pc = "exchanging"
        PROVE  /\ tabs'[u].login \notin DOMAIN pending
               /\ \A x \in Tokens : made[x] # tabs'[u].login
               /\ \A v \in Tabs \ {u} : tabs'[v].pc = "exchanging" => tabs'[v].login # tabs'[u].login
    <3>1. u # t /\ tabs'[u] = tabs[u]
      BY <1>2, <2>3
    <3> QED BY <1>1, <1>2, <2>3, <3>1 DEF LoginInv
  <2> QED BY <1>2, <2>1, <2>2, <2>3 DEF LoginInv, Tokens
<1>10. /\ \A x : x # k => Refreshing(x)' = Refreshing(x) /\ t \notin Refreshing(x)
       /\ Refreshing(k)' = Refreshing(k) \ {t}
       /\ \A x : Refreshing(x) \subseteq Tabs
  <2>1. t \notin Refreshing(k)' /\ \A x : x # k => t \notin Refreshing(x) /\ t \notin Refreshing(x)'
    BY <1>0, <1>2 DEF Refreshing
  <2>2. \A x : \A u \in Tabs \ {t} : u \in Refreshing(x)' <=> u \in Refreshing(x)
    BY <1>2 DEF Refreshing
  <2>3. \A x : Refreshing(x) \subseteq Tabs /\ Refreshing(x)' \subseteq Tabs
    BY DEF Refreshing
  <2>4. ASSUME NEW x, x # k PROVE Refreshing(x)' = Refreshing(x)
    BY <2>1, <2>2, <2>3, <2>4
  <2>5. Refreshing(k)' = Refreshing(k) \ {t}
    BY <2>1, <2>2, <2>3
  <2> QED BY <2>1, <2>3, <2>4, <2>5
<1>11. OutInv'
  <2>1. k \notin out
    BY <1>1, <1>3 DEF OutInv
  <2> QED BY <1>1, <1>2, <1>5, <1>10, <2>1 DEF OutInv
<1>12. GrantInv'
  <2>1. ASSUME NEW x \in DOMAIN live
        PROVE  /\ live[x].login = made[x] /\ live[x].expires = live[x].seen + Ttl
               /\ live[x].grant <= grant[made[x]]
               /\ Refreshing(x)' = {} => live[x].grant = grant[made[x]]
    <3>1. CASE x = k
      <4>1. live[k].grant \in Nat /\ live[k].grant = grant[made[k]]
        BY <1>5, <2>1, <3>1 DEF SessionType
      <4> QED BY <1>5, <2>1, <3>1, <4>1
    <3>2. CASE x # k
      <4>1. x \in DOMAIN sessions /\ live[x] = sessions[x]
        BY <1>5, <1>6, <2>1, <3>2
      <4> QED BY <1>1, <1>10, <3>2, <4>1 DEF GrantInv
    <3> QED BY <3>1, <3>2
  <2>2. ASSUME NEW x \in Tokens, NEW u \in Refreshing(x)'
        PROVE  /\ tabs'[u].session.login = made[x]
               /\ tabs'[u].session.grant <= grant[made[x]]
               /\ tabs'[u].alone =>
                    /\ Refreshing(x)' = {u}
                    /\ tabs'[u].pc = "refreshing" => tabs'[u].session.grant = grant[made[x]]
                    /\ tabs'[u].answer # "used"
               /\ tabs'[u].answer = "new" =>
                    /\ tabs'[u].session.grant + 1 = grant[made[x]]
                    /\ x \in DOMAIN live => live[x].grant < grant[made[x]]
                    /\ \A v \in Refreshing(x)' : /\ tabs'[v].session.grant < grant[made[x]]
                                                 /\ tabs'[v].answer = "new" => v = u
    <3>1. u \in Refreshing(x) /\ u # t /\ \A v \in Refreshing(x)' : v \in Refreshing(x) /\ v # t
      <4>1. CASE x = k
        BY <1>10, <2>2, <4>1
      <4>2. CASE x # k
        BY <1>10, <2>2, <4>2
      <4> QED BY <4>1, <4>2
    <3>2. tabs'[u] = tabs[u] /\ \A v \in Refreshing(x)' : tabs'[v] = tabs[v]
      BY <1>2, <1>10, <3>1
    <3>3. /\ tabs[u].session.login = made[x] /\ tabs[u].session.grant <= grant[made[x]]
          /\ tabs[u].alone =>
               /\ Refreshing(x) = {u}
               /\ tabs[u].pc = "refreshing" => tabs[u].session.grant = grant[made[x]]
               /\ tabs[u].answer # "used"
      BY <1>1, <3>1 DEF GrantInv
    <3>4. tabs[u].alone => x # k /\ Refreshing(x)' = Refreshing(x)
      BY <1>3, <1>10, <3>1, <3>3
    <3>5. ASSUME tabs[u].answer = "new"
          PROVE  /\ tabs[u].session.grant + 1 = grant[made[x]]
                 /\ x \in DOMAIN sessions => sessions[x].grant < grant[made[x]]
                 /\ \A v \in Refreshing(x) : /\ tabs[v].session.grant < grant[made[x]]
                                             /\ tabs[v].answer = "new" => v = u
      BY <1>1, <3>1, <3>5 DEF GrantInv
    <3>6. tabs[u].answer = "new" /\ x \in DOMAIN live => x \in DOMAIN sessions /\ live[x] = sessions[x]
      <4>1. x = k /\ tabs[t].answer = "new" => tabs[u].answer # "new"
        BY <1>4, <3>1
      <4> QED BY <1>5, <1>6, <4>1
    <3> QED BY <3>1, <3>2, <3>3, <3>4, <3>5, <3>6
  <2> QED BY <1>2, <2>1, <2>2 DEF GrantInv, Tokens
<1> QED BY <1>7, <1>8, <1>9, <1>11, <1>12 DEF RequestsInv, GoalInv

LEMMA RefreshedKeeps == ASSUME RequestsInv, NEW t \in Tabs, Refreshed(t) PROVE RequestsInv'
<1>1. CASE Die({t}) /\ UNCHANGED events
  <2>1. events' \in Nat
    BY <1>1 DEF RequestsInv, TypeOK
  <2> QED BY <1>1, <2>1, DieKeeps
<1>2. CASE \E live : Answered(t, live) /\ (Renewed(t, live) \/ Ended(t, live))
  BY <1>2, RefreshedDoes, EndKeeps
<1> QED BY <1>1, <1>2, RefreshedDoes

-----------------------------------------------------------------------------
(* Every step.                                                             *)

LEMMA ClockKeeps == ASSUME RequestsInv, Tick \/ Restart PROVE RequestsInv'
<1>1. TypeOK /\ LoginInv /\ OutInv /\ GrantInv /\ GoalInv
  BY DEF RequestsInv
<1>2. /\ UNCHANGED <<world, events, sessions, made, pending, grant, jar, tabs, out>>
      /\ now' \in Nat /\ up' \in BOOLEAN
  <2>1. now \in Nat /\ up \in BOOLEAN
    BY <1>1 DEF TypeOK
  <2>2. CASE Tick
    BY <2>1, <2>2 DEF Tick, server
  <2>3. CASE Restart
    BY <2>1, <2>3 DEF Restart, server, counters
  <2> QED BY <2>2, <2>3
<1>3. \A t \in Tabs : Fits(t)' /\ Aims(t)'
  BY <1>1, <1>2, OthersFit DEF Logins, Tokens
<1>4. TypeOK'
  BY <1>1, <1>2, <1>3 DEF TypeOK, Logins, Tokens
<1>5. LoginInv'
  BY <1>1, <1>2 DEF LoginInv, OneSessionPerLogin, IsInjective, Tokens
<1>6. \A k : Refreshing(k)' = Refreshing(k)
  BY <1>2 DEF Refreshing
<1>7. OutInv' /\ GrantInv'
  BY <1>1, <1>2, <1>6 DEF OutInv, GrantInv, Tokens
<1> QED BY <1>3, <1>4, <1>5, <1>7 DEF RequestsInv, GoalInv

LEMMA StepKeeps == ASSUME RequestsInv, NEW t \in Tabs, Step(t) PROVE RequestsInv'
BY LogOutKeeps, BeginLoginKeeps, AtProviderKeeps, CallbackHolds, ExchangeKeeps, GateKeeps,
   ProviderKeeps, RefreshedKeeps, LookKeeps
   DEF Step

LEMMA NextKeeps == ASSUME RequestsInv, [Next]_vars PROVE RequestsInv'
<1>1. CASE \E t \in Tabs : Ask(t) \/ Step(t)
  BY <1>1, AskKeeps, StepKeeps
<1>2. CASE Tick \/ Restart
  BY <1>2, ClockKeeps
<1>3. CASE Crash
  <2>1. events' \in Nat
    BY <1>3 DEF Crash, RequestsInv, TypeOK
  <2> QED BY <1>3, <2>1, DieKeeps DEF Crash
<1>4. CASE UNCHANGED vars
  <2>1. TypeOK' /\ LoginInv' /\ OutInv' /\ GrantInv' /\ GoalInv'
    <3>1. TypeOK'
      BY <1>4 DEF RequestsInv, TypeOK, vars, Logins, Tokens, Fits
    <3>2. LoginInv'
      BY <1>4 DEF RequestsInv, LoginInv, OneSessionPerLogin, vars, Tokens
    <3>3. OutInv' /\ GrantInv'
      BY <1>4 DEF RequestsInv, OutInv, GrantInv, Refreshing, vars, Tokens
    <3>4. GoalInv'
      BY <1>4 DEF RequestsInv, GoalInv, Aims, vars
    <3> QED BY <3>1, <3>2, <3>3, <3>4
  <2> QED BY <2>1 DEF RequestsInv
<1> QED BY <1>1, <1>2, <1>3, <1>4 DEF Next

LEMMA InitFits == ASSUME Init PROVE RequestsInv
<1>1. /\ world \in Worlds /\ up = TRUE /\ now = 0 /\ events = 0 /\ pending = <<>>
      /\ tabs = [t \in Tabs |-> Blank] /\ out = {}
  BY DEF Init
<1>2. tabs \in [Tabs -> TabType] /\ \A t \in Tabs : tabs[t] = Blank
  BY <1>1, Blanks
<1>3. \A t \in Tabs : Fits(t) /\ Aims(t)
  BY <1>2, Blanks DEF Fits, Aims, Bound
<1>4. \A k : Refreshing(k) = {}
  BY <1>2, Blanks DEF Refreshing
<1>5. DOMAIN pending = {}
  BY <1>1
<1>6. CASE jar = [token |-> None, runtime |-> {}] /\ sessions = <<>> /\ made = <<>> /\ grant = <<>>
  <2>1. DOMAIN sessions = {} /\ Tokens = {} /\ Logins = {} /\ made \in Seq(Nat) /\ grant \in Seq(Nat)
    BY <1>6 DEF Tokens, Logins
  <2>2. TypeOK
    BY <1>1, <1>2, <1>3, <1>5, <1>6, <2>1 DEF TypeOK
  <2>3. LoginInv
    BY <1>2, <2>1, Blanks DEF LoginInv, OneSessionPerLogin, IsInjective, Tokens
  <2>4. OutInv /\ GrantInv
    BY <1>1, <2>1 DEF OutInv, GrantInv
  <2> QED BY <1>3, <2>2, <2>3, <2>4 DEF RequestsInv, GoalInv
<1>7. CASE /\ jar = [token |-> 1, runtime |-> {}] /\ made = <<1>> /\ grant = <<0>>
           /\ \E i, n \in {-1, 0} :
                i <= n /\ sessions = <<[login |-> 1, grant |-> 0, issued |-> i, seen |-> n,
                                       expires |-> n + Ttl]>>
  <2>1. PICK i \in {-1, 0}, n \in {-1, 0} :
          sessions = <<[login |-> 1, grant |-> 0, issued |-> i, seen |-> n, expires |-> n + Ttl]>>
    BY <1>7
  <2>2. /\ DOMAIN sessions = {1} /\ Tokens = {1} /\ Logins = {1} /\ made[1] = 1 /\ grant[1] = 0
        /\ made \in Seq(Nat) /\ grant \in Seq(Nat)
    BY <1>7, <2>1 DEF Tokens, Logins
  <2>3. /\ sessions[1] \in SessionType /\ sessions[1].login = 1 /\ sessions[1].grant = 0
        /\ sessions[1].expires = sessions[1].seen + Ttl
    <3>1. i \in Int /\ n \in Int /\ n + Ttl \in Int
      BY LivesAreNumbers
    <3> QED BY <2>1, <3>1 DEF SessionType
  <2>4. TypeOK
    BY <1>1, <1>2, <1>3, <1>5, <1>7, <2>2, <2>3 DEF TypeOK
  <2>5. LoginInv
    BY <1>2, <1>5, <2>2, Blanks DEF LoginInv, OneSessionPerLogin, IsInjective, Tokens
  <2>6. OutInv
    BY <1>1 DEF OutInv
  <2>7. GrantInv
    BY <1>4, <2>2, <2>3 DEF GrantInv
  <2> QED BY <1>3, <2>4, <2>5, <2>6, <2>7 DEF RequestsInv, GoalInv
<1> QED BY <1>6, <1>7 DEF Init

(* Logins, sessions, refreshes and redirects fit together: a login has at  *)
(* most one session, a session that nobody refreshes has the refresh token *)
(* that the provider expects, nobody can bring back a session that was     *)
(* logged out, and wherever a request has got to, it leads to the page the *)
(* browser asked for.                                                      *)
THEOREM RequestsAreConsistent == Spec => []RequestsInv
<1>1. Init => RequestsInv
  BY InitFits
<1>2. RequestsInv /\ [Next]_vars => RequestsInv'
  BY NextKeeps
<1> QED BY <1>1, <1>2, PTL DEF Spec

(* A login that was begun makes at most one session, and a session that    *)
(* was logged out does not come back, unless it is being refreshed.        *)
THEOREM SessionsEarned == Spec => []SessionsAreEarned
<1>1. RequestsInv => SessionsAreEarned
  BY DEF RequestsInv, LoginInv, OutInv, SessionsAreEarned, LogoutHolds
<1> QED BY <1>1, RequestsAreConsistent, PTL

(* Whatever logins, refreshes and redirects a browser is sent through, it  *)
(* ends at what it asked for, or is told why not.                          *)
THEOREM RightPages == Spec => []RightPage
<1>1. ASSUME RequestsInv PROVE RightPage
  <2>1. ASSUME NEW t \in Tabs,
               tabs[t].shown \notin {None} \cup NotLoggedIn, tabs[t].want \notin {None, Logout},
               ~(tabs[t].want.kind = "deep" /\ tabs[t].want.project # Own)
        PROVE  Promised(tabs[t].want, world, tabs[t].shown)
    BY <1>1, <2>1 DEF RequestsInv, GoalInv, Aims, Bound
  <2> QED BY <2>1 DEF RightPage
<1> QED BY <1>1, RequestsAreConsistent, PTL

(* A session that a sweep drops was not used for as long as it may live.   *)
LEMMA SweptIsOld ==
  ASSUME RequestsInv, NEW k \in DOMAIN sessions, k \notin DOMAIN sweep
  PROVE  sessions[k].seen + Ttl <= now
<1>1. sessions[k].expires = sessions[k].seen + Ttl /\ isExpired(sessions[k])
  BY SweepHas DEF RequestsInv, GrantInv
<1> QED BY <1>1 DEF isExpired

(* What may have ended a session.                                          *)
Excuse(k) ==
  \/ sessions[k].seen + Ttl <= now
  \/ ~up' \/ ~world.offline
  \/ \E t \in Tabs : \/ tabs[t].pc = "sending" /\ tabs[t].req = Logout /\ tabs'[t].req # Logout
                     \/ tabs[t].pc = "refreshed" /\ tabs'[t].pc # "refreshed" /\ tabs[t].token = k
                        /\ (tabs[t].answer = "down" \/ ~tabs[t].alone)

LEMMA StepEnds ==
  ASSUME RequestsInv, NEW t \in Tabs, Step(t), NEW k \in DOMAIN sessions, k \notin DOMAIN sessions'
  PROVE  Excuse(k)
<1>1. TypeOK /\ GrantInv
  BY DEF RequestsInv
<1>2. k \notin DOMAIN sweep => Excuse(k)
  BY SweptIsOld DEF Excuse
<1>3. CASE LogOut(t)
  <2>1. /\ sessions' = delete(sweep, jar.token) /\ Sent(t, {"logout"}) /\ Continue(t, Start(Portal))
    BY <1>3 DEF LogOut
  <2>2. tabs[t].pc = "sending" /\ tabs[t].req = Logout
    BY <1>1, <2>1, SentFits, KindsDiffer
  <2>3. PICK r \in RequestType : r = Start(Portal) /\ r # Logout
    BY KindsDiffer, ReroutesFit
  <2>4. tabs'[t].req # Logout
    BY <1>1, <2>1, <2>3, ContinueFits DEF TypeOK
  <2> QED BY <2>2, <2>4 DEF Excuse
<1>4. CASE BeginLogin(t) \/ Callback(t)
  <2>1. sessions' = sweep
    BY <1>4 DEF BeginLogin, Callback
  <2> QED BY <1>2, <2>1
<1>5. CASE AtProvider(t) \/ ProviderRefreshes(t) \/ NoServer(t) \/ Look(t)
  <2>1. sessions' = sessions
    BY <1>5 DEF AtProvider, ProviderRefreshes, NoServer, Look, server
  <2> QED BY <2>1
<1>6. CASE Exchange(t)
  <2>1. PICK x, s : sessions' = put(sessions, x, s) \/ sessions' = sessions
    BY <1>6 DEF Exchange
  <2>2. DOMAIN sessions \subseteq DOMAIN sessions'
    BY <2>1 DEF put
  <2> QED BY <2>2
<1>7. CASE Gate(t)
  <2>1. CASE Die({t})
    BY <2>1 DEF Die, Excuse
  <2>2. CASE \E live : /\ Answered(t, live) /\ Lives(live)
                       /\ world.offline => DOMAIN sweep \subseteq DOMAIN live
    <3>1. world.offline => DOMAIN sweep \subseteq DOMAIN sessions'
      BY <2>2 DEF Answered
    <3> QED BY <1>2, <3>1 DEF Excuse
  <2>3. CASE \E x \in DOMAIN sweep : \E live : /\ Starts(t, x, live) /\ Lives(live)
                                               /\ DOMAIN sweep \subseteq DOMAIN live
    <3>1. DOMAIN sweep \subseteq DOMAIN sessions'
      BY <2>3 DEF Starts
    <3> QED BY <1>2, <3>1
  <2> QED BY <1>7, <2>1, <2>2, <2>3, GateDoes
<1>8. CASE Refreshed(t)
  <2>1. CASE Die({t})
    BY <2>1 DEF Die, Excuse
  <2>2. CASE \E live : Answered(t, live) /\ (Renewed(t, live) \/ Ended(t, live))
    <3>1. PICK live : Answered(t, live) /\ (Renewed(t, live) \/ Ended(t, live))
      BY <2>2
    <3>2. sessions' = live /\ tabs'[t].pc # "refreshed"
      BY <3>1 DEF Answered
    <3>3. k = tabs[t].token /\ tabs[t].answer \in {"down", "used"}
      BY <3>1, <3>2 DEF Renewed, Ended
    <3>4. tabs[t].pc = "refreshed" /\ k \in Tokens /\ t \in Refreshing(k)
      BY <1>1, <3>3, <1>8 DEF Refreshed, Refreshing, TypeOK
    <3>5. tabs[t].answer = "down" \/ ~tabs[t].alone
      BY <1>1, <3>3, <3>4 DEF GrantInv
    <3> QED BY <3>2, <3>3, <3>4, <3>5 DEF Excuse
  <2> QED BY <1>8, <2>1, <2>2, RefreshedDoes
<1> QED BY <1>3, <1>4, <1>5, <1>6, <1>7, <1>8 DEF Step

(* A session that is used stays: logging out, letting it idle, a provider  *)
(* that is down or grants no refresh, and a crash end it, and a used-up    *)
(* refresh token does only when two requests refreshed it at once.         *)
THEOREM SessionsHold == Spec => SessionsLast
<1>1. ASSUME RequestsInv, [Next]_vars, NEW k \in DOMAIN sessions \ DOMAIN sessions'
      PROVE  Excuse(k)
  <2>1. CASE \E t \in Tabs : Step(t)
    BY <1>1, <2>1, StepEnds
  <2>2. CASE Crash
    BY <2>2 DEF Crash, Die, Excuse
  <2>3. CASE (\E t \in Tabs : Ask(t)) \/ Tick \/ Restart \/ UNCHANGED vars
    <3>1. sessions' = sessions
      BY <2>3 DEF Ask, Tick, Restart, server, vars
    <3> QED BY <1>1, <3>1
  <2> QED BY <1>1, <2>1, <2>2, <2>3 DEF Next
<1>2. RequestsInv /\ [Next]_vars =>
        [\A k \in DOMAIN sessions \ DOMAIN sessions' :
           \/ sessions[k].seen + Ttl <= now
           \/ ~up' \/ ~world.offline
           \/ \E t \in Tabs : \/ tabs[t].pc = "sending" /\ tabs[t].req = Logout /\ tabs'[t].req # Logout
                              \/ tabs[t].pc = "refreshed" /\ tabs'[t].pc # "refreshed" /\ tabs[t].token = k
                                 /\ (tabs[t].answer = "down" \/ ~tabs[t].alone)]_vars
  BY <1>1 DEF Excuse
<1> QED BY <1>2, RequestsAreConsistent, PTL DEF SessionsLast, Spec
=============================================================================
