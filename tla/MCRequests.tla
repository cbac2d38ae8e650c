----------------------------- MODULE MCRequests -----------------------------
EXTENDS Requests
(* The kinds of a resource matter to the routing, which a login precedes.  *)
MCGoals ==
  [auth \in BOOLEAN |->
     {Get("page", p, None) : p \in Projects} \cup
     IF auth THEN {Logout}
     ELSE {Get("asset", p, None) : p \in Projects}
          \cup {Get("deep", p, None) : p \in Projects \cup {Own}}
          \cup {Get(kind, p, p) : kind \in {"data", "search"}, p \in Projects}]
=============================================================================
