----------------------------- MODULE ChainLookup ----------------------------
(***************************************************************************)
(* One web instance: request threads look up the filter chains while the   *)
(* listener's thread replaces them.  initFilterChains is synchronized, but *)
(* the resolver takes no lock, and the map it reads is cleared and filled  *)
(* in place.  What the rebuild reads is arbitrary here; that it is what    *)
(* the tables say is the subject of AuthorityRefresh.                      *)
(***************************************************************************)
EXTENDS AuthorityStore

CONSTANTS Requests  \* request threads

VARIABLES staged,   \* chains of otherfilterChainManager
          live,     \* chains of filterChainManager
          cfg,      \* role lists of the roles filter, shared by both managers' chains
          swap,     \* progress of the rebuild: "idle", "clear" or "put"
          req       \* progress of each request

vars == <<staged, live, cfg, swap, req>>

-----------------------------------------------------------------------------
(* What a rebuild can leave in the staged manager: DefaultDeny of          *)
(* AuthorityRefresh, for any set of public urls.                           *)
Version == {v \in [chains : Chains, cfg : [Urls -> SUBSET Roles]] :
              /\ v.chains.default # "none"
              /\ v.chains.default = "authc" => v.chains.role = {}
              /\ Blank \notin v.chains.role \cup v.chains.public
              /\ v.cfg[Blank] = {}}

(* A request for one url by a user with some roles.  name is the chain the *)
(* loop over the names picked (empty: "/**"), filters the chain that was   *)
(* fetched under that name.  seen (history) collects how the versions that *)
(* were current while the request ran decide it; calm (history) says that  *)
(* no rebuild overlapped it.                                               *)
Filters   == {"anon", "roles", "basic", "authc"}
Outcomes  == {"none", "unfiltered", "allowed", "denied", "error"}
NoRequest == [pc |-> "done", url |-> {}, roles |-> {}, name |-> {}, filters |-> {},
              outcome |-> "none", seen |-> {}, calm |-> TRUE]

TypeOK ==
    /\ staged \in Chains /\ live \in Chains
    /\ cfg \in [Urls -> SUBSET Roles]
    /\ swap \in {"idle", "clear", "put"}
    /\ req \in [Requests -> [pc : {"check", "match", "proxy", "run", "done"},
                             url : SUBSET Urls, roles : SUBSET Roles,
                             name : SUBSET Urls, filters : SUBSET Filters,
                             outcome : Outcomes, calm : BOOLEAN,
                             seen : SUBSET Outcomes]]

(* The web server accepts requests when the first rebuild has ended.       *)
Init ==
    \E v \in Version :
        /\ staged = v.chains
        /\ live = v.chains
        /\ cfg = v.cfg
        /\ swap = "idle"
        /\ req = [t \in Requests |-> NoRequest]

-----------------------------------------------------------------------------
(* The rebuild, from the view of the requests.                             *)

(* Chains are staged; the role lists of the urls read are in force at once.*)
Stage(v) ==
    /\ swap = "idle"
    /\ \A u \in Urls \ v.chains.role : v.cfg[u] = cfg[u]
    /\ staged' = v.chains
    /\ cfg' = v.cfg
    /\ swap' = "clear"
    /\ req' = [t \in Requests |->
                 IF req[t].pc = "done" THEN req[t]
                 ELSE [req[t] EXCEPT !.calm = FALSE, !.seen = @ \cup
                         {Decide(v.chains, v.cfg, u, req[t].roles) : u \in req[t].url}]]
    /\ UNCHANGED live

(* filterChainManager.getFilterChains().clear()                            *)
ClearLive ==
    /\ swap = "clear"
    /\ live' = NoChains
    /\ swap' = "put"
    /\ UNCHANGED <<staged, cfg, req>>

(* putAll inserts one entry after the other, "/**" last.  An entry of a    *)
(* url carries its whole list of filters.                                  *)
PutUrl(u) ==
    /\ swap = "put"
    /\ u \in (staged.public \cup staged.role) \ (live.public \cup live.role)
    /\ live' = [live EXCEPT !.public = @ \cup ({u} \cap staged.public),
                            !.role = @ \cup ({u} \cap staged.role)]
    /\ UNCHANGED <<staged, cfg, swap, req>>

PutDefault ==
    /\ swap = "put"
    /\ live.public = staged.public /\ live.role = staged.role
    /\ live' = staged
    /\ swap' = "idle"
    /\ UNCHANGED <<staged, cfg, req>>

-----------------------------------------------------------------------------
(* A request: getChain of the resolver, then the filters.                  *)

Set(t, r) == req' = [req EXCEPT ![t] = r]

Arrive(t, u, rs) ==
    /\ req[t].pc = "done"
    /\ Set(t, [NoRequest EXCEPT
                 !.pc = "check", !.url = {u}, !.roles = rs,
                 !.seen = {Decide(c, cfg, u, rs) : c \in
                              IF swap = "put" THEN {staged} ELSE {live, staged}},
                 !.calm = (swap = "idle")])
    /\ UNCHANGED <<staged, live, cfg, swap>>

(* hasChains: without chains the request goes on to the servlet.           *)
CheckChains(t) ==
    /\ req[t].pc = "check"
    /\ Set(t, IF live = NoChains
              THEN [req[t] EXCEPT !.pc = "done", !.outcome = "unfiltered"]
              ELSE [req[t] EXCEPT !.pc = "match"])
    /\ UNCHANGED <<staged, live, cfg, swap>>

(* The loop over the chain names; no match leaves "/**".                   *)
MatchName(t) ==
    /\ req[t].pc = "match"
    /\ Set(t, [req[t] EXCEPT !.pc = "proxy",
                             !.name = @ \cup (req[t].url \cap (live.public \cup live.role))])
    /\ UNCHANGED <<staged, live, cfg, swap>>

(* ... which throws ConcurrentModificationException when the map changes   *)
(* under it.                                                               *)
MatchThrows(t) ==
    /\ req[t].pc = "match"
    /\ swap # "idle"
    /\ Set(t, [req[t] EXCEPT !.pc = "done", !.outcome = "error"])
    /\ UNCHANGED <<staged, live, cfg, swap>>

(* Mutants: a missing default is a chain; a chain that is gone lets        *)
(* everybody pass.                                                         *)
ChainUnderNone(name) ==
    IF name = {} THEN {live.default}
    ELSE (IF name \subseteq live.public THEN {"anon"} ELSE {})
         \cup (IF name \subseteq live.role THEN {"roles"} ELSE {})

ChainUnderOpen(name) ==
    IF name = {} THEN {live.default} \ {"none"}
    ELSE IF name \subseteq live.role THEN {"roles"} ELSE {"anon"}

(* proxy: the chain under that name, or IllegalArgumentException.          *)
ChainUnder(name) ==
    IF name = {} THEN {live.default} \ {"none"}
    ELSE (IF name \subseteq live.public THEN {"anon"} ELSE {})
         \cup (IF name \subseteq live.role THEN {"roles"} ELSE {})

Proxy(t) ==
    /\ req[t].pc = "proxy"
    /\ LET chain == ChainUnder(req[t].name)
       IN  Set(t, IF chain = {}
                  THEN [req[t] EXCEPT !.pc = "done", !.outcome = "error"]
                  ELSE [req[t] EXCEPT !.pc = "run", !.filters = chain])
    /\ UNCHANGED <<staged, live, cfg, swap>>

(* All filters of the chain must let the request pass.  "anon" and, for a  *)
(* user who is logged in, "authc" do; "basic" never; "roles" as its list.  *)
RolesPass(u, rs) == cfg[u] = {} \/ cfg[u] \cap rs # {}

RunFilters(t) ==
    /\ req[t].pc = "run"
    /\ LET pass == /\ "basic" \notin req[t].filters
                   /\ "roles" \in req[t].filters =>
                         \A u \in req[t].url : RolesPass(u, req[t].roles)
       IN  Set(t, [req[t] EXCEPT !.pc = "done",
                                 !.outcome = IF pass THEN "allowed" ELSE "denied"])
    /\ UNCHANGED <<staged, live, cfg, swap>>

-----------------------------------------------------------------------------
Swap == ClearLive \/ PutDefault \/ \E u \in Urls : PutUrl(u)

Handle(t) ==
    CheckChains(t) \/ MatchName(t) \/ MatchThrows(t) \/ Proxy(t) \/ RunFilters(t)

Next ==
    \/ \E v \in Version : Stage(v)
    \/ Swap
    \/ \E t \in Requests :
          \/ \E u \in Urls \ {Blank}, rs \in SUBSET Roles : Arrive(t, u, rs)
          \/ Handle(t)

Spec == Init /\ [][Next]_vars

-----------------------------------------------------------------------------
(* Properties.                                                             *)

Answered(t) == req[t].pc = "done" /\ req[t].outcome # "none"

(* A request that no rebuild overlaps is decided as its version says:      *)
(* public urls pass, role urls by their list, all others by "/**".         *)
SettledDecision ==
    \A t \in Requests : Answered(t) /\ req[t].calm => req[t].seen = {req[t].outcome}

(* Picking the name from one map, the chain from the next one and the role *)
(* list from a rebuild still being staged never adds up to an access that  *)
(* none of the versions grants.                                            *)
AllowedByAVersion ==
    \A t \in Requests :
        Answered(t) /\ req[t].outcome = "allowed" => "allowed" \in req[t].seen

(* Likewise a denial is one that some version asks for, except that an url *)
(* looked up while its entry is not yet put back is denied by "/**".       *)
DeniedByAVersion ==
    \A t \in Requests :
        Answered(t) /\ req[t].outcome = "denied" =>
            "denied" \in req[t].seen \/ (req[t].name = {} /\ ~ req[t].calm)

(* Names, chains and role lists may each be of another rebuild, and yet an *)
(* access or a denial that they add up to is a decision of one of the      *)
(* versions, but for that one denial; and a request no rebuild overlaps is *)
(* decided as its version says.  Of the other two outcomes of an overlapped*)
(* request, an error and going past the filters, nothing is said here.     *)
DecidedByAVersion == SettledDecision /\ AllowedByAVersion /\ DeniedByAVersion

(* "Interfaces not added to a user's permissions cannot be accessed"       *)
(* (BasicFilters): no request goes past the filters.                       *)
NeverUnfiltered == \A t \in Requests : req[t].outcome # "unfiltered"
=============================================================================
