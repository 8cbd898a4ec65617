-------------------------- MODULE ChainLookupProofs -------------------------
(***************************************************************************)
(* What requests are told while the chains are being replaced, for every   *)
(* number of requests, roles and urls.  A request reads the map of chains  *)
(* up to three times and the role list once; the invariant says, at each   *)
(* stage, which decision of which version it is going to repeat.           *)
(***************************************************************************)
EXTENDS ChainLookup, TLAPS

(* A request of a user with the roles rs for url u, as the roles filter    *)
(* decides it.                                                             *)
Passed(u, rs) == IF RolesPass(u, rs) THEN "allowed" ELSE "denied"

(* Chains a rebuild may leave.                                             *)
Sound(c) == c.default # "none" /\ (c.default = "authc" => c.role = {})

LEMMA DecisionOfSound ==
  ASSUME NEW c \in Chains, Sound(c), NEW u, NEW rs
  PROVE  Decide(c, cfg, u, rs) =
           IF u \in c.role THEN Passed(u, rs)
           ELSE IF u \in c.public \/ c.default = "authc" THEN "allowed" ELSE "denied"
<1>1. c # NoChains
  BY DEF Sound, NoChains
<1>2. c.default \in {"basic", "authc"}
  BY DEF Chains, Sound
<1> QED
  BY <1>1, <1>2 DEF Decide, Passed, RolesPass

LEMMA DecisionIsOutcome ==
  ASSUME NEW c, NEW f, NEW u, NEW rs
  PROVE  Decide(c, f, u, rs) \in Outcomes
BY DEF Decide, Outcomes

-----------------------------------------------------------------------------
(* Type correctness.                                                       *)

RequestType == [pc : {"check", "match", "proxy", "run", "done"},
                url : SUBSET Urls, roles : SUBSET Roles,
                name : SUBSET Urls, filters : SUBSET Filters,
                outcome : Outcomes, calm : BOOLEAN,
                seen : SUBSET Outcomes]

LEMMA TypeInit == Init => TypeOK
<1>1. NoRequest \in RequestType
  BY DEF NoRequest, RequestType, Filters, Outcomes
<1> QED
  BY <1>1 DEF Init, TypeOK, Version, RequestType

LEMMA TypeStep == TypeOK /\ [Next]_vars => TypeOK'
<1> SUFFICES ASSUME TypeOK, [Next]_vars PROVE TypeOK'
  OBVIOUS
<1>0. /\ staged \in Chains /\ live \in Chains /\ cfg \in [Urls -> SUBSET Roles]
      /\ swap \in {"idle", "clear", "put"}
      /\ req \in [Requests -> RequestType]
  BY DEF TypeOK, RequestType
<1>1. SUFFICES /\ staged' \in Chains /\ live' \in Chains /\ cfg' \in [Urls -> SUBSET Roles]
               /\ swap' \in {"idle", "clear", "put"}
               /\ req' \in [Requests -> RequestType]
  BY <1>1 DEF TypeOK, RequestType
<1>2. ASSUME NEW t \in Requests, NEW r \in RequestType, Set(t, r)
      PROVE  req' \in [Requests -> RequestType]
  BY <1>0, <1>2 DEF Set
<1>3. CASE UNCHANGED vars
  BY <1>0, <1>3 DEF vars
<1>4. ASSUME NEW v \in Version, Stage(v)
      PROVE  /\ staged' \in Chains /\ live' \in Chains /\ cfg' \in [Urls -> SUBSET Roles]
             /\ swap' \in {"idle", "clear", "put"}
             /\ req' \in [Requests -> RequestType]
  <2>1. ASSUME NEW t \in Requests PROVE req'[t] \in RequestType
    <3> DEFINE now == {Decide(v.chains, v.cfg, u, req[t].roles) : u \in req[t].url}
    <3>1. now \subseteq Outcomes
      BY DecisionIsOutcome
    <3>2. req'[t] = IF req[t].pc = "done" THEN req[t]
                    ELSE [req[t] EXCEPT !.calm = FALSE, !.seen = @ \cup now]
      BY <1>4 DEF Stage
    <3>3. req[t] \in RequestType
      BY <1>0
    <3> HIDE DEF now
    <3>4. [req[t] EXCEPT !.calm = FALSE, !.seen = @ \cup now] \in RequestType
      BY <3>1, <3>3 DEF RequestType
    <3> QED
      BY <3>2, <3>3, <3>4
  <2>2. req' = [t \in Requests |-> req'[t]]
    BY <1>4 DEF Stage
  <2> QED
    BY <2>1, <2>2, <1>4, <1>0 DEF Stage, Version
<1>5. CASE Swap
  <2>1. NoChains \in Chains
    BY DEF NoChains, Chains
  <2>2. ASSUME NEW u \in Urls, PutUrl(u) PROVE live' \in Chains
    BY <1>0, <2>2 DEF PutUrl, Chains
  <2> QED
    BY <1>0, <1>5, <2>1, <2>2 DEF Swap, ClearLive, PutUrl, PutDefault
<1>6. ASSUME NEW t \in Requests, NEW u \in Urls, NEW rs \in SUBSET Roles, Arrive(t, u, rs)
      PROVE  /\ req' \in [Requests -> RequestType]
             /\ UNCHANGED <<staged, live, cfg, swap>>
  <2> DEFINE now == {Decide(c, cfg, u, rs) :
                       c \in IF swap = "put" THEN {staged} ELSE {live, staged}}
             r == [NoRequest EXCEPT !.pc = "check", !.url = {u}, !.roles = rs,
                                    !.seen = now, !.calm = (swap = "idle")]
  <2>1. now \subseteq Outcomes
    BY DecisionIsOutcome
  <2>2. (swap = "idle") \in BOOLEAN
    OBVIOUS
  <2>3. r \in RequestType
    <3> HIDE DEF now
    <3> QED
      BY <2>1, <2>2 DEF RequestType, NoRequest, Filters, Outcomes
  <2>4. Set(t, r) /\ UNCHANGED <<staged, live, cfg, swap>>
    BY <1>6 DEF Arrive
  <2> QED
    BY <2>3, <2>4, <1>2
<1>7. ASSUME NEW t \in Requests, Handle(t)
      PROVE  /\ req' \in [Requests -> RequestType]
             /\ UNCHANGED <<staged, live, cfg, swap>>
  <2> DEFINE r == req[t]
  <2>0. r \in RequestType
    BY <1>0
  <2>1. ASSUME NEW o \in Outcomes
        PROVE  [r EXCEPT !.pc = "done", !.outcome = o] \in RequestType
    BY <2>0 DEF RequestType
  <2>2. {"allowed", "denied", "error", "unfiltered"} \subseteq Outcomes
    BY DEF Outcomes
  <2>3. CASE CheckChains(t)
    <3>1. [r EXCEPT !.pc = "match"] \in RequestType
      BY <2>0 DEF RequestType
    <3> QED
      BY <2>1, <2>2, <2>3, <3>1, <1>2 DEF CheckChains
  <2>4. CASE MatchName(t)
    <3>1. [r EXCEPT !.pc = "proxy", !.name = @ \cup (r.url \cap (live.public \cup live.role))]
            \in RequestType
      BY <2>0 DEF RequestType
    <3> QED
      BY <2>4, <3>1, <1>2 DEF MatchName
  <2>5. CASE MatchThrows(t)
    BY <2>1, <2>2, <2>5, <1>2 DEF MatchThrows
  <2>6. CASE Proxy(t)
    <3> DEFINE chain == ChainUnder(r.name)
    <3>1. chain \subseteq Filters
      BY <1>0 DEF ChainUnder, Filters, Chains
    <3>2. [r EXCEPT !.pc = "run", !.filters = chain] \in RequestType
      BY <3>1, <2>0 DEF RequestType
    <3> QED
      BY <2>1, <2>2, <2>6, <3>2, <1>2 DEF Proxy
  <2>7. CASE RunFilters(t)
    BY <2>1, <2>2, <2>7, <1>2 DEF RunFilters
  <2> QED
    BY <1>7, <2>3, <2>4, <2>5, <2>6, <2>7 DEF Handle
<1> QED
  BY <1>0, <1>3, <1>4, <1>5, <1>6, <1>7 DEF Next

(* Every state has the types of the model.                                 *)
THEOREM TypeCorrect == Spec => []TypeOK
  BY TypeInit, TypeStep, PTL DEF Spec

-----------------------------------------------------------------------------
(* The two maps.  While the live map is filled it has whole entries of the *)
(* staged one, and its "/**" is still missing.                             *)
MapsAgree ==
  /\ Sound(staged)
  /\ swap = "idle" => live = staged
  /\ swap = "clear" => Sound(live)
  /\ swap = "put" =>
       /\ live.default = "none"
       /\ \A u \in live.public \cup live.role :
             (u \in live.public <=> u \in staged.public) /\ (u \in live.role <=> u \in staged.role)

LEMMA MapsInit == Init => MapsAgree
BY DEF Init, MapsAgree, Version, Sound

LEMMA MapsStep == TypeOK /\ MapsAgree /\ [Next]_vars => MapsAgree'
<1> SUFFICES ASSUME TypeOK, MapsAgree, [Next]_vars PROVE MapsAgree'
  OBVIOUS
<1> USE DEF MapsAgree, Sound
<1>1. CASE \/ UNCHANGED vars
           \/ \E t \in Requests : Handle(t)
           \/ \E t \in Requests, u \in Urls, rs \in SUBSET Roles : Arrive(t, u, rs)
  <2>1. UNCHANGED <<staged, live, cfg, swap>>
    BY <1>1 DEF vars, Handle, CheckChains, MatchName, MatchThrows, Proxy, RunFilters, Arrive
  <2> QED
    BY <2>1
<1>2. CASE \E v \in Version : Stage(v)
  BY <1>2 DEF Stage, Version
<1>3. CASE ClearLive
  BY <1>3 DEF ClearLive, NoChains
<1>4. ASSUME NEW e \in Urls, PutUrl(e) PROVE MapsAgree'
  <2>1. /\ swap = "put" /\ swap' = "put" /\ staged' = staged
        /\ live'.public = live.public \cup ({e} \cap staged.public)
        /\ live'.role = live.role \cup ({e} \cap staged.role)
        /\ live'.default = live.default
        /\ e \notin live.public \cup live.role
    BY <1>4 DEF PutUrl, TypeOK, Chains
  <2> QED
    BY <2>1
<1>5. CASE PutDefault
  BY <1>5 DEF PutDefault
<1> QED
  BY <1>1, <1>2, <1>3, <1>4, <1>5 DEF Next, Swap

-----------------------------------------------------------------------------
(* The filters a chain may have.                                           *)
Shapes == {{"anon"}, {"roles"}, {"anon", "roles"}, {"basic"}, {"authc"}}

NameNow(u) == {u} \cap (live.public \cup live.role)

(* What a request r for u has to go on with: it is about to repeat a       *)
(* decision it has seen, and while it is calm there is only one.           *)
Underway(r, u) ==
  /\ r.url = {u} /\ u \in Urls
  /\ Decide(staged, cfg, u, r.roles) \in r.seen
  /\ swap # "put" => Decide(live, cfg, u, r.roles) \in r.seen
  /\ r.calm => swap = "idle" /\ r.seen = {Decide(live, cfg, u, r.roles)}
  /\ r.pc \in {"check", "match"} => r.name = {}
  /\ r.pc \in {"proxy", "run"} => r.name \in {{}, {u}} /\ (r.calm => r.name = NameNow(u))
  /\ r.pc = "run" =>
       /\ r.filters \in Shapes
       /\ "roles" \in r.filters => Passed(u, r.roles) \in r.seen
       /\ r.filters \in {{"anon"}, {"authc"}} => "allowed" \in r.seen
       /\ r.filters = {"basic"} => r.name = {}
       /\ r.calm => r.filters = ChainUnder(r.name)

(* What a request that is done has been told.                              *)
WasTold(r) ==
  r.outcome # "none" =>
    /\ r.calm => r.seen = {r.outcome}
    /\ r.outcome = "allowed" => "allowed" \in r.seen
    /\ r.outcome = "denied" => "denied" \in r.seen \/ (r.name = {} /\ ~ r.calm)

Follows(r) == IF r.pc = "done" THEN WasTold(r) ELSE \E u \in Urls : Underway(r, u)

AllFollow == \A t \in Requests : Follows(req[t])

(* New chains are staged: the request sees their decision; what the role   *)
(* list of u decides is the old decision or the new one.                   *)
LEMMA StageFollows ==
  ASSUME TypeOK, MapsAgree, NEW t \in Requests, Follows(req[t]), NEW v \in Version, Stage(v)
  PROVE  Follows(req[t])'
<1> DEFINE r == req[t]
           s == req'[t]
<1>0. /\ r \in RequestType /\ cfg \in [Urls -> SUBSET Roles]
      /\ staged \in Chains /\ live \in Chains /\ v.chains \in Chains
      /\ Sound(v.chains) /\ Sound(staged) /\ live = staged
      /\ staged' = v.chains /\ cfg' = v.cfg /\ live' = live /\ swap = "idle" /\ swap' = "clear"
      /\ \A u \in Urls \ v.chains.role : v.cfg[u] = cfg[u]
  BY DEF TypeOK, RequestType, MapsAgree, Stage, Version, Sound
<1>1. CASE r.pc = "done"
  <2>1. s = r
    BY <1>1 DEF Stage
  <2> QED
    BY <1>1, <2>1 DEF Follows, WasTold
<1>2. CASE r.pc # "done"
  <2> PICK u \in Urls : Underway(r, u)
    BY <1>2 DEF Follows
  <2> DEFINE now == {Decide(v.chains, v.cfg, w, r.roles) : w \in r.url}
  <2>1. s = [r EXCEPT !.calm = FALSE, !.seen = @ \cup now]
    BY <1>2 DEF Stage
  <2>2. Decide(v.chains, v.cfg, u, r.roles) \in now
    BY DEF Underway
  <2> HIDE DEF now
  <2>3. /\ s.calm = FALSE /\ s.seen = r.seen \cup now /\ s.pc = r.pc /\ s.url = r.url
        /\ s.roles = r.roles /\ s.name = r.name /\ s.filters = r.filters
    BY <2>1, <1>0 DEF RequestType
  <2>4. Decide(staged, cfg, u, r.roles)' \in s.seen
    BY <2>2, <2>3, <1>0
  <2>5. Passed(u, r.roles) \in r.seen => Passed(u, r.roles)' \in s.seen
    <3>1. CASE u \in v.chains.role
      <4>1. Decide(v.chains, v.cfg, u, r.roles) = Passed(u, r.roles)'
        BY <3>1, <1>0, <2>3 DEF Decide, Passed, RolesPass, Sound, NoChains
      <4> QED
        BY <4>1, <2>2, <2>3
    <3>2. CASE u \notin v.chains.role
      BY <3>2, <1>0, <2>3 DEF Passed, RolesPass
    <3> QED
      BY <3>1, <3>2
  <2>6. Decide(live, cfg, u, r.roles)' \in s.seen
    <3>1. Decide(live, cfg, u, r.roles) \in r.seen
      BY <1>0 DEF Underway
    <3>2. CASE u \in live.role
      <4>1. Decide(live, cfg, u, r.roles) = Passed(u, r.roles)
        BY <3>2, <1>0, DecisionOfSound
      <4>2. Decide(live, cfg, u, r.roles)' = Passed(u, r.roles)'
        BY <3>2, <1>0, <2>3 DEF Decide, Passed, RolesPass, Sound, NoChains
      <4> QED
        BY <3>1, <4>1, <4>2, <2>5
    <3>3. CASE u \notin live.role
      <4>1. Decide(live, cfg, u, r.roles)' = Decide(live, cfg, u, r.roles)
        BY <3>3, <1>0, <2>3 DEF Decide
      <4> QED
        BY <3>1, <4>1, <2>3
    <3> QED
      BY <3>2, <3>3
  <2>7. Underway(r, u)'
    BY <2>3, <2>4, <2>5, <2>6, <1>0 DEF Underway
  <2> QED
    BY <2>3, <2>7, <1>2 DEF Follows
<1> QED
  BY <1>1, <1>2

(* The map changes under the request: nothing new is decided.              *)
LEMMA SwapFollows ==
  ASSUME TypeOK, MapsAgree, NEW t \in Requests, Follows(req[t]), Swap
  PROVE  Follows(req[t])'
<1> DEFINE r == req[t]
<1>0. req' = req /\ staged' = staged /\ cfg' = cfg /\ swap # "idle"
  BY DEF Swap, ClearLive, PutUrl, PutDefault
<1>1. swap' # "put" => live' = staged
  BY DEF Swap, ClearLive, PutUrl, PutDefault
<1>2. CASE r.pc = "done"
  BY <1>0, <1>2 DEF Follows, WasTold
<1>3. CASE r.pc # "done"
  <2> PICK u \in Urls : Underway(r, u)
    BY <1>3 DEF Follows
  <2>1. ~ r.calm
    BY <1>0 DEF Underway
  <2>2. Underway(r, u)'
    BY <2>1, <1>0, <1>1 DEF Underway, Passed, RolesPass
  <2> QED
    BY <1>0, <1>3, <2>2 DEF Follows
<1> QED
  BY <1>2, <1>3

LEMMA ArriveFollows ==
  ASSUME TypeOK, MapsAgree, NEW t \in Requests, NEW u \in Urls, NEW rs \in SUBSET Roles,
         Arrive(t, u, rs)
  PROVE  Follows(req[t])'
<1> DEFINE now == {Decide(c, cfg, u, rs) : c \in IF swap = "put" THEN {staged} ELSE {live, staged}}
           r == [NoRequest EXCEPT !.pc = "check", !.url = {u}, !.roles = rs,
                                  !.seen = now, !.calm = (swap = "idle")]
<1>1. req' = [req EXCEPT ![t] = r] /\ UNCHANGED <<staged, live, cfg, swap>>
  BY DEF Arrive, Set
<1>2. /\ Decide(staged, cfg, u, rs) \in now
      /\ swap # "put" => Decide(live, cfg, u, rs) \in now
      /\ swap = "idle" => now = {Decide(live, cfg, u, rs)}
  BY DEF MapsAgree
<1> HIDE DEF now
<1>3. /\ r.pc = "check" /\ r.url = {u} /\ r.roles = rs /\ r.seen = now /\ r.name = {}
      /\ r.calm = (swap = "idle")
  BY DEF NoRequest
<1>4. req'[t] = r
  BY <1>1 DEF TypeOK
<1> HIDE DEF r
<1>5. Underway(req[t], u)'
  BY <1>1, <1>2, <1>3, <1>4 DEF Underway
<1> QED
  BY <1>3, <1>4, <1>5 DEF Follows

(* The chain under the name that was picked decides as the map it is from. *)
LEMMA ChainDecides ==
  ASSUME TypeOK, MapsAgree, NEW r \in RequestType, NEW u, Underway(r, u), r.pc = "proxy",
         ChainUnder(r.name) # {}
  PROVE  LET chain == ChainUnder(r.name)
         IN  /\ chain \in Shapes
             /\ "roles" \in chain => Passed(u, r.roles) \in r.seen
             /\ chain \in {{"anon"}, {"authc"}} => "allowed" \in r.seen
             /\ chain = {"basic"} => r.name = {}
<1> DEFINE chain == ChainUnder(r.name)
<1>0. /\ staged \in Chains /\ live \in Chains /\ Sound(staged)
      /\ swap \in {"idle", "clear", "put"}
      /\ r.name = {} \/ r.name = {u}
  BY DEF TypeOK, MapsAgree, Underway
<1>1. swap # "put" => Sound(live)
  BY <1>0 DEF MapsAgree
<1>2. CASE r.name = {}
  <2>1. chain = {live.default} /\ live.default \in {"basic", "authc"}
    BY <1>0, <1>2 DEF ChainUnder, Chains
  <2>2. CASE live.default = "authc"
    <3>1. swap # "put"
      BY <2>2 DEF MapsAgree
    <3>2. Decide(live, cfg, u, r.roles) = "allowed"
      BY <3>1, <2>2, <1>0, <1>1, DecisionOfSound DEF Sound
    <3> QED
      BY <3>1, <3>2, <2>1, <2>2 DEF Underway, Shapes
  <2>3. CASE live.default = "basic"
    BY <2>1, <2>3, <1>2 DEF Shapes
  <2> QED
    BY <2>1, <2>2, <2>3
<1>3. CASE r.name = {u}
  <2>1. chain = (IF u \in live.public THEN {"anon"} ELSE {})
                  \cup (IF u \in live.role THEN {"roles"} ELSE {})
    BY <1>3 DEF ChainUnder
  <2> DEFINE decision == IF u \in live.role THEN Passed(u, r.roles) ELSE "allowed"
  <2>2. u \in live.public \/ u \in live.role
    BY <2>1
  <2>3. decision \in r.seen
    <3>1. CASE swap # "put"
      <4>1. Decide(live, cfg, u, r.roles) = decision
        BY <3>1, <2>2, <1>0, <1>1, DecisionOfSound
      <4> QED
        BY <4>1, <3>1 DEF Underway
    <3>2. CASE swap = "put"
      <4>1. (u \in live.public <=> u \in staged.public) /\ (u \in live.role <=> u \in staged.role)
        BY <3>2, <2>2 DEF MapsAgree
      <4>2. Decide(staged, cfg, u, r.roles) = decision
        BY <4>1, <2>2, <1>0, DecisionOfSound
      <4> QED
        BY <4>2 DEF Underway
    <3> QED
      BY <3>1, <3>2
  <2>4. CASE u \in live.role
    BY <2>1, <2>3, <2>4 DEF Shapes
  <2>5. CASE u \notin live.role
    BY <2>1, <2>2, <2>3, <2>5 DEF Shapes
  <2> QED
    BY <2>4, <2>5
<1> QED
  BY <1>0, <1>2, <1>3

(* What the filters of a request that runs them say.                       *)
LEMMA FiltersDecide ==
  ASSUME TypeOK, MapsAgree, NEW r \in RequestType, NEW u, Underway(r, u), r.pc = "run",
         NEW o, o = IF /\ "basic" \notin r.filters
                       /\ "roles" \in r.filters => \A w \in r.url : RolesPass(w, r.roles)
                    THEN "allowed" ELSE "denied"
  PROVE  /\ r.calm => r.seen = {o}
         /\ o = "allowed" => "allowed" \in r.seen
         /\ o = "denied" => "denied" \in r.seen \/ (r.name = {} /\ ~ r.calm)
<1>0. /\ r.url = {u} /\ r.filters \in Shapes
      /\ live \in Chains
      /\ swap = "idle" => Sound(live)
  BY DEF TypeOK, MapsAgree, Underway
<1>1. /\ "roles" \in r.filters => o = Passed(u, r.roles)
      /\ r.filters \in {{"anon"}, {"authc"}} => o = "allowed"
      /\ r.filters = {"basic"} => o = "denied"
  BY <1>0 DEF Shapes, Passed
<1>2. r.calm => o = Decide(live, cfg, u, r.roles)
  <2> SUFFICES ASSUME r.calm PROVE o = Decide(live, cfg, u, r.roles)
    OBVIOUS
  <2>1. r.name = NameNow(u) /\ r.filters = ChainUnder(r.name) /\ Sound(live)
    BY <1>0 DEF Underway
  <2>2. Decide(live, cfg, u, r.roles) =
           IF u \in live.role THEN Passed(u, r.roles)
           ELSE IF u \in live.public \/ live.default = "authc" THEN "allowed" ELSE "denied"
    BY <1>0, <2>1, DecisionOfSound
  <2>3. CASE u \in live.public \cup live.role
    <3>1. r.name = {u}
      BY <2>1, <2>3 DEF NameNow
    <3>2. r.filters = (IF u \in live.public THEN {"anon"} ELSE {})
                        \cup (IF u \in live.role THEN {"roles"} ELSE {})
      BY <2>1, <3>1 DEF ChainUnder
    <3>3. CASE u \in live.role
      BY <3>2, <3>3, <2>2, <1>1
    <3>4. CASE u \notin live.role
      <4>1. r.filters = {"anon"}
        BY <3>2, <3>4, <2>3
      <4> QED
        BY <4>1, <3>4, <2>2, <2>3, <1>1
    <3> QED
      BY <3>3, <3>4
  <2>4. CASE u \notin live.public \cup live.role
    <3>1. r.name = {}
      BY <2>1, <2>4 DEF NameNow
    <3>2. r.filters = {live.default} /\ live.default \in {"basic", "authc"}
      BY <2>1, <3>1, <1>0 DEF ChainUnder, Chains, Sound
    <3> QED
      BY <3>2, <2>2, <2>4, <1>1
  <2> QED
    BY <2>3, <2>4
<1>3. r.calm => r.seen = {o}
  BY <1>2 DEF Underway
<1>4. o = "allowed" => "allowed" \in r.seen
  BY <1>0, <1>1 DEF Underway, Shapes
<1>5. o = "denied" => "denied" \in r.seen \/ (r.name = {} /\ ~ r.calm)
  <2>1. CASE r.filters = {"basic"}
    BY <2>1, <1>3 DEF Underway
  <2>2. CASE r.filters # {"basic"}
    BY <2>2, <1>0, <1>1 DEF Underway, Shapes
  <2> QED
    BY <2>1, <2>2
<1> QED
  BY <1>3, <1>4, <1>5

(* One step of the request itself.                                         *)
LEMMA HandleFollows ==
  ASSUME TypeOK, MapsAgree, NEW t \in Requests, Follows(req[t]), Handle(t)
  PROVE  Follows(req[t])'
<1> DEFINE r == req[t]
           s == req'[t]
<1>0. r \in RequestType /\ r.pc # "done" /\ UNCHANGED <<staged, live, cfg, swap>>
  BY DEF TypeOK, RequestType, Handle, CheckChains, MatchName, MatchThrows, Proxy, RunFilters
<1> PICK u \in Urls : Underway(r, u)
  BY <1>0 DEF Follows
<1>1. \A x : Set(t, x) => s = x
  BY DEF Set, TypeOK
<1>2. ASSUME NEW o \in {"unfiltered", "error"}, ~ r.calm,
             Set(t, [r EXCEPT !.pc = "done", !.outcome = o])
      PROVE  Follows(req[t])'
  <2>1. s = [r EXCEPT !.pc = "done", !.outcome = o]
    BY <1>1, <1>2
  <2>2. s.pc = "done" /\ s.outcome = o /\ ~ s.calm
    BY <2>1, <1>0, <1>2 DEF RequestType
  <2> QED
    BY <2>2 DEF Follows, WasTold
<1>3. r.calm => swap = "idle" /\ Sound(live)
  BY DEF Underway, MapsAgree
<1>4. CASE CheckChains(t)
  <2>1. CASE live = NoChains
    <3>1. ~ r.calm
      BY <2>1, <1>3 DEF Sound, NoChains
    <3> QED
      BY <3>1, <2>1, <1>2, <1>4 DEF CheckChains
  <2>2. CASE live # NoChains
    <3>1. s = [r EXCEPT !.pc = "match"] /\ r.pc = "check"
      BY <2>2, <1>1, <1>4 DEF CheckChains
    <3>2. /\ s.pc = "match" /\ s.name = {} /\ s.url = r.url /\ s.roles = r.roles
          /\ s.seen = r.seen /\ s.calm = r.calm
      BY <3>1, <1>0 DEF RequestType, Underway
    <3>3. Underway(r, u)'
      BY <3>2, <1>0 DEF Underway
    <3> QED
      BY <3>2, <3>3 DEF Follows
  <2> QED
    BY <2>1, <2>2
<1>5. CASE MatchName(t)
  <2>1. s = [r EXCEPT !.pc = "proxy", !.name = @ \cup (r.url \cap (live.public \cup live.role))]
    BY <1>1, <1>5 DEF MatchName
  <2>2. /\ s.pc = "proxy" /\ s.name = NameNow(u) /\ s.url = r.url /\ s.roles = r.roles
        /\ s.seen = r.seen /\ s.calm = r.calm
    BY <2>1, <1>0, <1>5 DEF RequestType, Underway, MatchName, NameNow
  <2>3. NameNow(u)' = NameNow(u) /\ NameNow(u) \in {{}, {u}}
    BY <1>0 DEF NameNow
  <2>4. Underway(r, u)'
    BY <2>2, <2>3, <1>0 DEF Underway
  <2> QED
    BY <2>2, <2>4 DEF Follows
<1>6. CASE MatchThrows(t)
  <2>1. ~ r.calm
    BY <1>3, <1>6 DEF MatchThrows
  <2> QED
    BY <2>1, <1>2, <1>6 DEF MatchThrows
<1>7. CASE Proxy(t)
  <2> DEFINE chain == ChainUnder(r.name)
  <2>0. r.pc = "proxy" /\ (r.calm => r.name = NameNow(u))
    BY <1>7 DEF Proxy, Underway
  <2>1. CASE chain = {}
    <3>1. ~ r.calm
      <4> SUFFICES ASSUME r.calm PROVE chain # {}
        BY <2>1
      <4>1. r.name = NameNow(u) /\ live.default # "none"
        BY <2>0, <1>3 DEF Sound
      <4>2. CASE u \in live.public \cup live.role
        <5>1. r.name = {u}
          BY <4>1, <4>2 DEF NameNow
        <5> QED
          BY <5>1, <4>2 DEF ChainUnder
      <4>3. CASE u \notin live.public \cup live.role
        <5>1. r.name = {}
          BY <4>1, <4>3 DEF NameNow
        <5> QED
          BY <5>1, <4>1 DEF ChainUnder
      <4> QED
        BY <4>2, <4>3
    <3> QED
      BY <3>1, <2>1, <1>2, <1>7 DEF Proxy
  <2>2. CASE chain # {}
    <3>1. /\ chain \in Shapes
          /\ "roles" \in chain => Passed(u, r.roles) \in r.seen
          /\ chain \in {{"anon"}, {"authc"}} => "allowed" \in r.seen
          /\ chain = {"basic"} => r.name = {}
      BY <2>0, <2>2, <1>0, ChainDecides
    <3>2. s = [r EXCEPT !.pc = "run", !.filters = chain]
      BY <2>2, <1>1, <1>7 DEF Proxy
    <3>3. \A name : ChainUnder(name)' = ChainUnder(name)
      BY <1>0 DEF ChainUnder
    <3>4. NameNow(u)' = NameNow(u) /\ Passed(u, r.roles)' = Passed(u, s.roles)
      BY <1>0 DEF NameNow, Passed, RolesPass
    <3> HIDE DEF chain
    <3>5. /\ s.pc = "run" /\ s.name = r.name /\ s.url = r.url /\ s.roles = r.roles
          /\ s.seen = r.seen /\ s.calm = r.calm /\ s.filters = chain
      BY <3>2, <1>0 DEF RequestType
    <3>6. chain = ChainUnder(r.name)
      BY DEF chain
    <3>7. Underway(r, u)'
      BY <2>0, <3>1, <3>3, <3>4, <3>5, <3>6, <1>0 DEF Underway
    <3> QED
      BY <3>5, <3>7 DEF Follows
  <2> QED
    BY <2>1, <2>2
<1>8. CASE RunFilters(t)
  <2> DEFINE o == IF /\ "basic" \notin r.filters
                     /\ "roles" \in r.filters => \A w \in r.url : RolesPass(w, r.roles)
                  THEN "allowed" ELSE "denied"
  <2>1. s = [r EXCEPT !.pc = "done", !.outcome = o] /\ r.pc = "run"
    BY <1>1, <1>8 DEF RunFilters
  <2>2. /\ r.calm => r.seen = {o}
        /\ o = "allowed" => "allowed" \in r.seen
        /\ o = "denied" => "denied" \in r.seen \/ (r.name = {} /\ ~ r.calm)
    BY <2>1, <1>0, FiltersDecide
  <2> HIDE DEF o
  <2>3. /\ s.pc = "done" /\ s.outcome = o /\ s.seen = r.seen /\ s.calm = r.calm /\ s.name = r.name
    BY <2>1, <1>0 DEF RequestType
  <2> QED
    BY <2>2, <2>3 DEF Follows, WasTold
<1> QED
  BY <1>4, <1>5, <1>6, <1>7, <1>8 DEF Handle

(* A request stays as it is while others act.                              *)
LEMMA OthersFollow ==
  ASSUME NEW t \in Requests, Follows(req[t]), req'[t] = req[t],
         UNCHANGED <<staged, live, cfg, swap>>
  PROVE  Follows(req[t])'
<1>1. \A u, rs, name : /\ NameNow(u)' = NameNow(u)
                       /\ (Passed(u, rs) = Passed(u, rs))'
                       /\ ChainUnder(name)' = ChainUnder(name)
  BY DEF NameNow, ChainUnder
<1> QED
  BY <1>1 DEF Follows, WasTold, Underway, Passed, RolesPass

LEMMA FollowStep == TypeOK /\ MapsAgree /\ AllFollow /\ [Next]_vars => AllFollow'
<1> SUFFICES ASSUME TypeOK, MapsAgree, AllFollow, [Next]_vars, NEW t \in Requests
             PROVE  Follows(req[t])'
  BY DEF AllFollow
<1>0. Follows(req[t])
  BY DEF AllFollow
<1>1. CASE UNCHANGED vars
  BY <1>0, <1>1, OthersFollow DEF vars
<1>2. CASE \E v \in Version : Stage(v)
  BY <1>0, <1>2, StageFollows
<1>3. CASE Swap
  BY <1>0, <1>3, SwapFollows
<1>4. ASSUME NEW k \in Requests, NEW u \in Urls \ {Blank}, NEW rs \in SUBSET Roles, Arrive(k, u, rs)
      PROVE  Follows(req[t])'
  <2>1. CASE k = t
    BY <2>1, <1>4, ArriveFollows
  <2>2. CASE k # t
    <3>1. req'[t] = req[t] /\ UNCHANGED <<staged, live, cfg, swap>>
      BY <2>2, <1>4 DEF Arrive, Set
    <3> QED
      BY <3>1, <1>0, OthersFollow
  <2> QED
    BY <2>1, <2>2
<1>5. ASSUME NEW k \in Requests, Handle(k) PROVE Follows(req[t])'
  <2>1. CASE k = t
    BY <2>1, <1>0, <1>5, HandleFollows
  <2>2. CASE k # t
    <3>1. \E x : req' = [req EXCEPT ![k] = x]
      BY <1>5, Zenon DEF Handle, CheckChains, MatchName, MatchThrows, Proxy, RunFilters, Set
    <3>2. req'[t] = req[t]
      BY <3>1, <2>2 DEF TypeOK
    <3>3. UNCHANGED <<staged, live, cfg, swap>>
      BY <1>5 DEF Handle, CheckChains, MatchName, MatchThrows, Proxy, RunFilters
    <3> QED
      BY <3>2, <3>3, <1>0, OthersFollow
  <2> QED
    BY <2>1, <2>2
<1> QED
  BY <1>1, <1>2, <1>3, <1>4, <1>5 DEF Next

LEMMA FollowAlways == Spec => []AllFollow
<1>1. Init => AllFollow
  BY DEF Init, AllFollow, Follows, WasTold, NoRequest
<1> QED
  BY <1>1, MapsInit, MapsStep, FollowStep, TypeCorrect, PTL DEF Spec

(* A request that no rebuild overlaps is decided as the chains in force    *)
(* say (PathMatchingFilterChainResolver and the filters).                  *)
LEMMA DecisionsSettled == Spec => []SettledDecision
<1>1. AllFollow => SettledDecision
  BY DEF AllFollow, Follows, WasTold, SettledDecision, Answered
<1> QED
  BY <1>1, FollowAlways, PTL

(* Whatever rebuilds overlap a request, its name, chain and role list may  *)
(* each be of another one, and yet it is allowed only if one of them       *)
(* allows it, and denied only if one of them denies it, but for the url    *)
(* whose entry was not yet put back; without a rebuild it is decided as the*)
(* chains in force say.  (An overlapped request may also end in an error or*)
(* go past the filters: of that nothing is stated.)                        *)
THEOREM DecisionsOfVersions == Spec => []DecidedByAVersion
<1>1. AllFollow => AllowedByAVersion /\ DeniedByAVersion
  BY DEF AllFollow, Follows, WasTold, AllowedByAVersion, DeniedByAVersion, Answered
<1>2. AllFollow /\ SettledDecision => DecidedByAVersion
  BY <1>1 DEF DecidedByAVersion
<1> QED
  BY <1>2, FollowAlways, DecisionsSettled, PTL

=============================================================================
