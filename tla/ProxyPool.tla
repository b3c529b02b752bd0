----------------------------- MODULE ProxyPool -----------------------------
(***************************************************************************)
(* src/lib/http-client.ts: the proxy pool one process shares between the   *)
(* requests it has in flight and the jobs that force a new preflight       *)
(* (photo sync, photo cluster).  JavaScript runs one thread: what stands   *)
(* between two awaits is one step, and whoever waited for a preflight goes *)
(* on before the next answer of the network (Quiet).                       *)
(***************************************************************************)
EXTENDS Integers, Sequences, FiniteSets

CONSTANTS
  Request,      \* invocations of httpRequest
  Forcer,       \* invocations of prepareProxyPool with force, by jobs
  ProxyConf,    \* configurations: mode, list, preflight, topN, minWorking,
                \* strict, cap (maxRoutesPerRequest), url (the one a job forces)
  Retries,      \* options.retries
  MaxFlights    \* bound: preflights started

DEFAULTURL == "env.proxy.healthcheckUrl"

\* Each line of the list is a proxy, and its name neither of the two below;
\* env.ts refuses another mode and a cap without a route.  A caller that asks
\* for no round of its routes sends nothing: there are none such.
ASSUME ProxyAssumption ==
  /\ Request \cap Forcer = {} /\ Retries \in Nat \ {0} /\ MaxFlights \in Nat
  /\ \A k \in ProxyConf :
       /\ k.mode \in {"direct", "proxy", "mixed"} /\ k.cap \in Nat \ {0}
       /\ k.list \in Seq(STRING) /\ k.topN \in Nat \ {0}
       /\ \A i \in 1..Len(k.list) : k.list[i] \notin {"direct", "null"}

VARIABLES
  conf,        \* the configuration of the process
  pool,        \* activeProxiesCache, NoPool for null
  ready,       \* preflightCompleted
  target,      \* preflightTargetUrl, "none" for null
  promise,     \* preflightPromise: the preflight it stands for, 0 for null
  turn,        \* proxyIndex
  flight,      \* each preflight: its url, state and selection
  caller,      \* where each request and each forcing job is
  on,          \* the preflight it awaits
  routes,      \* what a request tries in turn; what a job goes on with
  tried,       \* sendRouteRequest calls it has made
  answered     \* lastResponse # null

poolVars == <<conf, pool, ready, target, promise, turn, flight, caller, on, routes,
              tried, answered>>
poolState == <<pool, ready, target, promise>>
callState == <<caller, on, routes, tried, answered>>

Caller == Request \cup Forcer
Flight == 1..MaxFlights
NoPool == <<"null">>
Direct == "direct"
NoFlight == [url |-> "none", state |-> "free", chosen |-> << >>]

PoolInit ==
  /\ conf \in ProxyConf
  /\ pool = NoPool /\ ready = FALSE /\ target = "none" /\ promise = 0 /\ turn = 0
  /\ flight = [f \in Flight |-> NoFlight]
  /\ caller = [c \in Caller |-> "idle"]
  /\ on = [c \in Caller |-> 0]
  /\ routes = [c \in Caller |-> << >>]
  /\ tried = [c \in Caller |-> 0]
  /\ answered = [c \in Caller |-> FALSE]

-----------------------------------------------------------------------------
(* Routes. *)

\* getActiveProxyList: with nothing selected it is everything configured.
ActiveList(p) == IF p # NoPool /\ p # << >> THEN p ELSE conf.list

FirstN(s, n) == SubSeq(s, 1, IF n < Len(s) THEN n ELSE Len(s))

\* Mutant of Limited: the first routes, whatever they are, in mixed mode too.
LimitedPlain(r) == FirstN(r, conf.cap)

\* The proxies among the routes r, in their order.
ProxyOnly(r) ==
  LET keep[n \in 0..Len(r)] ==
        IF n = 0 THEN << >>
        ELSE IF r[n] = Direct THEN keep[n - 1] ELSE Append(keep[n - 1], r[n])
  IN keep[Len(r)]

\* limitProxyRoutes: in mixed mode the direct route keeps its place.
Limited(r) ==
  IF Len(r) <= conf.cap \/ conf.mode = "proxy" THEN FirstN(r, conf.cap)
  ELSE FirstN(ProxyOnly(r), conf.cap - 1) \o <<Direct>>

Rotated(s, k) == [i \in 1..Len(s) |-> s[((k + i - 1) % Len(s)) + 1]]

\* getProxyRouteOrder, for the pool p and the turn k.
RouteOrder(p, k) ==
  LET list == ActiveList(p) IN
  IF conf.mode = "direct" \/ list = << >> THEN <<Direct>>
  ELSE Limited(Rotated(list, k) \o (IF conf.mode = "mixed" THEN <<Direct>> ELSE << >>))

NextTurn(p, k) ==
  LET list == ActiveList(p) IN
  IF conf.mode = "direct" \/ list = << >> THEN k ELSE (k + 1) % Len(list)

-----------------------------------------------------------------------------
(* prepareProxyPoolWithHealthcheck. *)

\* After a preflight has ended, its waiters run before anything else does.
Quiet ==
  \A c \in Caller : caller[c] = "waiting" => flight[on[c]].state = "running"

Fails(c) == caller' = [caller EXCEPT ![c] = "failed"]

\* A caller goes on with a pool: a request computes its routes, a job reads
\* the selection (getActiveProxyUrls).
GoesOn(c, p, k) ==
  /\ caller' = [caller EXCEPT ![c] = IF c \in Request THEN "trying" ELSE "ok"]
  /\ routes' = [routes EXCEPT ![c] = IF c \in Request THEN RouteOrder(p, k)
                                     ELSE ActiveList(p)]
  /\ turn' = IF c \in Request THEN NextTurn(p, k) ELSE k

\* Waits for a preflight: the one under way, or a new one.
AwaitPreflight(c, url, current) ==
  \E f \in Flight :
    /\ IF current # 0
       THEN f = current /\ UNCHANGED flight
       ELSE /\ flight[f] = NoFlight
            /\ \A g \in 1..(f - 1) : flight[g] # NoFlight
            /\ flight' = [flight EXCEPT ![f] = [NoFlight EXCEPT !.url = url,
                                                               !.state = "running"]]
    /\ promise' = f
    /\ on' = [on EXCEPT ![c] = f]
    /\ caller' = [caller EXCEPT ![c] = "waiting"]

\* Everything up to the first await; p, r, t, q, k are the module's variables
\* pool, ready, target, promise and turn as they stand after a force.
Prepare(c, url, p, r, t, q, k) ==
  \/ /\ conf.list = << >> /\ conf.mode = "proxy"
     /\ pool' = p /\ ready' = r /\ target' = t /\ promise' = q /\ turn' = k
     /\ Fails(c) /\ UNCHANGED <<flight, on, routes>>
  \/ /\ conf.mode = "direct" \/ (conf.list = << >> /\ conf.mode # "proxy")
     /\ pool' = << >> /\ ready' = TRUE /\ target' = "none" /\ promise' = q
     /\ GoesOn(c, << >>, k) /\ UNCHANGED <<flight, on>>
  \/ /\ conf.mode # "direct" /\ conf.list # << >>
     /\ r /\ t = url
     /\ pool' = p /\ ready' = r /\ target' = t /\ promise' = q
     /\ GoesOn(c, p, k) /\ UNCHANGED <<flight, on>>
  \/ /\ conf.mode # "direct" /\ conf.list # << >>
     /\ ~(r /\ t = url) /\ ~conf.preflight
     /\ LET sel == FirstN(conf.list, conf.topN) IN
        /\ pool' = sel /\ ready' = TRUE /\ target' = url /\ promise' = q
        /\ GoesOn(c, sel, k) /\ UNCHANGED <<flight, on>>
  \/ /\ conf.mode # "direct" /\ conf.list # << >>
     /\ ~(r /\ t = url) /\ conf.preflight
     /\ pool' = p /\ ready' = r /\ target' = t /\ turn' = k
     /\ AwaitPreflight(c, url, q) /\ UNCHANGED routes

\* httpRequest; in direct mode there is nothing to prepare.
SendRequest(c) ==
  /\ Quiet /\ c \in Request
  /\ caller[c] = "idle"
  /\ IF conf.mode = "direct"
     THEN GoesOn(c, pool, turn) /\ UNCHANGED <<poolState, flight, on>>
     ELSE Prepare(c, DEFAULTURL, pool, ready, target, promise, turn)
  /\ UNCHANGED <<conf, tried, answered>>

\* Mutant of ForcePreflight: the preflight under way is not dropped.
ForcePreflightJoins(c) ==
  /\ Quiet /\ c \in Forcer
  /\ caller[c] = "idle"
  /\ \A d \in Forcer : caller[d] # "waiting"
  /\ Prepare(c, conf.url, NoPool, FALSE, "none", promise, 0)
  /\ UNCHANGED <<conf, tried, answered>>

\* A job that forces runs under pipeline_refresh: one at a time.  It forgets
\* the pool and the preflight under way, which goes on unattended.
ForcePreflight(c) ==
  /\ Quiet /\ c \in Forcer
  /\ caller[c] = "idle"
  /\ \A d \in Forcer : caller[d] # "waiting"
  /\ Prepare(c, conf.url, NoPool, FALSE, "none", 0, 0)
  /\ UNCHANGED <<conf, tried, answered>>

-----------------------------------------------------------------------------
(* runProxyPreflight and what its end sets off. *)

\* Mutant of Forgets: no finally, the promise stays when the preflight is over.
ForgetsOnSuccess(ok) == IF ok THEN 0 ELSE promise

\* .finally(() => { preflightPromise = null }), whichever preflight it holds.
Forgets(ok) == 0

Once(s) == \A i, j \in DOMAIN s : s[i] = s[j] => i = j

\* The healthy lines of the list come in the order of their latency, any of
\* them fail.  A proxy may be on two lines: parseProxyList drops duplicates only
\* when it merges a file with PROXY_LIST.
HealthyLists ==
  UNION {{[i \in 1..n |-> conf.list[line[i]]] :
            line \in {f \in [1..n -> 1..Len(conf.list)] : Once(f)}} :
         n \in 0..Len(conf.list)}

EndPreflight(f) ==
  /\ Quiet
  /\ flight[f].state = "running"
  /\ \E healthy \in HealthyLists :
       LET sel == FirstN(healthy, conf.topN)
           tooFew == Len(healthy) < conf.minWorking /\ conf.strict
           ok == ~tooFew /\ ~(conf.mode = "proxy" /\ sel = << >>) IN
       /\ flight' = [flight EXCEPT ![f].state = IF ok THEN "ok" ELSE "failed",
                                   ![f].chosen = sel]
       /\ IF tooFew
          THEN UNCHANGED <<pool, ready, target>>
          ELSE pool' = sel /\ ready' = TRUE /\ target' = flight[f].url
       /\ promise' = Forgets(ok)
  /\ UNCHANGED <<conf, turn, callState>>

\* A waiter resumes: the error of its preflight is its own, otherwise it goes
\* on with whatever the pool is now.
Resume(c) ==
  /\ caller[c] = "waiting"
  /\ flight[on[c]].state # "running"
  /\ IF flight[on[c]].state = "failed"
     THEN Fails(c) /\ UNCHANGED <<routes, turn>>
     ELSE GoesOn(c, pool, turn)
  /\ UNCHANGED <<conf, poolState, flight, on, tried, answered>>

\* httpRequest returns or throws, and its locals are gone.
EndRequest(c, how) ==
  /\ caller' = [caller EXCEPT ![c] = how]
  /\ routes' = [routes EXCEPT ![c] = << >>]
  /\ on' = [on EXCEPT ![c] = 0]
  /\ tried' = [tried EXCEPT ![c] = 0]
  /\ answered' = [answered EXCEPT ![c] = FALSE]

\* sendRouteRequest follows redirects and has a deadline; a status is retryable
\* when it is 403, 407, 408, 425, 429 or of a failing server.
RouteOutcomes == {"final", "retryable", "error"}

\* One route is tried: a final response ends the request, a retryable one is
\* kept, an error only noted; options.retries rounds of the routes.
TryRoute(c) ==
  /\ Quiet
  /\ caller[c] = "trying"
  /\ \E o \in RouteOutcomes :
       IF o = "final" THEN EndRequest(c, "ok")
       ELSE LET a == answered[c] \/ o = "retryable" IN
            IF tried[c] + 1 = Retries * Len(routes[c])
            THEN EndRequest(c, IF a THEN "retryable" ELSE "failed")
            ELSE /\ answered' = [answered EXCEPT ![c] = a]
                 /\ tried' = [tried EXCEPT ![c] = @ + 1]
                 /\ UNCHANGED <<caller, on, routes>>
  /\ UNCHANGED <<conf, poolState, turn, flight>>

PoolStep ==
  \/ \E f \in Flight : EndPreflight(f)
  \/ \E c \in Caller : Resume(c) \/ TryRoute(c)

PoolNext == PoolStep \/ \E c \in Caller : SendRequest(c) \/ ForcePreflight(c)

PoolSpec == PoolInit /\ [][PoolNext]_poolVars

-----------------------------------------------------------------------------
(* Properties. *)

PoolTypeOK ==
  LET lists == {conf.list, NoPool, << >>} \cup
               UNION {[1..n -> {conf.list[i] : i \in 1..Len(conf.list)} \cup {Direct}] :
                      n \in 0..(Len(conf.list) + 1)} IN
  /\ conf \in ProxyConf
  /\ pool \in lists /\ ready \in BOOLEAN
  /\ target \in {"none", DEFAULTURL, conf.url}
  /\ promise \in {0} \cup Flight /\ turn \in Nat
  /\ \A f \in Flight : flight[f].state \in {"free", "running", "ok", "failed"}
                       /\ flight[f].chosen \in lists
  /\ caller \in [Caller -> {"idle", "waiting", "trying", "ok", "retryable", "failed"}]
  /\ on \in [Caller -> {0} \cup Flight]
  /\ \A c \in Caller : routes[c] \in lists /\ tried[c] \in 0..Retries * (Len(conf.list) + 1)
  /\ answered \in [Caller -> BOOLEAN]

\* A request tries at most PROXY_MAX_ROUTES_PER_REQUEST routes (README.md:411),
\* none of them twice unless a proxy is configured twice, whatever preflights
\* replaced the pool and turned it meanwhile; in mixed mode the last one is the
\* direct one, so a request whose proxies all answer 403 or 407 does not give up
\* before it has been direct (README.md:450); in proxy mode none is.
RoutesWellFormed ==
  \A c \in Request : caller[c] = "trying" =>
    LET r == routes[c] IN
    /\ r # << >> /\ Len(r) <= conf.cap
    /\ Once(conf.list) => Once(r)
    /\ conf.mode = "mixed" => r[Len(r)] = Direct
    /\ conf.mode = "proxy" => \A i \in 1..Len(r) : r[i] # Direct

\* A job that forces a preflight of its own url goes on with what that one
\* selected, or with all the configured proxies when it found none, whatever
\* requests and older preflights of the process were under way
\* (photo-cluster.ts:137-158, http-client.ts:600-607).
ForcerGetsOwnSelection ==
  \A c \in Forcer : caller[c] = "ok" /\ on[c] # 0 =>
    /\ flight[on[c]].url = conf.url
    /\ routes[c] = IF flight[on[c]].chosen # << >> THEN flight[on[c]].chosen ELSE conf.list

\* preflightPromise stands for a preflight under way: a failed one never stays
\* behind for later requests to fail on (http-client.ts:649-651), although the
\* end of one that was forced aside clears the promise of its successor.
PromiseUnderWay == promise # 0 => flight[promise].state = "running"
=============================================================================
