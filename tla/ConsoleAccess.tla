---------------------------- MODULE ConsoleAccess ----------------------------
(***************************************************************************)
(* Which requests the console passes on, and for whom (middleware.ts,      *)
(* lib/host.ts, lib/tenant.ts, lib/session.ts), and signing in and out     *)
(* (app/api/auth, components/login-form.tsx, components/sign-out.tsx). The *)
(* middleware asks the gateway for the tenant of a host it has not met, so *)
(* several requests may be looking the same one up; what it learns it      *)
(* keeps for as long as the process runs.                                  *)
(***************************************************************************)
EXTENDS ConsolePage, Sequences

CONSTANTS
  Slugs,               \* the tenants' subdomains
  TabTenant,           \* the one the tab with the sign-in is open on
  NoTenant,            \* no tenant found, or none cached
  MaxRequests,         \* bound: requests that reach the middleware
  MaxDirectoryEdits    \* bound: changes of the gateway's directory

Regions == {"cn", "intl"}

\* The tab is open on a tenant's own host, and a failed lookup is counted.
ASSUME AccessAssumption ==
  /\ TabTenant \in Slugs \ {"www"} /\ NoTenant \notin Slugs \cup Regions
  /\ MaxFaults > 0 /\ MaxRequests \in Nat /\ MaxDirectoryEdits \in Nat

VARIABLES
  directory,           \* gateway: the region of each slug's tenant
  cache,               \* TenantCache
  requests,            \* requests inside the middleware
  arrivals,            \* requests so far
  dirEdits,            \* changes of the directory so far
  passedOn,            \* slug and region of the requests passed on
  turnedAway,          \* slugs refused although known when the request came
  cookie,              \* browser: whether it holds a session cookie
  live,                \* gateway: whether the token in it is a live session
  signing,             \* the sign-in or sign-out the tab is waiting for
  signedOut            \* whether the tab has signed out and shows the login page

accessVars == <<directory, cache, requests, arrivals, dirEdits, passedOn, turnedAway,
                cookie, live, signing, signedOut>>
flowVars == <<cookie, live, signing, signedOut>>

-----------------------------------------------------------------------------
(* lib/host.ts, lib/session.ts. A host is its labels in front of the base    *)
(* domain, or some other domain's.                                           *)

HostOf(labels, ours) == [labels |-> labels, ours |-> ours]

slugFromHost(host) ==
  IF host.ours /\ Len(host.labels) = 1 /\ host.labels # <<"www">> THEN host.labels[1] ELSE NoTenant

classifyHost(host) ==
  CASE host.ours /\ host.labels \in {<<>>, <<"www">>} -> "apex"
    [] slugFromHost(host) # NoTenant -> "tenant"
    [] OTHER -> "unknown"

\* The paths that need no session: signing in, and out.
isPublicPath(path) == path \in {"login", "logout"}

\* A cached tenant decides; the region of one that is cached never changes.
lookup(slug) == cache[slug]
\* Slip: the newest answer replaces the cached one.
StoreNewest(slug, region) == [cache EXCEPT ![slug] = region]

store(slug, region) ==
  IF cache[slug] = NoTenant \/ cache[slug] = region THEN [cache EXCEPT ![slug] = region] ELSE cache

-----------------------------------------------------------------------------
(* The two routes of the console's own, behind the middleware.               *)

\* A credential is exchanged for a cookie, or refused, or the gateway is down.
loginRoute ==
  /\ signing' = "none"
  /\ \/ cookie' = TRUE /\ live' = TRUE /\ signedOut' = FALSE
     \/ UNCHANGED <<cookie, live, signedOut>>

\* The gateway ends the session, unless it cannot be reached, and the cookie
\* goes either way.
logoutRoute ==
  /\ cookie' = FALSE
  /\ \/ live' = FALSE /\ ConnectionHolds
     \/ cookie /\ UNCHANGED live /\ ConnectionBreaks

\* The tab goes to the login page after any sign-out.
SignOutDone == signing' = "none" /\ signedOut' = TRUE

\* The middleware has a tenant: without a session only a public path is served,
\* and everything else is redirected to the login page.
Pass(r, slug, region) ==
  /\ passedOn' = IF isPublicPath(r.path) \/ r.cookie
                 THEN passedOn \cup {[slug |-> slug, region |-> region]} ELSE passedOn
  /\ \/ r.path = "page" /\ UNCHANGED flowVars /\ ConnectionHolds
     \/ r.path = "login" /\ loginRoute /\ ConnectionHolds
     \/ r.path = "logout" /\ logoutRoute /\ SignOutDone

\* It has none: a rewrite or a 502. The form says so; sign-out does not look.
Refuse(r) ==
  /\ UNCHANGED <<passedOn, cookie, live>>
  /\ \/ r.path = "page" /\ UNCHANGED <<signing, signedOut>>
     \/ r.path = "login" /\ signing' = "none" /\ UNCHANGED signedOut
     \/ r.path = "logout" /\ SignOutDone

-----------------------------------------------------------------------------
(* middleware.                                                               *)

Request(path, slug) ==
  [path |-> path, slug |-> slug, cookie |-> cookie /\ slug = TabTenant, step |-> "asking",
   region |-> NoTenant, known |-> directory[slug] # NoTenant, number |-> arrivals]

\* A request for a host: answered at once, passed on from the cache, or held
\* while the gateway is asked.
middleware(path, host) ==
  LET slug == slugFromHost(host) IN
  /\ arrivals < MaxRequests /\ arrivals' = arrivals + 1
  /\ \/ /\ classifyHost(host) # "tenant"
        /\ Refuse([path |-> path]) /\ UNCHANGED requests /\ ConnectionHolds
     \/ /\ classifyHost(host) = "tenant" /\ lookup(slug) # NoTenant
        /\ Pass(Request(path, slug), slug, lookup(slug)) /\ UNCHANGED requests
     \/ /\ classifyHost(host) = "tenant" /\ lookup(slug) = NoTenant
        /\ requests' = requests \cup {Request(path, slug)}
        /\ signing' = IF path = "page" THEN signing ELSE path
        /\ UNCHANGED <<passedOn, cookie, live, signedOut>> /\ ConnectionHolds
  /\ UNCHANGED <<directory, cache, dirEdits, turnedAway>>

\* The gateway reads its directory for a lookup; its answer is on its way. Its own
\* cache is left out: another gateway, or a restarted one, reads the directory.
DirectoryRead ==
  \E r \in requests :
    /\ r.step = "asking"
    /\ requests' = (requests \ {r}) \cup {[r EXCEPT !.step = "answered", !.region = directory[r.slug]]}
    /\ UNCHANGED <<directory, cache, arrivals, dirEdits, passedOn, turnedAway, flowVars>>
    /\ ConnectionHolds

\* resolve goes on: an unknown slug is not cached, a tenant is stored unless
\* another lookup has stored it under the other region, and the cache decides.
resolve ==
  \E r \in requests :
    /\ r.step = "answered" /\ requests' = requests \ {r}
    /\ \/ /\ r.region = NoTenant
          /\ Refuse(r) /\ turnedAway' = IF r.known THEN turnedAway \cup {r.slug} ELSE turnedAway
          /\ UNCHANGED cache /\ ConnectionHolds
       \/ /\ r.region # NoTenant
          /\ cache' = store(r.slug, r.region)
          /\ Pass(r, r.slug, cache'[r.slug]) /\ UNCHANGED turnedAway
    /\ UNCHANGED <<directory, arrivals, dirEdits>>

\* The lookup fails, or is given up after its timeout: a 502.
LookupGivenUp ==
  \E r \in requests :
    /\ requests' = requests \ {r}
    /\ Refuse(r)
    /\ UNCHANGED <<directory, cache, arrivals, dirEdits, turnedAway>>
    /\ faults' = IF faults < MaxFaults THEN faults + 1 ELSE faults
    /\ UNCHANGED page

-----------------------------------------------------------------------------
(* The browser and the gateway's operators.                                  *)

Hosts == {HostOf(<<>>, TRUE), HostOf(<<"www">>, TRUE)}
  \cup {HostOf(<<s>>, TRUE) : s \in Slugs} \cup {HostOf(<<s>>, FALSE) : s \in Slugs}
  \cup {HostOf(<<s, s>>, TRUE) : s \in Slugs}

\* A page is asked for, in this tab or in another.
Visit(host) == middleware("page", host)

SignIn ==
  /\ signing = "none" /\ (signedOut \/ ~cookie)
  /\ middleware("login", HostOf(<<TabTenant>>, TRUE))

SignOutPressed ==
  /\ signing = "none" /\ cookie /\ ~signedOut
  /\ middleware("logout", HostOf(<<TabTenant>>, TRUE))

\* fetch rejects before the middleware had an answer for it: the form says so,
\* sign-out goes to the login page.
SignBroken ==
  \E r \in requests :
    /\ r.path # "page" /\ requests' = requests \ {r}
    /\ Refuse(r)
    /\ UNCHANGED <<directory, cache, arrivals, dirEdits, turnedAway>> /\ ConnectionBreaks

\* A tenant is created, or its slug is given to one of the other region: a tenant's
\* region is immutable, its slug is not.
DirectoryEdited(s, region) ==
  /\ dirEdits < MaxDirectoryEdits /\ dirEdits' = dirEdits + 1
  /\ directory[s] # region /\ directory' = [directory EXCEPT ![s] = region]
  /\ UNCHANGED <<cache, requests, arrivals, passedOn, turnedAway, flowVars>> /\ ConnectionHolds

SessionExpires ==
  /\ live /\ live' = FALSE
  /\ UNCHANGED <<directory, cache, requests, arrivals, dirEdits, passedOn, turnedAway>>
  /\ UNCHANGED <<cookie, signing, signedOut>> /\ ConnectionHolds

-----------------------------------------------------------------------------
AccessInit ==
  /\ directory \in [Slugs -> Regions \cup {NoTenant}]
  /\ cookie \in BOOLEAN /\ live = cookie /\ (cookie => directory[TabTenant] # NoTenant)
  /\ cache = [s \in Slugs |-> NoTenant] /\ requests = {} /\ arrivals = 0 /\ dirEdits = 0
  /\ passedOn = {} /\ turnedAway = {} /\ signing = "none" /\ signedOut = FALSE

AccessNext ==
  \/ \E host \in Hosts : Visit(host)
  \/ SignIn \/ SignOutPressed
  \/ DirectoryRead \/ resolve \/ LookupGivenUp \/ SignBroken \/ SessionExpires
  \/ \E s \in Slugs, region \in Regions : DirectoryEdited(s, region)

\* The gateway may hang; a lookup has a timeout, and what arrived is handled.
AccessFairness == WF_<<accessVars, page, faults>>(resolve \/ LookupGivenUp)

-----------------------------------------------------------------------------
(* Properties.                                                               *)

\* All requests for a slug are passed on under one region, although lookups
\* that overlap a change of the directory bring back both (TenantCache: "Region
\* cannot be overwritten", and resolve answers from the cache).
RegionNeverMoves == \A a, b \in passedOn : a.slug = b.slug => a.region = b.region

\* A tenant that existed when a request came is not turned away as unknown,
\* however often it was asked for before it was created (resolve).
KnownIsServed == turnedAway = {}

\* Where nothing failed, signing out ends the session at the gateway too, so
\* that no copy of the token goes on working (app/api/auth/logout).
SignOutEndsSession == signedOut /\ faults = 0 => ~cookie /\ ~live

\* A sign-in or sign-out comes to an end although the gateway hangs.
SigningEnds == (signing # "none") ~> (signing = "none")

\* Who gets in: a tenant under the one region it was first found in, never
\* turned away while it exists, and nobody on a session that was signed out
\* (middleware, TenantCache, the logout route).
AccessSafe == RegionNeverMoves /\ KnownIsServed /\ SignOutEndsSession
=============================================================================
