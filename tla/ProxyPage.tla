------------------------------ MODULE ProxyPage ------------------------------
(***************************************************************************)
(* The proxy page (components/proxy-manager.tsx) over the desired state    *)
(* the gateway keeps (cmd/gateway/proxy_routes.go, internal/proxy,         *)
(* migration 0017): upstreams, listeners that may chain through one, and   *)
(* one upstream per country. One `busy` flag covers every write; an export *)
(* of credentials runs beside it under a flag of its own. A write whose    *)
(* connection broke frees the page and may still be travelling.            *)
(***************************************************************************)
EXTENDS ConsolePage, Sequences

CONSTANTS
  Upstreams,           \* upstream proxies
  Listeners,           \* proxy instances
  Countries,           \* countries a rule may be kept for
  Direct,              \* no upstream: straight out over the card
  MaxPresses           \* bound: writes sent

ASSUME ProxyAssumption == Direct \notin Upstreams /\ MaxPresses \in Nat

VARIABLES
  proxyRows,           \* gateway: its upstreams, listeners and country rules
  lifecycle,           \* gateway: start, stop and restart as queued for a device
  configured,          \* gateway: the listeners of the newest configure_proxy queued
  drawnProxy,          \* props: the rows as the page was last drawn
  proxyPending,        \* useState pending: the action the dialog asks about
  proxyBusy,           \* useState busy
  proxyCalls,          \* writes on their way
  proxyRedraw,         \* whether a router.refresh is on its way
  presses,             \* writes sent so far
  export               \* ExportPanel: whether it runs, and what it shows

proxyVars == <<proxyRows, lifecycle, configured, drawnProxy, proxyPending, proxyBusy,
               proxyCalls, proxyRedraw, presses, export>>

Act(verb, on, via) == [verb |-> verb, on |-> on, via |-> via]
NoAct == Act("none", Direct, Direct)

-----------------------------------------------------------------------------
(* What the page offers.                                                     *)

\* A probe, a start and the three add forms are sent at once. An upstream is
\* picked from the ones the page was drawn with.
AtOnce ==
  LET Vias == drawnProxy.upstreams \cup {Direct} IN
  {Act("start", l, Direct) : l \in DOMAIN drawnProxy.listeners}
    \cup {Act("probe", u, Direct) : u \in drawnProxy.upstreams}
    \cup {Act("addUpstream", u, Direct) : u \in Upstreams}
    \cup {Act("addListener", l, via) : l \in Listeners, via \in Vias}
    \cup {Act("putRule", c, via) : c \in Countries, via \in Vias}

\* What interrupts traffic or cannot be undone asks first.
Asks ==
  {Act(verb, l, Direct) : verb \in {"stop", "restart", "removeListener"},
                          l \in DOMAIN drawnProxy.listeners}
    \cup {Act("removeUpstream", u, Direct) : u \in drawnProxy.upstreams}
    \cup {Act("removeRule", c, Direct) : c \in DOMAIN drawnProxy.rules}

\* call: the request is sent with busy set, and nothing else can be pressed.
call(act) ==
  /\ proxyBusy' = TRUE /\ presses' = presses + 1
  /\ proxyCalls' = proxyCalls \cup
       {[act |-> act, press |-> presses + 1, lost |-> FALSE, stored |-> FALSE, push |-> {}]}

\* Slip: a control that needs no confirmation stays enabled while one is sent.
PressWhileBusy(act) ==
  /\ proxyPending = NoAct /\ presses < MaxPresses
  /\ act \in AtOnce
  /\ call(act)
  /\ UNCHANGED <<proxyRows, lifecycle, configured, drawnProxy, proxyPending, proxyRedraw, export>>
  /\ ConnectionHolds

PressAtOnce(act) ==
  /\ ~proxyBusy /\ proxyPending = NoAct /\ presses < MaxPresses
  /\ act \in AtOnce
  /\ call(act)
  /\ UNCHANGED <<proxyRows, lifecycle, configured, drawnProxy, proxyPending, proxyRedraw, export>>
  /\ ConnectionHolds

AskProxy(act) ==
  /\ ~proxyBusy /\ proxyPending = NoAct /\ presses < MaxPresses
  /\ act \in Asks
  /\ proxyPending' = act
  /\ UNCHANGED <<proxyRows, lifecycle, configured, drawnProxy, proxyBusy, proxyCalls, proxyRedraw>>
  /\ UNCHANGED <<presses, export>>
  /\ ConnectionHolds

CancelProxy ==
  /\ proxyPending # NoAct /\ proxyPending' = NoAct
  /\ UNCHANGED <<proxyRows, lifecycle, configured, drawnProxy, proxyBusy, proxyCalls, proxyRedraw>>
  /\ UNCHANGED <<presses, export>>
  /\ ConnectionHolds

ProceedProxy ==
  /\ proxyPending # NoAct /\ proxyPending' = NoAct
  /\ call(proxyPending)
  /\ UNCHANGED <<proxyRows, lifecycle, configured, drawnProxy, proxyRedraw, export>> /\ ConnectionHolds

-----------------------------------------------------------------------------
(* The gateway.                                                              *)

With(f, k, v) == [x \in DOMAIN f \cup {k} |-> IF x = k THEN v ELSE f[x]]
Without(f, k) == [x \in DOMAIN f \ {k} |-> f[x]]

\* The foreign keys: a listener that chained through it goes out directly, a
\* country's rule goes with it.
deleteUpstream(rows, u) ==
  [upstreams |-> rows.upstreams \ {u},
   listeners |-> [l \in DOMAIN rows.listeners |->
                    IF rows.listeners[l] = u THEN Direct ELSE rows.listeners[l]],
   rules |-> [c \in {d \in DOMAIN rows.rules : rows.rules[d] # u} |-> rows.rules[c]]]

\* The rows after a write. A name is saved once: a second add is refused, and
\* so is a row that names an upstream that is gone.
Stored(rows, act) ==
  CASE act.verb = "addUpstream" -> [rows EXCEPT !.upstreams = @ \cup {act.on}]
    [] act.verb = "removeUpstream" -> deleteUpstream(rows, act.on)
    [] act.verb = "addListener" -> [rows EXCEPT !.listeners = With(@, act.on, act.via)]
    [] act.verb = "removeListener" -> [rows EXCEPT !.listeners = Without(@, act.on)]
    [] act.verb = "putRule" -> [rows EXCEPT !.rules = With(@, act.on, act.via)]
    [] act.verb = "removeRule" -> [rows EXCEPT !.rules = Without(@, act.on)]
    [] OTHER -> rows

\* A name is added once, and a row refers to what is there. A row that is gone
\* is removed, and probed, with success; nothing looks for it.
Acceptable(act) ==
  CASE act.verb = "addUpstream" -> act.on \notin proxyRows.upstreams
    [] act.verb = "addListener" -> /\ act.on \notin DOMAIN proxyRows.listeners
                                   /\ act.via \in proxyRows.upstreams \cup {Direct}
    [] act.verb = "putRule" -> act.via \in proxyRows.upstreams \cup {Direct}
    [] act.verb \in {"start", "stop", "restart"} -> act.on \in DOMAIN proxyRows.listeners
    [] OTHER -> TRUE

instanceAction(q) ==
  lifecycle' = IF q.act.verb \in {"start", "stop", "restart"}
               THEN Append(lifecycle, [verb |-> q.act.verb, on |-> q.act.on,
                                       press |-> q.press, lost |-> q.lost])
               ELSE lifecycle

\* Whether the device is handed a new configuration: when a listener was saved,
\* or one that was there was removed. Upstreams and rules are not announced.
Pushes(act) ==
  \/ act.verb = "addListener"
  \/ act.verb = "removeListener" /\ act.on \in DOMAIN proxyRows.listeners

\* The handler's write, and its reading of the listeners for the configuration.
ProxyHandled ==
  \E q \in proxyCalls :
    /\ ~q.stored /\ Acceptable(q.act)
    /\ proxyRows' = Stored(proxyRows, q.act)
    /\ instanceAction(q)
    /\ proxyCalls' = (proxyCalls \ {q}) \cup
         {[q EXCEPT !.stored = TRUE,
                    !.push = IF Pushes(q.act) THEN {DOMAIN proxyRows'.listeners} ELSE {}]}
    /\ UNCHANGED <<configured, drawnProxy, proxyPending, proxyBusy, proxyRedraw, presses, export>>
    /\ ConnectionHolds

\* pushProxyConfig: what was read, queued in a step of its own. A failure to read
\* or to queue it is dropped, and the write is answered all the same.
pushProxyConfig(q) == configured' \in (IF q.push = {} THEN {configured} ELSE q.push)
PushFails(q) == q.push # {} /\ UNCHANGED configured /\ ConnectionBreaks

\* The answer: busy is cleared whatever it is, and only success redraws.
ProxyAnswered ==
  \E q \in proxyCalls :
    /\ ~q.lost
    /\ proxyCalls' = proxyCalls \ {q} /\ proxyBusy' = FALSE
    /\ \/ /\ q.stored /\ proxyRedraw' = TRUE
          /\ (pushProxyConfig(q) /\ ConnectionHolds) \/ PushFails(q)
       \/ ~q.stored /\ UNCHANGED <<configured, proxyRedraw>> /\ ConnectionHolds       \* refused
    /\ UNCHANGED <<proxyRows, lifecycle, drawnProxy, proxyPending, presses, export>>

\* fetch rejects, with the request handled or still travelling; the page shows
\* an error and `finally` clears busy.
ProxyBroken ==
  \E q \in proxyCalls :
    /\ ~q.lost
    /\ proxyCalls' = (proxyCalls \ {q}) \cup {[q EXCEPT !.lost = TRUE]} /\ proxyBusy' = FALSE
    /\ UNCHANGED <<proxyRows, lifecycle, configured, drawnProxy, proxyPending, proxyRedraw, presses, export>>
    /\ ConnectionBreaks

\* The end of a request nobody waits for: it never arrives or is refused, or its
\* handler goes on to push the configuration, if its context lets it.
ProxyLate ==
  \E q \in proxyCalls :
    /\ q.lost
    /\ proxyCalls' = proxyCalls \ {q}
    /\ (q.stored /\ pushProxyConfig(q)) \/ UNCHANGED configured
    /\ UNCHANGED <<proxyRows, lifecycle, drawnProxy, proxyPending, proxyBusy, proxyRedraw>>
    /\ UNCHANGED <<presses, export>> /\ ConnectionHolds

ProxyRedrawn ==
  /\ proxyRedraw /\ proxyRedraw' = FALSE
  /\ drawnProxy' = proxyRows
  /\ UNCHANGED <<proxyRows, lifecycle, configured, proxyPending, proxyBusy, proxyCalls, presses, export>>
  /\ ConnectionHolds

-----------------------------------------------------------------------------
(* ExportPanel. What it shows stays while the next export runs.              *)

ExportRun ==
  /\ ~proxyBusy /\ ~export.running /\ proxyPending = NoAct
  /\ export' = [export EXCEPT !.running = TRUE]
  /\ UNCHANGED <<proxyRows, lifecycle, configured, drawnProxy, proxyPending, proxyBusy, proxyCalls>>
  /\ UNCHANGED <<proxyRedraw, presses>> /\ ConnectionHolds

\* readExport of what the gateway holds now, or a refusal, which shows nothing.
ExportAnswered ==
  /\ export.running
  /\ export' \in {[running |-> FALSE, shows |-> DOMAIN proxyRows.listeners],
                  [running |-> FALSE, shows |-> {}]}
  /\ UNCHANGED <<proxyRows, lifecycle, configured, drawnProxy, proxyPending, proxyBusy, proxyCalls>>
  /\ UNCHANGED <<proxyRedraw, presses>> /\ ConnectionHolds

ExportBroken ==
  /\ export.running
  /\ export' = [running |-> FALSE, shows |-> {}]
  /\ UNCHANGED <<proxyRows, lifecycle, configured, drawnProxy, proxyPending, proxyBusy, proxyCalls>>
  /\ UNCHANGED <<proxyRedraw, presses>> /\ ConnectionBreaks

ExportHide ==
  /\ export.shows # {} /\ proxyPending = NoAct
  /\ export' = [export EXCEPT !.shows = {}]
  /\ UNCHANGED <<proxyRows, lifecycle, configured, drawnProxy, proxyPending, proxyBusy, proxyCalls>>
  /\ UNCHANGED <<proxyRedraw, presses>> /\ ConnectionHolds

-----------------------------------------------------------------------------
\* A listener that chains through an upstream a country also uses, or nothing.
ProxyInit ==
  /\ proxyRows \in [upstreams : {Upstreams}, listeners : [Listeners -> Upstreams],
                    rules : [Countries -> Upstreams]]
                   \cup {[upstreams |-> {}, listeners |-> [l \in {} |-> Direct],
                          rules |-> [c \in {} |-> Direct]]}
  /\ drawnProxy = proxyRows /\ lifecycle = <<>> /\ configured = DOMAIN proxyRows.listeners
  /\ proxyPending = NoAct /\ proxyBusy = FALSE /\ proxyCalls = {} /\ proxyRedraw = FALSE
  /\ presses = 0 /\ export = [running |-> FALSE, shows |-> {}]

ProxyNext ==
  \/ \E act \in AtOnce : PressAtOnce(act)
  \/ \E act \in Asks : AskProxy(act)
  \/ CancelProxy \/ ProceedProxy \/ ProxyHandled \/ ProxyAnswered \/ ProxyBroken \/ ProxyLate
  \/ ProxyRedrawn
  \/ ExportRun \/ ExportAnswered \/ ExportBroken \/ ExportHide

\* A request is answered, or its connection breaks.
ProxyFairness == WF_<<proxyVars, page, faults>>(ProxyAnswered \/ ProxyBroken)

-----------------------------------------------------------------------------
(* Properties.                                                               *)

\* A listener is started, stopped and restarted in the order the operator
\* pressed, except for a press that the page reported as failed: its request may
\* still be travelling when `finally` frees the page, and may be carried out
\* after a later press (call's `busy`, setError in its catch).
LifecycleInOrder ==
  \A i, j \in DOMAIN lifecycle :
    i < j => lifecycle[i].press < lifecycle[j].press \/ lifecycle[j].lost

\* At rest, and as long as nothing failed on the way, the newest configuration
\* handed to the device has the listeners the gateway has. A push that fails is
\* dropped, and two handlers that overlap, after a broken connection, may queue
\* theirs in either order (saveInstance, deleteInstance, pushProxyConfig).
DeviceIsTold ==
  faults = 0 /\ proxyCalls = {} => configured = DOMAIN proxyRows.listeners

\* Nothing chains through an upstream that is gone, although the page goes on
\* offering it until it is drawn again (the foreign keys of migration 0017).
ChainsStand ==
  /\ \A l \in DOMAIN proxyRows.listeners :
       proxyRows.listeners[l] \in proxyRows.upstreams \cup {Direct}
  /\ \A c \in DOMAIN proxyRows.rules : proxyRows.rules[c] \in proxyRows.upstreams \cup {Direct}

\* The page can be used again after every write, the one whose connection
\* broke included (call's `finally`).
ProxyBusyEnds == proxyBusy ~> ~proxyBusy

\* The proxy's desired state is the one the presses add up to: in the order they
\* were made, but for the ones reported as failed, handed to the device, and with
\* no chain through an upstream that is gone (proxy-manager, proxy_routes.go).
ProxySafe == LifecycleInOrder /\ DeviceIsTold /\ ChainsStand
=============================================================================
