-------------------------- MODULE ConnectionMonitor --------------------------
(***************************************************************************)
(* What every page of the console carries: the monitor behind the          *)
(* "connection lost" banner (createConnectionMonitor in lib/pwa.ts,        *)
(* components/connection-status.tsx) and the offer to install the console  *)
(* (components/pwa.tsx). The monitor listens to the browser's online and   *)
(* offline events and to the outcome of the page's own requests, which may *)
(* come after the network has changed again, and it probes while lost.     *)
(***************************************************************************)
EXTENDS ConsolePage, Sequences

CONSTANTS
  LOST_AFTER_FAILURES, \* failures in a row that mean the connection is lost
  MaxWatched,          \* bound: requests the page makes
  MaxFlying,           \* bound: requests and probes on their way at a time
  MaxOutages           \* bound: times the network goes away, page renewals

ASSUME MonitorAssumption ==
  /\ LOST_AFTER_FAILURES \in Nat \ {0} /\ MaxWatched \in Nat
  /\ MaxFlying \in Nat \ {0} /\ MaxOutages \in Nat

VARIABLES
  net,                 \* whether the gateway can be reached
  monitor,             \* online, failures (counted up to the limit), timers
  flying,              \* requests and probes on their way
  watched,             \* requests the page has made
  outages,             \* outages and renewals so far
  offer                \* InstallPrompt: state, the event held, whether it asks

monitorVars == <<net, monitor, flying, watched, outages, offer>>

-----------------------------------------------------------------------------
(* createConnectionMonitor.                                                  *)

\* connectionView: whether the banner is up.
connectionView(m) == ~m.online \/ m.failures >= LOST_AFTER_FAILURES

\* The probes are armed when the banner goes up, and disarmed when it comes down.
schedule(m) ==
  CASE connectionView(m) /\ m.timers = 0 -> [m EXCEPT !.timers = 1]
    [] ~connectionView(m) /\ m.timers > 0 -> [m EXCEPT !.timers = @ - 1]
    [] OTHER -> m

\* Slip: the probes are not armed when the banner changes.
PublishOnly(m) == m

publish(m) == schedule(m)

\* Any answer counts, a refusal included, and overrules navigator.onLine.
noteReachable(m) == publish([m EXCEPT !.failures = 0, !.online = TRUE])

noteUnreachable(m) ==
  publish([m EXCEPT !.failures = IF @ < LOST_AFTER_FAILURES THEN @ + 1 ELSE @])

\* A monitor starts from navigator.onLine, and arms the probes if that is false.
createConnectionMonitor(onLine, timers) ==
  schedule([online |-> onLine, failures |-> 0, timers |-> timers])

\* stop: the interval is cancelled, the listeners are gone.
stop(m) == [m EXCEPT !.timers = IF @ > 0 THEN @ - 1 ELSE @]

\* A request that is sent while the network is away is rejected.
Send(mine) ==
  /\ Len(flying) < MaxFlying
  /\ flying' = Append(flying, [sent |-> net, mine |-> mine])

-----------------------------------------------------------------------------
\* A watched request of the page, through the wrapped fetch.
WatchedFetch ==
  /\ watched < MaxWatched /\ watched' = watched + 1
  /\ Send(TRUE)
  /\ UNCHANGED <<net, monitor, outages, offer>> /\ ConnectionHolds

\* The interval fires.
ProbeTick ==
  /\ monitor.timers > 0
  /\ Send(TRUE)
  /\ UNCHANGED <<net, monitor, watched, outages, offer>> /\ ConnectionHolds

\* An outcome, in any order: an answer may still come after the network went,
\* a rejection may be noticed after it is back. One that was sent for a monitor
\* that has been stopped changes nothing.
Settles ==
  \E i \in DOMAIN flying :
    /\ flying' = [j \in 1..(Len(flying) - 1) |-> IF j < i THEN flying[j] ELSE flying[j + 1]]
    /\ \/ flying[i].sent = "up"
          /\ monitor' = IF flying[i].mine THEN noteReachable(monitor) ELSE monitor
       \/ (flying[i].sent = "down" \/ net = "down")
          /\ monitor' = IF flying[i].mine THEN noteUnreachable(monitor) ELSE monitor
    /\ UNCHANGED <<net, watched, outages, offer>> /\ ConnectionHolds

\* An AbortError: the caller gave up, and nothing is concluded from it.
Aborted ==
  \E i \in DOMAIN flying :
    /\ flying' = [j \in 1..(Len(flying) - 1) |-> IF j < i THEN flying[j] ELSE flying[j + 1]]
    /\ UNCHANGED <<net, monitor, watched, outages, offer>> /\ ConnectionBreaks

\* The network goes, with the browser noticing it or not.
NetworkGoes(noticed) ==
  /\ net = "up" /\ outages < MaxOutages /\ outages' = outages + 1
  /\ net' = "down"
  /\ monitor' = IF noticed THEN publish([monitor EXCEPT !.online = FALSE]) ELSE monitor
  /\ UNCHANGED <<flying, watched, offer>> /\ ConnectionHolds

\* It comes back; an `online` event starts a probe, and the banner stays up
\* until something gets through.
NetworkReturns(noticed) ==
  /\ net = "down" /\ net' = "up"
  /\ IF noticed /\ Len(flying) < MaxFlying
     THEN flying' = Append(flying, [sent |-> "up", mine |-> TRUE]) ELSE UNCHANGED flying
  /\ UNCHANGED <<monitor, watched, outages, offer>> /\ ConnectionHolds

\* The page is served again: the monitor is stopped and another one started.
Renewed(onLine) ==
  /\ outages < MaxOutages /\ outages' = outages + 1
  /\ onLine \/ net = "down"
  /\ monitor' = createConnectionMonitor(onLine, stop(monitor).timers)
  /\ flying' = [i \in DOMAIN flying |-> [flying[i] EXCEPT !.mine = FALSE]]
  /\ UNCHANGED <<net, watched, offer>> /\ ConnectionHolds

-----------------------------------------------------------------------------
(* InstallPrompt.                                                            *)

installState(standalone, promptAvailable, platform) ==
  CASE standalone -> "installed"
    [] ~standalone /\ promptAvailable -> "promptable"
    [] ~standalone /\ ~promptAvailable /\ platform = "ios" -> "ios-guide"
    [] OTHER -> "unavailable"

\* The browser fires its event, perhaps again; it is kept instead of shown.
BeforeInstallPrompt ==
  /\ offer.platform # "ios"
  /\ offer' = [offer EXCEPT !.held = TRUE, !.state = installState(offer.standalone, TRUE, offer.platform)]
  /\ UNCHANGED <<net, monitor, flying, watched, outages>> /\ ConnectionHolds

AppInstalled ==
  /\ offer.platform # "ios"
  /\ offer' = [offer EXCEPT !.held = FALSE, !.state = "installed"]
  /\ UNCHANGED <<net, monitor, flying, watched, outages>> /\ ConnectionHolds

Offered == ~offer.dismissed /\ offer.state \in {"promptable", "ios-guide"}

\* install: the event is spent on the first use, whatever the answer. prompt() does
\* not reject: the event is unspent, and a click is the gesture it asks for.
Install ==
  /\ Offered /\ offer.state = "promptable" /\ offer.held
  /\ offer' = [offer EXCEPT !.held = FALSE, !.asking = TRUE]
  /\ UNCHANGED <<net, monitor, flying, watched, outages>> /\ ConnectionHolds

UserChoice(accepted) ==
  /\ offer.asking
  /\ offer' = IF accepted THEN [offer EXCEPT !.asking = FALSE, !.state = "installed"]
              ELSE [offer EXCEPT !.asking = FALSE, !.dismissed = TRUE]
  /\ UNCHANGED <<net, monitor, flying, watched, outages>> /\ ConnectionHolds

DismissOffer ==
  /\ Offered /\ offer' = [offer EXCEPT !.dismissed = TRUE]
  /\ UNCHANGED <<net, monitor, flying, watched, outages>> /\ ConnectionHolds

-----------------------------------------------------------------------------
MonitorRests ==
  /\ flying = <<>> /\ watched = 0 /\ outages = 0

MonitorInit ==
  /\ net \in {"up", "down"}
  /\ \E onLine \in BOOLEAN :
       (onLine \/ net = "down") /\ monitor = createConnectionMonitor(onLine, 0)
  /\ \E standalone, remembered \in BOOLEAN, platform \in {"ios", "other"} :
       offer = [state |-> installState(standalone, FALSE, platform), held |-> FALSE,
                asking |-> FALSE, dismissed |-> remembered,
                standalone |-> standalone, platform |-> platform]
  /\ MonitorRests

MonitorStep ==
  \/ WatchedFetch \/ ProbeTick \/ Settles \/ Aborted
  \/ \E noticed \in BOOLEAN : NetworkGoes(noticed) \/ NetworkReturns(noticed)
  \/ \E onLine \in BOOLEAN : Renewed(onLine)

InstallStep ==
  \/ BeforeInstallPrompt \/ AppInstalled \/ Install \/ DismissOffer
  \/ \E accepted \in BOOLEAN : UserChoice(accepted)

\* The interval fires, and a request is answered or rejected.
MonitorFairness ==
  /\ WF_<<monitorVars, page, faults>>(ProbeTick)
  /\ WF_<<monitorVars, page, faults>>(Settles)

-----------------------------------------------------------------------------
(* Properties.                                                               *)

\* The tab probes exactly while the banner is up, with one interval: through
\* outcomes that arrive out of order, and when the page is served again
\* ("Poll only while disconnected"; a tab opened offline is armed at once).
ProbesWhileLost == monitor.timers = IF connectionView(monitor) THEN 1 ELSE 0

\* When the network stays, the banner comes down, although the page itself
\* asks for nothing ("nobody else is going to ask it").
BannerComesDown ==
  (connectionView(monitor) /\ net = "up") ~> (~connectionView(monitor) \/ net = "down")

\* An install button on the screen has an event to spend, or its dialog is open.
InstallButtonWorks == Offered /\ offer.state = "promptable" => offer.held \/ offer.asking

\* The banner and the install button stand for what is there: a probe running
\* exactly while the banner is up, an event behind the button.
MonitorSafe == ProbesWhileLost /\ InstallButtonWorks
=============================================================================
