------------------------------ MODULE FleetForms ------------------------------
(***************************************************************************)
(* Three forms over the fleet: issuing enrollment codes and revoking       *)
(* certificates (components/enrollment.tsx), renaming and removing a       *)
(* device (components/device-admin.tsx), and recording and publishing the  *)
(* support ledger (components/support-ledger.tsx). Each is a page of its   *)
(* own with one busy flag; only the first catches a broken connection. A   *)
(* request whose connection broke may still reach the gateway later.       *)
(***************************************************************************)
EXTENDS ConsolePage

CONSTANTS
  Certs,               \* certificates of the tenant's devices
  Pairings,            \* a module family on a carrier
  Unnamed,             \* no certificate, no pairing
  MaxFleetCalls        \* bound: writes sent

ASSUME FleetAssumption == Unnamed \notin Certs \cup Pairings /\ MaxFleetCalls \in Nat

VARIABLES
  minted,              \* gateway: enrollment codes issued, in order
  liveCodes,           \* gateway: the ones not used yet
  revoked,             \* gateway: revoked certificates
  deviceKept,          \* gateway: whether the device exists
  ledger,              \* gateway: the verdict recorded for a pairing
  routed,              \* the ledgers the fleet was given
  drawnForms,          \* props: codes outstanding, certificates revoked, rows
  shownCode,           \* useState code
  told,                \* codes whose answer reached the page
  confirming,          \* useState confirming: the certificate asked about
  ledgerForm,          \* useState form
  publishing,          \* useState asking
  formBusy,            \* useState busy of the page shown
  formError,           \* useState error of the page shown: whether there is one
  formCalls,           \* its writes on their way
  formRedraw,          \* whether a router.refresh is on its way
  fleetCalls,          \* writes sent so far
  lastWrite            \* history: the last one, and the codes issued before it

gatewayForms == <<minted, liveCodes, revoked, deviceKept, ledger, routed>>
pageForms == <<shownCode, told, confirming, ledgerForm, publishing>>
formVars == <<gatewayForms, pageForms, drawnForms, formBusy, formError, formCalls, formRedraw,
              fleetCalls, lastWrite>>

Served == [outstanding |-> liveCodes, revoked |-> revoked, rows |-> DOMAIN ledger]
Verdicts == {"unmeasured", "supported", "unsupported", "probe"}
EmptyForm == [pairing |-> Unnamed, verdict |-> "unmeasured"]
Write(kind, about) == [kind |-> kind, about |-> about, before |-> minted]

-----------------------------------------------------------------------------
(* What the operator may press.                                              *)

\* The request is sent with busy set. Only remove leaves an older error standing.
SendForm(kind, about) ==
  /\ ~formBusy /\ fleetCalls < MaxFleetCalls
  /\ formBusy' = TRUE /\ fleetCalls' = fleetCalls + 1 /\ lastWrite' = Write(kind, about)
  /\ formError' = (kind = "remove" /\ formError)
  /\ formCalls' = formCalls \cup {[kind |-> kind, about |-> about, outcome |-> "awaited",
                                  number |-> fleetCalls + 1, code |-> 0]}

\* mint: nothing asks first.
mint ==
  /\ page = "devices" /\ confirming = Unnamed
  /\ SendForm("mint", Unnamed)
  /\ UNCHANGED <<gatewayForms, pageForms, drawnForms, formRedraw>> /\ ConnectionHolds

AskRevoke(c) ==
  /\ page = "devices" /\ ~formBusy /\ confirming = Unnamed /\ c \notin drawnForms.revoked
  /\ confirming' = c
  /\ UNCHANGED <<gatewayForms, shownCode, told, ledgerForm, publishing, drawnForms>>
  /\ UNCHANGED <<formBusy, formError, formCalls, formRedraw, fleetCalls, lastWrite>> /\ ConnectionHolds

\* The press sends the request and closes the dialog, as every press of a
\* ConfirmDialog does: its action closes it, and closing is onCancel.
revoke ==
  /\ confirming # Unnamed /\ confirming' = Unnamed
  /\ SendForm("revoke", confirming)
  /\ UNCHANGED <<gatewayForms, shownCode, told, ledgerForm, publishing, drawnForms, formRedraw>>
  /\ ConnectionHolds

\* Escape or the cancel button: onCancel.
CancelForms ==
  /\ confirming # Unnamed \/ publishing
  /\ confirming' = Unnamed /\ publishing' = FALSE
  /\ UNCHANGED <<gatewayForms, shownCode, told, ledgerForm, drawnForms>>
  /\ UNCHANGED <<formBusy, formError, formCalls, formRedraw, fleetCalls, lastWrite>> /\ ConnectionHolds

\* rename, and remove once the device's name was typed out.
renameOrRemove ==
  /\ page = "admin"
  /\ \E kind \in {"rename", "remove"} : SendForm(kind, Unnamed)
  /\ UNCHANGED <<gatewayForms, pageForms, drawnForms, formRedraw>> /\ ConnectionHolds

TypeLedger(p, v) ==
  /\ page = "ledger" /\ ~publishing /\ ledgerForm # [pairing |-> p, verdict |-> v]
  /\ ledgerForm' = [pairing |-> p, verdict |-> v]
  /\ UNCHANGED <<gatewayForms, shownCode, told, confirming, publishing, drawnForms>>
  /\ UNCHANGED <<formBusy, formError, formCalls, formRedraw, fleetCalls, lastWrite>> /\ ConnectionHolds

saveLedger ==
  /\ page = "ledger" /\ ~publishing /\ ledgerForm.pairing # Unnamed
  /\ SendForm("save", ledgerForm)
  /\ UNCHANGED <<gatewayForms, pageForms, drawnForms, formRedraw>> /\ ConnectionHolds

AskPublish ==
  /\ page = "ledger" /\ ~formBusy /\ drawnForms.rows # {} /\ publishing' = TRUE
  /\ UNCHANGED <<gatewayForms, shownCode, told, confirming, ledgerForm, drawnForms>>
  /\ UNCHANGED <<formBusy, formError, formCalls, formRedraw, fleetCalls, lastWrite>> /\ ConnectionHolds

ConfirmPublish ==
  /\ publishing /\ publishing' = FALSE
  /\ SendForm("publish", Unnamed)
  /\ UNCHANGED <<gatewayForms, shownCode, told, confirming, ledgerForm, drawnForms, formRedraw>>
  /\ ConnectionHolds

-----------------------------------------------------------------------------
(* The gateway's handlers.                                                   *)

createEnrollmentCode ==
  /\ minted' = minted + 1
  /\ liveCodes' = liveCodes \cup {minted + 1}
  /\ UNCHANGED <<revoked, deviceKept, ledger, routed>>

\* A row of the ledger is replaced whole; an unmeasured verdict is null in it.
writeLedger(form) ==
  /\ ledger' = [p \in DOMAIN ledger \cup {form.pairing} |->
                  IF p = form.pairing THEN form.verdict ELSE ledger[p]]
  /\ UNCHANGED <<minted, liveCodes, revoked, deviceKept, routed>>

\* An empty ledger is refused. Otherwise it is stored and queued for devices.
publishLedger ==
  /\ DOMAIN ledger # {}
  /\ routed' = routed \cup {ledger}
  /\ UNCHANGED <<minted, liveCodes, revoked, deviceKept, ledger>>

Accept(q) ==
  \/ q.kind = "mint" /\ createEnrollmentCode
  \/ q.kind = "revoke" /\ revoked' = revoked \cup {q.about}
       /\ UNCHANGED <<minted, liveCodes, deviceKept, ledger, routed>>
  \/ q.kind = "rename" /\ UNCHANGED gatewayForms
  \/ q.kind = "remove" /\ deviceKept /\ deviceKept' = FALSE
       /\ UNCHANGED <<minted, liveCodes, revoked, ledger, routed>>
  \/ q.kind = "save" /\ writeLedger(q.about)
  \/ q.kind = "publish" /\ publishLedger

\* A request is accepted or refused, and its answer is on its way unless the
\* page has stopped waiting for one.
FormHandled ==
  \E q \in formCalls :
    /\ q.outcome \in {"awaited", "lost"}
    /\ \E outcome \in {"ok", "refused"} :
         /\ IF outcome = "ok" THEN Accept(q) ELSE UNCHANGED gatewayForms
         /\ formCalls' = (formCalls \ {q}) \cup
              {r \in {[q EXCEPT !.outcome = outcome, !.code = minted']} : q.outcome = "awaited"}
    /\ UNCHANGED <<pageForms, drawnForms, formBusy, formError, formRedraw, fleetCalls, lastWrite>>
    /\ ConnectionHolds

\* Elsewhere a code is used, or a pairing is withdrawn.
FleetElsewhere ==
  /\ \/ \E n \in liveCodes : liveCodes' = liveCodes \ {n} /\ UNCHANGED ledger
     \/ \E p \in DOMAIN ledger : page = "ledger" /\ UNCHANGED liveCodes
          /\ ledger' = [x \in DOMAIN ledger \ {p} |-> ledger[x]]
  /\ UNCHANGED <<minted, revoked, deviceKept, routed, pageForms, drawnForms>>
  /\ UNCHANGED <<formBusy, formError, formCalls, formRedraw, fleetCalls, lastWrite>> /\ ConnectionHolds

-----------------------------------------------------------------------------
(* The answer.                                                               *)

\* What success does to the page. The ledger's form goes back to what it held
\* when it was saved, without the verdict. A minted code redraws nothing.
FormDone(q) ==
  /\ shownCode' = IF q.kind = "mint" THEN q.code ELSE shownCode
  /\ told' = IF q.kind = "mint" THEN told \cup {q.code} ELSE told
  /\ confirming' = IF q.kind = "revoke" THEN Unnamed ELSE confirming
  /\ formError' = FALSE
  /\ ledgerForm' = IF q.kind = "save" THEN [q.about EXCEPT !.verdict = "unmeasured"]
                   ELSE ledgerForm
  /\ formRedraw' = (formRedraw \/ q.kind # "mint")
  /\ page' = IF q.kind = "remove" THEN "devices" ELSE page
  /\ UNCHANGED <<publishing, faults>>

\* Slip: a refusal is taken for success.
FormAnsweredUnread ==
  \E q \in formCalls :
    /\ q.outcome \in {"ok", "refused"}
    /\ formCalls' = formCalls \ {q} /\ formBusy' = FALSE
    /\ FormDone(q)
    /\ UNCHANGED <<gatewayForms, drawnForms, fleetCalls, lastWrite>>

FormAnswered ==
  \E q \in formCalls :
    /\ formCalls' = formCalls \ {q} /\ formBusy' = FALSE
    /\ \/ q.outcome = "ok" /\ FormDone(q)
       \/ /\ q.outcome = "refused" /\ formError' = TRUE
          /\ UNCHANGED <<pageForms, formRedraw>> /\ ConnectionHolds
    /\ UNCHANGED <<gatewayForms, drawnForms, fleetCalls, lastWrite>>

\* fetch rejects, with the request handled, or still travelling, or never to
\* arrive. Enrollment says it failed and clears busy; the other two forms stay
\* busy until the page is loaded again.
FormBroken ==
  \E q \in formCalls :
    /\ q.outcome # "lost"
    /\ formCalls' = (formCalls \ {q}) \cup
         {r \in {[q EXCEPT !.outcome = "lost"]} : q.outcome = "awaited"}
    /\ formBusy' = (q.kind \notin {"mint", "revoke"})
    /\ formError' = (formError \/ q.kind \in {"mint", "revoke"})
    /\ UNCHANGED <<gatewayForms, pageForms, drawnForms, formRedraw, fleetCalls, lastWrite>>
    /\ ConnectionBreaks

FormsRedrawn ==
  /\ formRedraw /\ formRedraw' = FALSE
  /\ drawnForms' = Served
  /\ UNCHANGED <<gatewayForms, pageForms, formBusy, formError, formCalls, fleetCalls, lastWrite>>
  /\ ConnectionHolds

-----------------------------------------------------------------------------
FormsRest ==
  /\ minted = 0 /\ liveCodes = {} /\ revoked = {} /\ deviceKept = TRUE /\ routed = {}
  /\ drawnForms = Served
  /\ shownCode = 0 /\ told = {} /\ confirming = Unnamed /\ ledgerForm = EmptyForm
  /\ publishing = FALSE /\ formBusy = FALSE /\ formCalls = {} /\ formRedraw = FALSE
  /\ formError = FALSE /\ fleetCalls = 0 /\ lastWrite = Write("none", Unnamed)

FormsInit ==
  /\ ledger \in {[p \in {} |-> "probe"], [p \in Pairings |-> "probe"]}
  /\ FormsRest

FormsNext ==
  \/ mint \/ revoke \/ CancelForms \/ renameOrRemove \/ saveLedger \/ AskPublish \/ ConfirmPublish
  \/ \E c \in Certs : AskRevoke(c)
  \/ \E p \in Pairings, v \in Verdicts : TypeLedger(p, v)
  \/ FleetElsewhere \/ FormHandled \/ FormAnswered \/ FormBroken \/ FormsRedrawn

\* An enrollment request is handled and answered, or its connection breaks.
FormsFairness == WF_<<formVars, faults>>(page = "devices" /\ (FormHandled \/ FormAnswered \/ FormBroken))

-----------------------------------------------------------------------------
(* Properties.                                                               *)

\* The code on the page is the newest the page was told of. An operator copies
\* the one on the screen; an older answer arriving late would put a code there
\* that the next press has replaced (mint under `busy`).
ShownCodeIsNewest == shownCode # 0 => \A n \in told : n <= shownCode

\* The fleet is never told to route by an empty ledger, although the page may
\* offer to publish one whose last row is gone (rowCount and publishLedger).
EmptyNeverPublished == \A given \in routed : DOMAIN given # {}

\* A page that is neither busy nor showing an error has had its last press carried
\* out. The dialog is no sign of it, since it closes at the press: the certificate
\* confirmed is revoked, and drawn so once the page is drawn again; the code on
\* the page was issued after the press; the fleet was given a ledger; the device
\* is gone. An answer must therefore be read before anything else is done with it,
\* and a broken connection must leave its mark (mint, revoke, remove, publish).
SilenceMeansDone ==
  ~formBusy /\ ~formError =>
    /\ lastWrite.kind = "revoke" => /\ lastWrite.about \in revoked
                                    /\ formRedraw \/ lastWrite.about \in drawnForms.revoked
    /\ lastWrite.kind = "mint" => shownCode > lastWrite.before
    /\ lastWrite.kind = "publish" => routed # {}
    /\ lastWrite.kind = "remove" => ~deviceKept

\* What the forms say of the fleet is so: silence after a press, the code shown,
\* and the ledger given out (enrollment, device-admin, support-ledger).
FormsSafe == SilenceMeansDone /\ ShownCodeIsNewest /\ EmptyNeverPublished

\* Issuing and revoking are possible again after a broken connection.
EnrollmentBusyEnds == (formBusy /\ page = "devices") ~> (~formBusy \/ page # "devices")
=============================================================================
