----------------------------- MODULE SettingsForm -----------------------------
(***************************************************************************)
(* A section of the settings page (components/settings-form.tsx, the form  *)
(* functions of lib/tokens.ts, app/settings/page.tsx) with one field of    *)
(* each kind the code treats differently: a switch, a number and a secret. *)
(* The gateway never sends a stored secret: the page gets a marker for it, *)
(* and the gateway puts the secret back where the marker returns.          *)
(***************************************************************************)
EXTENDS ConsolePage

CONSTANTS
  Secrets,          \* credentials an operator may type
  Marker,           \* REDACTED_SECRET, what is sent in place of a stored one
  Nothing,          \* no secret stored; a field left out
  MaxSaves          \* bound: documents written, here or elsewhere

ASSUME SettingsAssumption ==
  /\ Marker \notin Secrets /\ Nothing \notin Secrets \cup {Marker}
  /\ MaxSaves \in Nat

VARIABLES
  stored,           \* gateway: the section's document
  values,           \* useState values: what the boxes hold
  asking,           \* useState pending: the document to save, a test, or neither
  saving,           \* useState status
  testing,          \* TestButton's state
  request,          \* the PUT on its way, or half handled by the gateway
  saves             \* documents written so far

settingsVars == <<stored, values, asking, saving, testing, request, saves>>

Blank == ""
NoRequest == [step |-> "none"]
NoDialog == [about |-> "none"]

-----------------------------------------------------------------------------
(* From the gateway's document to the boxes, and back.                       *)

\* A number as its box shows it (String(value)), and as the form sends it: an
\* empty box is 0.
BoxText(n) == IF n = 0 THEN "0" ELSE "1"
coerceSettingValue(box) == IF box = "1" THEN 1 ELSE 0

\* What GET /v1/settings shows of the document: the marker for a secret.
Redact(doc) == [doc EXCEPT !.secret = IF @ = Nothing THEN Blank ELSE Marker]

\* The boxes as the page draws them. If the load failed it draws them empty.
settingsFormValues(loaded) ==
  IF loaded THEN [Redact(stored) EXCEPT !.limit = BoxText(@)]
  ELSE [on |-> FALSE, limit |-> Blank, secret |-> Blank]

\* The body of the PUT: an empty secret box is left out.
settingsDocument(boxes) ==
  [on |-> boxes.on, limit |-> coerceSettingValue(boxes.limit),
   secret |-> IF boxes.secret = Blank THEN Nothing ELSE boxes.secret]

\* Slip: the document is stored as it was sent.
MergeVerbatim(incoming, previous) == incoming

\* The gateway puts the stored secret back for the marker, or drops the marker.
Merge(incoming, previous) ==
  [incoming EXCEPT !.secret = IF @ = Marker THEN previous.secret ELSE @]

Validate(doc) == doc.limit >= 1

-----------------------------------------------------------------------------
(* The operator.                                                             *)

\* What the secret's box shows: nothing for the marker.
secretInputProps(value) == IF value = Marker THEN Blank ELSE value

ChangeSecret(s) ==
  /\ asking = NoDialog /\ s # secretInputProps(values.secret)
  /\ values' = [values EXCEPT !.secret = s]
  /\ UNCHANGED <<stored, asking, saving, testing, request, saves>> /\ ConnectionHolds

ChangeOther ==
  /\ asking = NoDialog
  /\ \/ values' = [values EXCEPT !.on = ~@]
     \/ \E n \in {Blank, "1"} : values' = [values EXCEPT !.limit = n]
  /\ UNCHANGED <<stored, asking, saving, testing, request, saves>> /\ ConnectionHolds

\* The dialog keeps the document as it was when it was asked about.
AskSave ==
  /\ asking = NoDialog /\ saving # "saving" /\ saves < MaxSaves
  /\ asking' = [about |-> "save", doc |-> settingsDocument(values)]
  /\ UNCHANGED <<stored, values, saving, testing, request, saves>> /\ ConnectionHolds

AskTest ==
  /\ asking = NoDialog /\ testing # "sending"
  /\ asking' = [about |-> "test"]
  /\ UNCHANGED <<stored, values, saving, testing, request, saves>> /\ ConnectionHolds

ConfirmSettings ==
  /\ asking # NoDialog
  /\ asking' = NoDialog
  /\ \/ /\ asking.about = "test"
        /\ testing' = "sending" /\ UNCHANGED <<saving, request>>
     \/ /\ asking.about = "save"
        /\ saving' = "saving" /\ UNCHANGED testing
        /\ request' = [step |-> "sent", doc |-> asking.doc]
  /\ UNCHANGED <<stored, values, saves>> /\ ConnectionHolds

CancelSettings ==
  /\ asking # NoDialog
  /\ asking' = NoDialog
  /\ UNCHANGED <<stored, values, saving, testing, request, saves>> /\ ConnectionHolds

\* The test goes through what is stored; the answer says what came of it.
TestAnswered ==
  /\ testing = "sending"
  /\ testing' = IF stored.on /\ stored.secret # Nothing THEN "ok" ELSE "failed"
  /\ UNCHANGED <<stored, values, asking, saving, request, saves>> /\ ConnectionHolds

-----------------------------------------------------------------------------
(* The gateway's writeSettings: the stored document is read, merged into and  *)
(* checked, and in a transaction of its own replaced.                         *)

ReadStored ==
  /\ request.step = "sent"
  /\ LET merged == Merge(request.doc, stored) IN
     \/ /\ Validate(merged)
        /\ request' = [step |-> "merged", doc |-> merged]
        /\ UNCHANGED saving
     \/ ~Validate(merged) /\ request' = NoRequest /\ saving' = "error"
  /\ UNCHANGED <<stored, values, asking, testing, saves>> /\ ConnectionHolds

PutStored ==
  /\ request.step = "merged"
  /\ stored' = request.doc /\ request' = NoRequest
  /\ saves' = saves + 1

SettingsSaved ==
  /\ PutStored
  /\ saving' = "saved"
  /\ UNCHANGED <<values, asking, testing>> /\ ConnectionHolds

\* fetch rejects before the document was stored, or after: the status stays.
SettingsBroken ==
  /\ \/ PutStored
     \/ /\ request.step = "sent"
        /\ request' = NoRequest /\ UNCHANGED <<stored, saves>>
  /\ UNCHANGED <<values, asking, saving, testing>> /\ ConnectionBreaks

\* Another operator saves the section with another secret, or with none.
SavedElsewhere(s) ==
  /\ saves < MaxSaves /\ s # stored.secret
  /\ stored' = [stored EXCEPT !.secret = s]
  /\ saves' = saves + 1
  /\ UNCHANGED <<values, asking, saving, testing, request>> /\ ConnectionHolds

\* The page is loaded again, with or without an answer to GET /v1/settings.
LoadSettings(loaded) ==
  /\ saving' = "idle" /\ testing' = "idle" /\ asking' = NoDialog
  /\ values' = settingsFormValues(loaded)
  /\ request.step = "none"
  /\ UNCHANGED <<stored, request, saves>>
  /\ IF loaded THEN ConnectionHolds ELSE ConnectionBreaks

-----------------------------------------------------------------------------
SettingsInit ==
  /\ stored \in [on : {TRUE}, limit : {1}, secret : Secrets \cup {Nothing}]
  /\ values = settingsFormValues(TRUE)
  /\ asking = NoDialog /\ saving = "idle" /\ testing = "idle"
  /\ request = NoRequest /\ saves = 0

SettingsNext ==
  \/ \E s \in Secrets \cup {Blank} : ChangeSecret(s)
  \/ ChangeOther \/ AskSave \/ AskTest \/ ConfirmSettings \/ CancelSettings
  \/ TestAnswered \/ ReadStored \/ SettingsSaved \/ SettingsBroken
  \/ \E s \in Secrets \cup {Nothing} : SavedElsewhere(s)
  \/ \E loaded \in BOOLEAN : LoadSettings(loaded)

-----------------------------------------------------------------------------
(* Properties.                                                               *)

\* The eight dots are never saved as the credential: not when the one they
\* stood for is removed by somebody else while the form is open, nor between
\* the gateway's read and its write (Merge; secretInputProps warns of it).
MarkerNeverStored == stored.secret \in Secrets \cup {Nothing}
=============================================================================
