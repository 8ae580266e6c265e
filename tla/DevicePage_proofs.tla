------------------------- MODULE DevicePage_proofs --------------------------
(***************************************************************************)
(* The device page, for any modems, profiles, codes and clocks: the device *)
(* console posts and shows what the operator means, and the eSIM panel     *)
(* beside it spends a code once, tells the truth about what it did and     *)
(* reports every failure, although both share one journal of commands that *)
(* others write to.                                                        *)
(***************************************************************************)
EXTENDS DevicePage, FiniteSetTheorems, TLAPS

-----------------------------------------------------------------------------
(* The relay.                                                                *)

Stages == {Absent, "start", "continue", "cancel"}
Extras == [modem_imei : Modems \cup {Absent}, stage : Stages, enabled : {Absent, "true", "false"},
           mode : {Absent, "manual", "automatic"}, usbnet_mode : {Absent, "rmnet", "ecm", "mbim", "rndis"},
           command : AtCommands \cup {Absent}]
Sent == Kinds \cup {"send_ussd", "run_at_command"}
PostRecords == [kind : Sent, extra : Extras, imei : Modems, meant : Modems, since : Int, at : Int,
                asked : BOOLEAN, step : {"sent", "accepted"}]
Rows == [id : Nat, ussd : BOOLEAN, imei : Modems \cup {Absent}, stage : Stages,
         status : {"queued", "succeeded", "failed"}, done : Nat, expects : BOOLEAN]
PollRecords == [by : {"page", "post"}, step : {"sent", "read"}, rows : SUBSET Rows]

RelayTypes ==
  /\ log \in Seq(Rows) /\ (\A i \in DOMAIN log : log[i].id = i)
  /\ clock \in Nat /\ skew \in Int /\ observed \in [id : Nat, at : Nat]
  /\ posts \in Seq(PostRecords) /\ polls \subseteq PollRecords
  /\ open \in BOOLEAN /\ busy \in BOOLEAN
  /\ selected \in Modems /\ draftFor = selected

Awaited == {q \in polls : q.by = "post"}

\* Nothing is under way, or one POST is, or the refresh after one.
OneAtATime ==
  /\ ~busy => posts = <<>> /\ Awaited = {}
  /\ busy => \/ Len(posts) = 1 /\ Awaited = {}
             \/ posts = <<>> /\ \E q : Awaited = {q}
  /\ ~open => ~busy /\ pending = Absent

\* The dialog is about the modem in the picker, unless its request names one.
PendingMeant ==
  pending # Absent =>
    /\ pending.kind \in Sent /\ pending.extra \in Extras /\ pending.meant \in Modems /\ pending.since \in Int
    /\ pending.meant = Target(pending.extra)

PostsMeant ==
  \A i \in DOMAIN posts :
    /\ posts[i].imei = posts[i].meant
    /\ deviceCommandGuard(posts[i].kind, posts[i].extra) => posts[i].asked

\* Rows a page has read: at most one per command, and final where they say so.
TrueRows(rows) ==
  /\ rows \subseteq Rows
  /\ \A r \in rows : /\ r.id \in DOMAIN log
                     /\ r.status \in TERMINAL => r = log[r.id]
                     /\ r.ussd => r.imei \in Modems
  /\ \A r, s \in rows : r.id = s.id => r = s

\* The row of a USSD command names the modem it went to.
UssdNamed == \A i \in DOMAIN log : log[i].ussd => log[i].imei \in Modems

RowsTrue == UssdNamed /\ TrueRows(shown) /\ \A q \in polls : TrueRows(q.rows)

RelayInv ==
  /\ RelayTypes /\ OneAtATime /\ PendingMeant /\ PostsMeant /\ RowsTrue /\ ReplyOfferedInTime

Bound == TTL + (IF skew > 0 THEN skew ELSE 0)

LEMMA DropOnly ==
    ASSUME NEW S, NEW s \in Seq(S), Len(s) = 1, NEW i \in DOMAIN s
    PROVE  Drop(s, i) = <<>>
<1>1. i = 1
  OBVIOUS
<1>2. SubSeq(s, 1, 0) = <<>> /\ SubSeq(s, 2, 1) = <<>>
  OBVIOUS
<1> QED BY <1>1, <1>2 DEF Drop

\* Rows that were true stay so while commands are accepted and answered.
LEMMA RowsStayTrue ==
    ASSUME RelayTypes, NEW rows, TrueRows(rows), DOMAIN log \subseteq DOMAIN log',
           \A i \in DOMAIN log : log[i].status \in TERMINAL => log'[i] = log[i]
    PROVE  TrueRows(rows)'
  BY DEF TrueRows

\* What a control does keeps the invariant, if it names the modem it shows.
LEMMA RequestKeeps ==
    ASSUME RelayInv, Usable, NEW kind \in Sent, NEW extra \in Extras, NEW meant \in Modems, NEW since \in Int,
           request(kind, extra, meant, since), meant = Target(extra),
           extra.stage = "continue" => clock - since <= Bound,
           UNCHANGED <<log, clock, skew, polls, open, selected, shown, observed, draftFor>>
    PROVE  RelayInv'
<1>t. /\ RelayTypes /\ OneAtATime /\ PendingMeant /\ PostsMeant /\ RowsTrue
      /\ open = TRUE /\ busy = FALSE /\ pending = Absent /\ posts = <<>> /\ Awaited = {}
  BY DEF RelayInv, Usable, RelayTypes, OneAtATime
<1> DEFINE at == IF extra.stage = "continue" THEN clock ELSE 0
<1>a. at \in Int /\ (extra.stage = "continue" => at = clock)
  BY <1>t DEF RelayTypes
<1>r. RowsTrue'
  BY <1>t DEF RowsTrue, UssdNamed, TrueRows
<1>1. CASE ~deviceCommandGuard(kind, extra) /\ runNow(kind, extra, meant, since, FALSE) /\ UNCHANGED pending
  <2> DEFINE p == [kind |-> kind, extra |-> extra, imei |-> Target(extra), meant |-> meant,
                   since |-> since, at |-> at, asked |-> FALSE, step |-> "sent"]
  <2>1. posts' = Append(posts, p) /\ busy' = TRUE
    BY <1>1 DEF runNow
  <2>2. p \in PostRecords /\ p.kind = kind /\ p.extra = extra /\ p.imei = p.meant
    <3> HIDE DEF at
    <3> QED BY <1>a DEF PostRecords
  <2> HIDE DEF p
  <2>3. posts' = <<p>>
    BY <1>t, <2>1, <2>2
  <2>4. posts' \in Seq(PostRecords) /\ Len(posts') = 1 /\ DOMAIN posts' = {1} /\ posts'[1] = p
    BY <2>2, <2>3
  <2>5. PostsMeant'
    BY <1>1, <2>2, <2>4 DEF PostsMeant
  <2>6. RelayTypes'
    BY <1>t, <2>1, <2>4 DEF RelayTypes
  <2>7. OneAtATime'
    BY <1>t, <2>1, <2>4 DEF OneAtATime, Awaited
  <2> QED BY <1>t, <1>1, <1>r, <2>5, <2>6, <2>7 DEF RelayInv, PendingMeant, ReplyOfferedInTime
<1>2. CASE /\ deviceCommandGuard(kind, extra) /\ UNCHANGED <<posts, busy>>
           /\ pending' = [kind |-> kind, extra |-> extra, meant |-> meant, since |-> since, at |-> at]
  <2> HIDE DEF at
  <2>1. pending'.kind = kind /\ pending'.extra = extra /\ pending'.meant = meant /\ pending'.since = since /\ pending'.at = at
    BY <1>2
  <2>2. PendingMeant'
    BY <2>1 DEF PendingMeant, Target
  <2>3. ReplyOfferedInTime'
    BY <1>a, <2>1 DEF ReplyOfferedInTime, Bound
  <2>4. RelayTypes'
    BY <1>t, <1>2 DEF RelayTypes
  <2>5. OneAtATime'
    BY <1>t, <1>2 DEF OneAtATime, Awaited
  <2>6. PostsMeant'
    BY <1>t, <1>2 DEF PostsMeant
  <2> QED BY <1>r, <2>2, <2>3, <2>4, <2>5, <2>6 DEF RelayInv
<1> QED BY <1>1, <1>2 DEF request

\* The payloads the controls send.
LEMMA ControlPayloads ==
    /\ NoExtra \in Extras /\ NoExtra.modem_imei = Absent /\ NoExtra.stage = Absent
    /\ \A b \in Buttons : b[1] \in Sent /\ b[2] \in Extras /\ b[2].modem_imei = Absent /\ b[2].stage = Absent
    /\ \A c \in AtCommands : LET e == [NoExtra EXCEPT !.command = c] IN
                               e \in Extras /\ e.modem_imei = Absent /\ e.stage = Absent
    /\ \A m \in Modems : LET e == [NoExtra EXCEPT !.modem_imei = m] IN
                           e \in Extras /\ e.modem_imei = m /\ e.stage = Absent
    /\ \A m \in Modems, s \in Stages : Ussd(m, s) \in Extras /\ Ussd(m, s).modem_imei = m /\ Ussd(m, s).stage = s
<1>1. NoExtra \in Extras /\ NoExtra.modem_imei = Absent /\ NoExtra.stage = Absent
  BY DEF NoExtra, Extras, Stages
<1>2. ASSUME NEW b \in Buttons PROVE b[1] \in Sent /\ b[2] \in Extras /\ b[2].modem_imei = Absent /\ b[2].stage = Absent
  <2>1. b[1] \in Sent
    BY DEF Buttons, Sent
  <2>2. b[2] \in {NoExtra} \cup {[NoExtra EXCEPT !.enabled = x] : x \in {"true", "false"}}
                 \cup {[NoExtra EXCEPT !.mode = m] : m \in {"manual", "automatic"}}
                 \cup {[NoExtra EXCEPT !.usbnet_mode = m] : m \in {"rmnet", "ecm", "mbim", "rndis"}}
    <3> DEFINE D == DiagnosticButtons \cup DangerZone \cup OperatorControls \cup UsbnetControls
                      \cup CandidatesCard \cup AgentLogCard \cup ApnEditor
    <3>1. b \in D
      BY DEF Buttons
    <3>2. CASE b \in DiagnosticButtons \cup CandidatesCard \cup AgentLogCard \cup ApnEditor
      BY <3>2 DEF DiagnosticButtons, CandidatesCard, AgentLogCard, ApnEditor
    <3>3. CASE b \in DangerZone
      BY <3>3 DEF DangerZone, TURNS_OFF
    <3>4. CASE b \in OperatorControls
      BY <3>4 DEF OperatorControls
    <3>5. CASE b \in UsbnetControls
      BY <3>5 DEF UsbnetControls
    <3> QED BY <3>1, <3>2, <3>3, <3>4, <3>5
  <2> QED BY <1>1, <2>1, <2>2 DEF NoExtra, Extras, Stages
<1>3. ASSUME NEW c \in AtCommands
      PROVE LET e == [NoExtra EXCEPT !.command = c] IN e \in Extras /\ e.modem_imei = Absent /\ e.stage = Absent
  BY DEF NoExtra, Extras, Stages
<1>4. ASSUME NEW m \in Modems
      PROVE LET e == [NoExtra EXCEPT !.modem_imei = m] IN e \in Extras /\ e.modem_imei = m /\ e.stage = Absent
  BY DEF NoExtra, Extras, Stages
<1>5. ASSUME NEW m \in Modems, NEW s \in Stages
      PROVE Ussd(m, s) \in Extras /\ Ussd(m, s).modem_imei = m /\ Ussd(m, s).stage = s
  BY DEF NoExtra, Extras, Stages, Ussd
<1> QED BY <1>1, <1>2, <1>3, <1>4, <1>5

\* Nothing about the rows changes: neither do the rows of any poll.
LEMMA RowsKept ==
    ASSUME RowsTrue, UNCHANGED <<log, shown>>, \A q \in polls' : q \in polls \/ q.rows = {}
    PROVE  RowsTrue'
<1>1. UssdNamed'
  BY DEF RowsTrue, UssdNamed
<1>2. TrueRows(shown)'
  BY DEF RowsTrue, TrueRows
<1>3. ASSUME NEW q \in polls' PROVE TrueRows(q.rows)'
  <2>1. CASE q \in polls
    BY <2>1 DEF RowsTrue, TrueRows
  <2>2. CASE q.rows = {}
    BY <2>2 DEF TrueRows
  <2> QED BY <1>3, <2>1, <2>2
<1> QED BY <1>1, <1>2, <1>3 DEF RowsTrue

\* Commands are accepted or answered, and no page reads.
LEMMA RowsOutlast ==
    ASSUME RelayTypes, RowsTrue, UNCHANGED <<shown, polls>>, UssdNamed', DOMAIN log \subseteq DOMAIN log',
           \A i \in DOMAIN log : log[i].status \in TERMINAL => log'[i] = log[i]
    PROVE  RowsTrue'
<1>1. PICK z : z = shown
  OBVIOUS
<1>2. TrueRows(z)'
  BY <1>1, RowsStayTrue DEF RowsTrue
<1>3. TrueRows(shown)'
  BY <1>1, <1>2 DEF TrueRows
<1>4. ASSUME NEW q \in polls PROVE TrueRows(q.rows)'
  BY <1>4, RowsStayTrue DEF RowsTrue
<1> QED BY <1>3, <1>4 DEF RowsTrue

\* A POST becomes a row of the log.
LEMMA RowAppended ==
    ASSUME RelayTypes, RowsTrue, NEW i \in DOMAIN posts, log' = Append(log, Row(posts[i]))
    PROVE  /\ log' \in Seq(Rows) /\ (\A j \in DOMAIN log' : log'[j].id = j)
           /\ UssdNamed' /\ DOMAIN log \subseteq DOMAIN log' /\ \A j \in DOMAIN log : log'[j] = log[j]
<1>1. posts[i] \in PostRecords /\ Len(log) \in Nat
  BY DEF RelayTypes
<1>2. PICK p \in PostRecords : p = posts[i]
  BY <1>1
<1> DEFINE u == p.kind = "send_ussd"
           im == IF p.kind = "send_ussd" THEN p.imei ELSE Absent
           r == [id |-> Len(log) + 1, ussd |-> u, imei |-> im, stage |-> p.extra.stage,
                 status |-> "queued", done |-> 0, expects |-> FALSE]
<1>3. Row(posts[i]) = r
  BY <1>2 DEF Row
<1>4. u \in BOOLEAN /\ im \in Modems \cup {Absent} /\ (u => im \in Modems) /\ p.extra.stage \in Stages
  BY DEF PostRecords, Extras
<1>5. r \in Rows /\ r.id = Len(log) + 1 /\ (r.ussd => r.imei \in Modems)
  <2> HIDE DEF u, im
  <2>1. r \in Rows
    BY <1>1, <1>4 DEF Rows
  <2>2. r.id = Len(log) + 1 /\ r.ussd = u /\ r.imei = im
    OBVIOUS
  <2> QED BY <1>4, <2>1, <2>2
<1> HIDE DEF r
<1>6. log' = Append(log, r)
  BY <1>3
<1>7. log' \in Seq(Rows) /\ DOMAIN log' = DOMAIN log \cup {Len(log) + 1} /\ log'[Len(log) + 1] = r
      /\ \A j \in DOMAIN log : log'[j] = log[j]
  BY <1>5, <1>6 DEF RelayTypes
<1>8. \A j \in DOMAIN log' : log'[j].id = j
  BY <1>5, <1>7 DEF RelayTypes
<1>9. UssdNamed'
  BY <1>5, <1>7 DEF RowsTrue, UssdNamed
<1> QED BY <1>7, <1>8, <1>9

\* The one POST is over, one way or another, and no other has begun.
LEMMA PostOver ==
    ASSUME RelayTypes, OneAtATime, NEW i \in DOMAIN posts
    PROVE  Drop(posts, i) = <<>> /\ Len(posts) = 1 /\ i = 1 /\ Awaited = {} /\ busy = TRUE /\ open = TRUE
<1>1. posts # <<>> /\ posts \in Seq(PostRecords)
  BY DEF RelayTypes
<1>2. busy = TRUE /\ Len(posts) = 1 /\ Awaited = {} /\ open = TRUE
  BY <1>1 DEF OneAtATime, RelayTypes
<1> QED BY <1>1, <1>2, DropOnly

LEMMA OperatorKeeps == RelayInv /\ Operator => RelayInv'
<1> SUFFICES ASSUME RelayInv, Operator PROVE RelayInv'
  OBVIOUS
<1>t. RelayTypes /\ OneAtATime /\ PendingMeant /\ PostsMeant /\ RowsTrue /\ ReplyOfferedInTime
  BY DEF RelayInv
<1>n. Absent \notin Modems /\ Absent # "continue" /\ First \in Modems /\ TTL \in Nat
  BY ConsoleAssumption
<1>s. selected \in Modems /\ draftFor = selected /\ clock \in Nat /\ skew \in Int /\ Bound \in Int
  BY <1>t, <1>n DEF RelayTypes, Bound
<1>1. CASE Proceed
  <2>1. /\ pending # Absent /\ busy = FALSE /\ open = TRUE /\ posts = <<>> /\ Awaited = {}
    BY <1>1, <1>t DEF Proceed, RelayTypes, OneAtATime
  <2>2. /\ pending' = Absent /\ busy' = TRUE
        /\ UNCHANGED <<log, clock, skew, polls, open, selected, shown, observed, draftFor>>
        /\ runNow(pending.kind, pending.extra, pending.meant, pending.since, TRUE)
    BY <1>1 DEF Proceed, runNow, gatewayVars, viewVars
  <2>3. PICK d : d = pending
    OBVIOUS
  <2>4. d.kind \in Sent /\ d.extra \in Extras /\ d.meant \in Modems /\ d.since \in Int /\ d.meant = Target(d.extra)
    BY <1>t, <2>1, <2>3 DEF PendingMeant
  <2> DEFINE at == IF d.extra.stage = "continue" THEN clock ELSE 0
             p == [kind |-> d.kind, extra |-> d.extra, imei |-> Target(d.extra), meant |-> d.meant,
                   since |-> d.since, at |-> at, asked |-> TRUE, step |-> "sent"]
  <2>5. posts' = Append(posts, p)
    BY <2>2, <2>3 DEF runNow
  <2>6. at \in Int
    BY <1>s
  <2>7. p \in PostRecords /\ p.imei = p.meant /\ p.asked = TRUE
    <3> HIDE DEF at
    <3> QED BY <2>4, <2>6 DEF PostRecords
  <2> HIDE DEF p
  <2>8. posts' = <<p>>
    BY <2>1, <2>5, <2>7
  <2>9. posts' \in Seq(PostRecords) /\ Len(posts') = 1 /\ DOMAIN posts' = {1} /\ posts'[1] = p
    BY <2>7, <2>8
  <2>10. PostsMeant'
    BY <2>7, <2>9 DEF PostsMeant
  <2>11. RelayTypes'
    BY <1>t, <2>2, <2>9 DEF RelayTypes
  <2>12. OneAtATime'
    BY <2>1, <2>2, <2>9 DEF OneAtATime, Awaited
  <2>13. RowsTrue'
    BY <1>t, <2>2, RowsKept
  <2> QED BY <2>2, <2>10, <2>11, <2>12, <2>13 DEF RelayInv, PendingMeant, ReplyOfferedInTime
<1>2. CASE CancelPending
  <2>1. /\ pending' = Absent /\ UNCHANGED <<log, clock, skew, posts, polls, busy, open, selected, shown, observed, draftFor>>
    BY <1>2 DEF CancelPending, gatewayVars, viewVars
  <2>2. RelayTypes' /\ PostsMeant'
    BY <1>t, <2>1 DEF RelayTypes, PostsMeant
  <2>3. OneAtATime'
    BY <1>t, <2>1 DEF OneAtATime, Awaited
  <2>4. RowsTrue'
    BY <1>t, <2>1, RowsKept
  <2> QED BY <2>1, <2>2, <2>3, <2>4 DEF RelayInv, PendingMeant, ReplyOfferedInTime
<1>3. CASE SaveNote
  <2>1. PICK e : e = [NoExtra EXCEPT !.modem_imei = selected]
    OBVIOUS
  <2>2. /\ Usable /\ request("update_modem", e, draftFor, 0) /\ "update_modem" \in Sent
        /\ UNCHANGED <<log, clock, skew, polls, open, selected, shown, observed, draftFor>>
    BY <1>3, <2>1 DEF SaveNote, gatewayVars, viewVars, Sent
  <2>3. e \in Extras /\ e.modem_imei = selected /\ e.stage = Absent
    BY <1>s, <2>1, ControlPayloads
  <2>4. PICK meant \in Modems : meant = draftFor
    BY <1>s
  <2> QED BY <1>n, <1>s, <2>2, <2>3, <2>4, RequestKeeps DEF Target
<1>4. CASE UssdStart
  <2>1. PICK e, meant : e = Ussd(selected, "start") /\ meant = selected
    OBVIOUS
  <2>2. /\ Usable /\ request("send_ussd", e, meant, 0) /\ "send_ussd" \in Sent
        /\ UNCHANGED <<log, clock, skew, polls, open, selected, shown, observed, draftFor>>
    BY <1>4, <2>1 DEF UssdStart, gatewayVars, viewVars, Sent
  <2>3. e \in Extras /\ e.modem_imei = selected /\ e.stage = "start"
    BY <1>s, <2>1, ControlPayloads DEF Stages
  <2> QED BY <1>n, <1>s, <2>1, <2>2, <2>3, RequestKeeps DEF Target
<1>5. CASE UssdCancel
  <2> DEFINE x == latestUssdExchange(shown)
             m0 == IF x = {} THEN selected ELSE (CHOOSE r \in x : TRUE).imei
  <2>1. m0 \in Modems
    <3>1. CASE x = {}
      BY <1>s, <3>1
    <3>2. CASE x # {}
      <4>1. PICK r \in x : r = CHOOSE s \in x : TRUE
        BY <3>2
      <4>2. r \in shown /\ r.ussd
        BY DEF latestUssdExchange
      <4> QED BY <1>t, <3>2, <4>1, <4>2 DEF RowsTrue, TrueRows
    <3> QED BY <3>1, <3>2
  <2>2. PICK m \in Modems : m = m0
    BY <2>1
  <2>3. PICK e : e = Ussd(m, "cancel")
    OBVIOUS
  <2>4. /\ Usable /\ request("send_ussd", e, m, 0) /\ "send_ussd" \in Sent
        /\ UNCHANGED <<log, clock, skew, polls, open, selected, shown, observed, draftFor>>
    BY <1>5, <2>2, <2>3 DEF UssdCancel, gatewayVars, viewVars, Sent
  <2>5. e \in Extras /\ e.modem_imei = m /\ e.stage = "cancel"
    BY <2>3, ControlPayloads DEF Stages
  <2> QED BY <1>n, <2>4, <2>5, RequestKeeps DEF Target
<1>6. CASE UssdReply
  <2>0. /\ Usable /\ UNCHANGED <<log, clock, skew, polls, open, selected, shown, observed, draftFor>>
    BY <1>6 DEF UssdReply, gatewayVars
  <2>1. ASSUME NEW r \in latestUssdExchange(shown), ussdSessionState(shown, observed, clock) = "open",
               request("send_ussd", ussdContinueRequest(r), r.imei, r.done)
        PROVE  RelayInv'
    <3>1. r \in shown /\ r.ussd /\ r \in Rows /\ r.imei \in Modems /\ r.done \in Nat
      <4>1. r \in shown /\ r.ussd
        BY DEF latestUssdExchange
      <4>2. r \in Rows /\ r.imei \in Modems
        BY <1>t, <4>1 DEF RowsTrue, TrueRows
      <4> QED BY <4>1, <4>2 DEF Rows
    <3>2. clock - r.done <= Bound
      <4> DEFINE answered == {s \in latestUssdExchange(shown) : s.expects /\ s.status = "succeeded"}
      <4>1. answered # {} /\ \A s \in answered : ~(ussdSessionAge(s, observed, clock) > TTL)
        BY <2>1 DEF ussdSessionState
      <4>2. PICK s \in answered : TRUE
        BY <4>1
      <4>3. s \in latestUssdExchange(shown) /\ s \in shown /\ s.ussd
        BY DEF latestUssdExchange
      <4>4. s.id <= r.id /\ r.id <= s.id
        BY <3>1, <4>3 DEF latestUssdExchange
      <4>5. s.id \in Nat /\ r.id \in Nat
        BY <1>t, <3>1, <4>3 DEF RowsTrue, TrueRows, Rows
      <4>6. s = r
        BY <1>t, <3>1, <4>3, <4>4, <4>5 DEF RowsTrue, TrueRows
      <4>7. ~(ussdSessionAge(r, observed, clock) > TTL)
        BY <4>1, <4>2, <4>6
      <4>8. PICK g, b : g = clock - (r.done + skew) /\ b = (IF observed.id = r.id THEN clock - observed.at ELSE 0)
        OBVIOUS
      <4>9. ~((IF g > b THEN g ELSE b) > TTL)
        BY <4>7, <4>8 DEF ussdSessionAge
      <4>10. g \in Int
        BY <1>s, <3>1, <4>8
      <4>11. b \in Int
        BY <1>s, <1>t, <4>8 DEF RelayTypes
      <4>12. g <= TTL
        BY <1>n, <4>9, <4>10, <4>11
      <4> QED BY <1>n, <1>s, <3>1, <4>8, <4>12 DEF Bound
    <3>3. PICK e : e = Ussd(r.imei, "continue")
      OBVIOUS
    <3>4. e \in Extras /\ e.modem_imei = r.imei /\ e.stage = "continue"
      BY <3>1, <3>3, ControlPayloads DEF Stages
    <3>5. request("send_ussd", e, r.imei, r.done) /\ "send_ussd" \in Sent
      BY <2>1, <3>3 DEF ussdContinueRequest, Sent
    <3> QED BY <1>n, <2>0, <3>1, <3>2, <3>4, <3>5, RequestKeeps DEF Target
  <2>2. CASE UNCHANGED <<posts, pending, busy>>
    <3>1. RelayTypes' /\ PostsMeant' /\ ReplyOfferedInTime'
      BY <1>t, <2>0, <2>2 DEF RelayTypes, PostsMeant, ReplyOfferedInTime
    <3>2. OneAtATime' /\ PendingMeant'
      BY <1>t, <2>0, <2>2 DEF OneAtATime, Awaited, PendingMeant, Target
    <3>3. RowsTrue'
      BY <1>t, <2>0, RowsKept
    <3> QED BY <3>1, <3>2, <3>3 DEF RelayInv
  <2> QED BY <1>6, <2>1, <2>2 DEF UssdReply
<1>7. ASSUME NEW m \in Modems, SelectModem(m) PROVE RelayInv'
  <2>1. /\ selected' = m /\ draftFor' = m /\ pending = Absent /\ open = TRUE
        /\ UNCHANGED <<log, clock, skew, posts, polls, open, pending, busy, shown, observed>>
    BY <1>7, <1>t DEF SelectModem, gatewayVars, RelayTypes
  <2>2. RelayTypes' /\ PostsMeant' /\ PendingMeant' /\ ReplyOfferedInTime'
    BY <1>t, <2>1 DEF RelayTypes, PostsMeant, PendingMeant, ReplyOfferedInTime
  <2>3. OneAtATime'
    BY <1>t, <2>1 DEF OneAtATime, Awaited
  <2>4. RowsTrue'
    BY <1>t, <2>1, RowsKept
  <2> QED BY <2>2, <2>3, <2>4 DEF RelayInv
<1>8. ASSUME NEW b \in Buttons, Press(b) PROVE RelayInv'
  <2>1. b[1] \in Sent /\ b[2] \in Extras /\ b[2].modem_imei = Absent /\ b[2].stage = Absent
    BY ControlPayloads
  <2>2. PICK meant \in Modems : meant = selected
    BY <1>s
  <2>3. PICK kind \in Sent, e \in Extras : kind = b[1] /\ e = b[2]
    BY <2>1
  <2>4. /\ Usable /\ request(kind, e, meant, 0)
        /\ UNCHANGED <<log, clock, skew, polls, open, selected, shown, observed, draftFor>>
    BY <1>8, <2>2, <2>3 DEF Press, gatewayVars, viewVars
  <2>5. meant = Target(e) /\ e.stage # "continue" /\ kind \in Sent /\ e \in Extras /\ meant \in Modems
    BY <1>n, <2>1, <2>2, <2>3 DEF Target
  <2> QED BY <2>4, <2>5, RequestKeeps
<1>9. ASSUME NEW c \in AtCommands, SubmitAt(c) PROVE RelayInv'
  <2>1. PICK e, meant : e = [NoExtra EXCEPT !.command = c] /\ meant = selected
    OBVIOUS
  <2>2. e \in Extras /\ e.modem_imei = Absent /\ e.stage = Absent
    BY <2>1, ControlPayloads
  <2>3. /\ Usable /\ request("run_at_command", e, meant, 0) /\ "run_at_command" \in Sent
        /\ UNCHANGED <<log, clock, skew, polls, open, selected, shown, observed, draftFor>>
    BY <1>9, <2>1 DEF SubmitAt, gatewayVars, viewVars, Sent
  <2>4. meant = Target(e) /\ e.stage # "continue" /\ meant \in Modems
    BY <1>n, <1>s, <2>1, <2>2 DEF Target
  <2> QED BY <2>2, <2>3, <2>4, RequestKeeps
<1>10. ASSUME NEW kind \in Kinds, NEW m \in Modems, SubmitRegister(kind, m) PROVE RelayInv'
  <2>1. PICK e : e = [NoExtra EXCEPT !.modem_imei = m]
    OBVIOUS
  <2>2. e \in Extras /\ e.modem_imei = m /\ e.stage = Absent
    BY <2>1, ControlPayloads
  <2>3. /\ Usable /\ request(kind, e, m, 0) /\ kind \in Sent
        /\ UNCHANGED <<log, clock, skew, polls, open, selected, shown, observed, draftFor>>
    BY <1>10, <2>1 DEF SubmitRegister, gatewayVars, viewVars, Sent
  <2> QED BY <1>n, <2>2, <2>3, RequestKeeps DEF Target
<1>11. CASE Open
  <2>1. /\ open = FALSE /\ open' = TRUE /\ selected' = First /\ draftFor' = First /\ polls' = {Poll("page")}
        /\ UNCHANGED <<log, clock, skew, posts, pending, busy, shown, observed>>
    BY <1>11, <1>t DEF Open, gatewayVars, RelayTypes
  <2>2. busy = FALSE /\ pending = Absent /\ posts = <<>>
    BY <1>t, <2>1 DEF OneAtATime, RelayTypes
  <2>3. Poll("page") \in PollRecords /\ Poll("page").rows = {} /\ Poll("page").by = "page"
    BY DEF Poll, PollRecords
  <2>4. RelayTypes'
    BY <1>t, <1>n, <2>1, <2>3 DEF RelayTypes
  <2>5. PostsMeant' /\ PendingMeant' /\ ReplyOfferedInTime'
    BY <1>t, <2>1, <2>2 DEF PostsMeant, PendingMeant, ReplyOfferedInTime
  <2>6. OneAtATime'
    BY <2>1, <2>2, <2>3 DEF OneAtATime, Awaited
  <2>7. RowsTrue'
    BY <1>t, <2>1, <2>3, RowsKept
  <2> QED BY <2>4, <2>5, <2>6, <2>7 DEF RelayInv
<1>12. CASE Leave
  <2>1. /\ open' = FALSE /\ posts' = <<>> /\ polls' = {} /\ pending' = Absent /\ busy' = FALSE /\ shown' = {}
        /\ selected' = First /\ draftFor' = First /\ UNCHANGED <<clock, skew>> /\ observed' = NotSeen
    BY <1>12 DEF Leave
  <2>2. log' \in Seq(Rows) /\ (\A j \in DOMAIN log' : log'[j].id = j) /\ UssdNamed'
    <3>1. CASE UNCHANGED log
      BY <1>t, <3>1 DEF RelayTypes, RowsTrue, UssdNamed
    <3>2. ASSUME NEW i \in DOMAIN posts, log' = Append(log, Row(posts[i]))
          PROVE  log' \in Seq(Rows) /\ (\A j \in DOMAIN log' : log'[j].id = j) /\ UssdNamed'
      BY <1>t, <3>2, RowAppended
    <3> QED BY <1>12, <3>1, <3>2 DEF Leave
  <2>3. RelayTypes'
    <3>1. posts' \in Seq(PostRecords) /\ polls' \subseteq PollRecords /\ NotSeen \in [id : Nat, at : Nat]
      BY <2>1 DEF NotSeen
    <3>2. open' \in BOOLEAN /\ busy' \in BOOLEAN
      BY <2>1
    <3> QED BY <1>t, <1>n, <2>1, <2>2, <3>1, <3>2 DEF RelayTypes
  <2>4. PostsMeant' /\ PendingMeant' /\ ReplyOfferedInTime'
    BY <2>1 DEF PostsMeant, PendingMeant, ReplyOfferedInTime
  <2>5. OneAtATime'
    BY <2>1 DEF OneAtATime, Awaited
  <2>6. RowsTrue'
    BY <2>1, <2>2 DEF RowsTrue, TrueRows
  <2> QED BY <2>3, <2>4, <2>5, <2>6 DEF RelayInv
<1> QED BY <1>1, <1>2, <1>3, <1>4, <1>5, <1>6, <1>7, <1>8, <1>9, <1>10, <1>11, <1>12 DEF Operator

LEMMA WatchKeeps ==
    RelayInv /\ (PollTimer \/ PageTick \/ Tick \/ \E q \in polls : PollAnswered(q) \/ FailPoll(q)) => RelayInv'
<1> SUFFICES ASSUME RelayInv, PollTimer \/ PageTick \/ Tick \/ \E q \in polls : PollAnswered(q) \/ FailPoll(q)
             PROVE  RelayInv'
  OBVIOUS
<1>t. RelayTypes /\ OneAtATime /\ PendingMeant /\ PostsMeant /\ RowsTrue /\ ReplyOfferedInTime
  BY DEF RelayInv
<1>1. CASE PollTimer
  <2>1. polls' = polls \cup {Poll("page")} /\ UNCHANGED <<log, clock, skew, posts, pending, busy, open, selected, shown, observed, draftFor>>
    BY <1>1 DEF PollTimer, gatewayVars, viewVars
  <2>2. Poll("page") \in PollRecords /\ Poll("page").rows = {} /\ Poll("page").by = "page"
    BY DEF Poll, PollRecords
  <2>3. RelayTypes' /\ PostsMeant' /\ PendingMeant' /\ ReplyOfferedInTime'
    BY <1>t, <2>1, <2>2 DEF RelayTypes, PostsMeant, PendingMeant, Target, ReplyOfferedInTime
  <2>4. Awaited' = Awaited
    BY <2>1, <2>2 DEF Awaited
  <2>5. OneAtATime'
    BY <1>t, <2>1, <2>4 DEF OneAtATime
  <2>6. RowsTrue'
    BY <1>t, <2>1, <2>2, RowsKept
  <2> QED BY <2>3, <2>5, <2>6 DEF RelayInv
<1>2. CASE PageTick \/ Tick
  <2>1. clock' \in Nat /\ UNCHANGED <<log, skew, posts, polls, pending, busy, open, selected, shown, observed, draftFor>>
    BY <1>2, <1>t DEF PageTick, Tick, gatewayVars, viewVars, RelayTypes
  <2>2. RelayTypes' /\ PostsMeant' /\ PendingMeant' /\ ReplyOfferedInTime'
    BY <1>t, <2>1 DEF RelayTypes, PostsMeant, PendingMeant, Target, ReplyOfferedInTime
  <2>3. OneAtATime'
    BY <1>t, <2>1 DEF OneAtATime, Awaited
  <2>4. RowsTrue'
    BY <1>t, <2>1, RowsKept
  <2> QED BY <2>2, <2>3, <2>4 DEF RelayInv
<1>3. ASSUME NEW q \in polls, ReadPoll(q) PROVE RelayInv'
  <2>1. PICK z : z = Window
    OBVIOUS
  <2>2. PICK a : a = [q EXCEPT !.step = "read", !.rows = z]
    OBVIOUS
  <2>3. polls' = (polls \ {q}) \cup {a} /\ UNCHANGED <<log, clock, skew, posts, pending, busy, open, selected, shown, observed, draftFor>>
    BY <1>3, <2>1, <2>2 DEF ReadPoll, gatewayVars, viewVars
  <2>4. TrueRows(z)
    <3>1. \A r \in z : \E i \in DOMAIN log : r = log[i]
      BY <2>1 DEF Window
    <3>2. \A i \in DOMAIN log : log[i] \in Rows /\ log[i].id = i /\ (log[i].ussd => log[i].imei \in Modems)
      BY <1>t DEF RelayTypes, RowsTrue, UssdNamed
    <3> QED BY <3>1, <3>2 DEF TrueRows
  <2>5. q \in PollRecords /\ z \subseteq Rows
    BY <1>t, <2>4 DEF RelayTypes, TrueRows
  <2>6. a \in PollRecords /\ a.rows = z /\ a.by = q.by
    BY <2>2, <2>5 DEF PollRecords
  <2>7. RelayTypes' /\ PostsMeant' /\ PendingMeant' /\ ReplyOfferedInTime'
    BY <1>t, <2>3, <2>6 DEF RelayTypes, PostsMeant, PendingMeant, Target, ReplyOfferedInTime
  <2>8. Awaited' = IF q.by = "post" THEN (Awaited \ {q}) \cup {a} ELSE Awaited
    BY <2>3, <2>6 DEF Awaited
  <2>9. OneAtATime'
    <3>1. CASE q.by # "post"
      BY <1>t, <2>3, <2>8, <3>1 DEF OneAtATime
    <3>2. CASE q.by = "post"
      <4>1. q \in Awaited
        BY <3>2 DEF Awaited
      <4>2. busy = TRUE /\ posts = <<>> /\ Awaited = {q}
        BY <1>t, <4>1 DEF OneAtATime, RelayTypes
      <4>3. Awaited' = {a}
        BY <2>8, <3>2, <4>2
      <4> QED BY <1>t, <2>3, <4>2, <4>3 DEF OneAtATime
    <3> QED BY <3>1, <3>2
  <2>10. UssdNamed' /\ TrueRows(shown)'
    BY <1>t, <2>3 DEF RowsTrue, UssdNamed, TrueRows
  <2>11. ASSUME NEW b \in polls' PROVE TrueRows(b.rows)'
    <3>1. TrueRows(b.rows)
      BY <1>t, <2>3, <2>4, <2>6 DEF RowsTrue
    <3> QED BY <2>3, <3>1 DEF TrueRows
  <2> QED BY <2>7, <2>9, <2>10, <2>11 DEF RelayInv, RowsTrue
<1>4. ASSUME NEW q \in polls, busy' = (busy /\ q.by # "post"), polls' = polls \ {q},
             UNCHANGED <<log, clock, skew, posts, pending, open, selected, draftFor>>,
             shown' = shown \/ shown' = q.rows, observed' \in [id : Nat, at : Nat]
      PROVE  RelayInv'
  <2>1. busy' \in BOOLEAN
    BY <1>4, Zenon
  <2>2. RelayTypes' /\ PostsMeant' /\ PendingMeant' /\ ReplyOfferedInTime'
    BY <1>t, <1>4, <2>1 DEF RelayTypes, PostsMeant, PendingMeant, Target, ReplyOfferedInTime
  <2>3. OneAtATime'
    <3>1. CASE q.by # "post"
      <4>1. Awaited' = Awaited /\ (busy' <=> busy)
        BY <1>4, <3>1 DEF Awaited
      <4> QED BY <1>t, <1>4, <4>1 DEF OneAtATime
    <3>2. CASE q.by = "post"
      <4>1. q \in Awaited
        BY <3>2 DEF Awaited
      <4>2. busy = TRUE /\ posts = <<>> /\ Awaited = {q}
        BY <1>t, <4>1 DEF OneAtATime, RelayTypes
      <4>3. Awaited' = {} /\ ~busy'
        BY <1>4, <3>2, <4>2 DEF Awaited
      <4> QED BY <1>t, <1>4, <4>2, <4>3 DEF OneAtATime
    <3> QED BY <3>1, <3>2
  <2>4. \A b \in polls : TrueRows(b.rows)'
    BY <1>t, <1>4 DEF RowsTrue, TrueRows
  <2>5. TrueRows(shown)'
    <3>1. CASE shown' = shown
      BY <1>t, <1>4, <3>1 DEF RowsTrue, TrueRows
    <3>2. CASE shown' = q.rows
      BY <1>4, <2>4, <3>2 DEF TrueRows
    <3> QED BY <1>4, <3>1, <3>2
  <2>6. UssdNamed'
    BY <1>t, <1>4 DEF RowsTrue, UssdNamed
  <2> QED BY <1>4, <2>2, <2>3, <2>4, <2>5, <2>6 DEF RelayInv, RowsTrue
<1>5. ASSUME NEW q \in polls, ApplyPoll(q) PROVE RelayInv'
  <2>1. /\ busy' = (busy /\ q.by # "post") /\ polls' = polls \ {q} /\ shown' = q.rows
        /\ observed' = Observe(q.rows, observed)
        /\ UNCHANGED <<log, clock, skew, posts, pending, open, selected, draftFor>>
    BY <1>5 DEF ApplyPoll, gatewayVars
  <2>2. Observe(q.rows, observed) \in [id : Nat, at : Nat]
    <3> DEFINE seen == {r \in latestUssdExchange(q.rows) : r.status = "succeeded"}
    <3>1. CASE seen = {}
      BY <1>t, <3>1 DEF Observe, RelayTypes
    <3>2. CASE seen # {}
      <4>1. PICK r \in seen : r = CHOOSE s \in seen : TRUE
        BY <3>2
      <4>2. r \in q.rows
        BY DEF latestUssdExchange
      <4>3. r.id \in Nat
        BY <1>t, <4>2 DEF RowsTrue, TrueRows, Rows
      <4>4. Observe(q.rows, observed) = IF observed.id = r.id THEN observed ELSE [id |-> r.id, at |-> clock]
        BY <3>2, <4>1 DEF Observe
      <4> QED BY <1>t, <4>3, <4>4 DEF RelayTypes
    <3> QED BY <3>1, <3>2
  <2> QED BY <1>4, <2>1, <2>2
<1>6. ASSUME NEW q \in polls, FailPoll(q) PROVE RelayInv'
  <2>1. /\ busy' = (busy /\ q.by # "post") /\ polls' = polls \ {q}
        /\ UNCHANGED <<log, clock, skew, posts, pending, open, selected, draftFor, shown, observed>>
    BY <1>6 DEF FailPoll, viewVars
  <2> QED BY <1>t, <1>4, <2>1 DEF RelayTypes
<1> QED BY <1>1, <1>2, <1>3, <1>5, <1>6 DEF PollAnswered

LEMMA GatewayKeeps ==
    RelayInv /\ (\/ \E i \in DOMAIN posts : GatewayPost(i) \/ PageContinues(i) \/ LosePost(i)
                 \/ \E i \in DOMAIN log : Answered(i))
      => RelayInv'
<1> SUFFICES ASSUME RelayInv, \/ \E i \in DOMAIN posts : GatewayPost(i) \/ PageContinues(i) \/ LosePost(i)
                              \/ \E i \in DOMAIN log : Answered(i)
             PROVE  RelayInv'
  OBVIOUS
<1>t. RelayTypes /\ OneAtATime /\ PendingMeant /\ PostsMeant /\ RowsTrue /\ ReplyOfferedInTime
  BY DEF RelayInv
<1>1. ASSUME NEW i \in DOMAIN posts, AcceptPost(i) PROVE RelayInv'
  <2>1. /\ log' = Append(log, Row(posts[i])) /\ posts' = [posts EXCEPT ![i].step = "accepted"]
        /\ UNCHANGED <<clock, skew, polls, pending, busy, open, selected, shown, observed, draftFor>>
    BY <1>1 DEF AcceptPost, viewVars
  <2>2. /\ log' \in Seq(Rows) /\ (\A j \in DOMAIN log' : log'[j].id = j)
        /\ UssdNamed' /\ DOMAIN log \subseteq DOMAIN log' /\ \A j \in DOMAIN log : log'[j] = log[j]
    BY <1>t, <2>1, RowAppended
  <2>3. posts[i] \in PostRecords
    BY <1>t DEF RelayTypes
  <2>4. PICK p \in PostRecords : p = posts[i]
    BY <2>3
  <2>5. PICK a : a = [p EXCEPT !.step = "accepted"]
    OBVIOUS
  <2>6. a \in PostRecords /\ a.kind = p.kind /\ a.extra = p.extra /\ a.imei = p.imei /\ a.meant = p.meant /\ a.asked = p.asked
    BY <2>5 DEF PostRecords
  <2>7. posts' = [posts EXCEPT ![i] = a]
    BY <2>1, <2>4, <2>5
  <2>8. posts' \in Seq(PostRecords) /\ Len(posts') = Len(posts) /\ DOMAIN posts' = DOMAIN posts /\ posts'[i] = a
        /\ \A j \in DOMAIN posts : j # i => posts'[j] = posts[j]
    BY <1>t, <2>6, <2>7 DEF RelayTypes
  <2>9. RelayTypes'
    BY <1>t, <2>1, <2>2, <2>8 DEF RelayTypes
  <2>10. PostsMeant'
    BY <1>t, <2>4, <2>6, <2>8 DEF PostsMeant
  <2>11. OneAtATime'
    <3>1. Len(posts) = 1 /\ Awaited = {} /\ busy = TRUE /\ open = TRUE
      BY <1>t, PostOver
    <3> QED BY <2>1, <2>8, <3>1 DEF OneAtATime, Awaited
  <2>12. PendingMeant' /\ ReplyOfferedInTime'
    BY <1>t, <2>1 DEF PendingMeant, Target, ReplyOfferedInTime
  <2>13. RowsTrue'
    BY <1>t, <2>1, <2>2, RowsOutlast
  <2> QED BY <2>9, <2>10, <2>11, <2>12, <2>13 DEF RelayInv
<1>2. ASSUME NEW i \in DOMAIN posts, posts' = Drop(posts, i),
             UNCHANGED <<log, clock, skew, pending, open, selected, shown, observed, draftFor>>,
             \/ busy' = FALSE /\ UNCHANGED polls
             \/ UNCHANGED busy /\ polls' = polls \cup {Poll("post")}
      PROVE  RelayInv'
  <2>1. posts' = <<>> /\ Awaited = {} /\ busy = TRUE /\ open = TRUE
    BY <1>t, <1>2, PostOver
  <2>2. Poll("post") \in PollRecords /\ Poll("post").rows = {} /\ Poll("post").by = "post"
    BY DEF Poll, PollRecords
  <2>3. busy' \in BOOLEAN /\ polls' \subseteq PollRecords
    BY <1>t, <1>2, <2>1, <2>2 DEF RelayTypes
  <2>4. RelayTypes' /\ PostsMeant' /\ PendingMeant' /\ ReplyOfferedInTime'
    BY <1>t, <1>2, <2>1, <2>3 DEF RelayTypes, PostsMeant, PendingMeant, Target, ReplyOfferedInTime
  <2>5. OneAtATime'
    <3>1. CASE busy' = FALSE /\ UNCHANGED polls
      BY <1>2, <2>1, <3>1 DEF OneAtATime, Awaited
    <3>2. CASE UNCHANGED busy /\ polls' = polls \cup {Poll("post")}
      <4>1. Awaited' = {Poll("post")}
        BY <2>1, <2>2, <3>2 DEF Awaited
      <4> QED BY <1>2, <2>1, <3>2, <4>1 DEF OneAtATime
    <3> QED BY <1>2, <3>1, <3>2
  <2>6. RowsTrue'
    BY <1>t, <1>2, <2>2, RowsKept
  <2> QED BY <2>4, <2>5, <2>6 DEF RelayInv
<1>3. ASSUME NEW i \in DOMAIN posts, RefusePost(i) \/ LosePost(i) PROVE RelayInv'
  <2>1. /\ posts' = Drop(posts, i) /\ busy' = FALSE
        /\ UNCHANGED <<log, clock, skew, polls, pending, open, selected, shown, observed, draftFor>>
    BY <1>3 DEF RefusePost, LosePost, gatewayVars, viewVars
  <2> QED BY <1>2, <2>1
<1>4. ASSUME NEW i \in DOMAIN posts, PostSettled(i) PROVE RelayInv'
  <2>1. /\ posts' = Drop(posts, i) /\ polls' = polls \cup {Poll("post")}
        /\ UNCHANGED <<log, clock, skew, pending, busy, open, selected, shown, observed, draftFor>>
    BY <1>4 DEF PostSettled, gatewayVars, viewVars
  <2> QED BY <1>2, <2>1
<1>5. ASSUME NEW i \in DOMAIN log, NEW status \in {"succeeded", "failed"}, NEW expects \in BOOLEAN,
             DeviceAnswers(i, status, expects)
      PROVE  RelayInv'
  <2>1. PICK done : done = IF expects THEN clock ELSE 0
    OBVIOUS
  <2>2. /\ log[i].status = "queued"
        /\ log' = [log EXCEPT ![i].status = status, ![i].done = done, ![i].expects = expects]
        /\ UNCHANGED <<clock, skew, posts, polls, pending, busy, open, selected, shown, observed, draftFor>>
    BY <1>5, <2>1 DEF DeviceAnswers, viewVars
  <2>3. PICK r \in Rows : r = log[i]
    BY <1>t DEF RelayTypes
  <2>4. done \in Nat
    BY <1>t, <2>1 DEF RelayTypes
  <2>5. PICK a : a = [r EXCEPT !.status = status, !.done = done, !.expects = expects]
    OBVIOUS
  <2>6. a \in Rows /\ a.id = r.id /\ a.ussd = r.ussd /\ a.imei = r.imei
    BY <2>4, <2>5 DEF Rows
  <2>7. log' = [log EXCEPT ![i] = a]
    BY <1>t, <2>2, <2>3, <2>5 DEF RelayTypes
  <2>8. log' \in Seq(Rows) /\ DOMAIN log' = DOMAIN log /\ log'[i] = a /\ \A j \in DOMAIN log : j # i => log'[j] = log[j]
    BY <1>t, <2>6, <2>7 DEF RelayTypes
  <2>9. \A j \in DOMAIN log' : log'[j].id = j
    BY <1>t, <2>3, <2>6, <2>8 DEF RelayTypes
  <2>10. RelayTypes' /\ PostsMeant' /\ PendingMeant' /\ ReplyOfferedInTime'
    BY <1>t, <2>2, <2>8, <2>9 DEF RelayTypes, PostsMeant, PendingMeant, Target, ReplyOfferedInTime
  <2>11. OneAtATime'
    BY <1>t, <2>2 DEF OneAtATime, Awaited
  <2>12. UssdNamed'
    BY <1>t, <2>3, <2>6, <2>8 DEF RowsTrue, UssdNamed
  <2>13. \A j \in DOMAIN log : log[j].status \in TERMINAL => log'[j] = log[j]
    BY <2>2, <2>8 DEF TERMINAL
  <2>14. RowsTrue'
    BY <1>t, <2>2, <2>8, <2>12, <2>13, RowsOutlast
  <2> QED BY <2>10, <2>11, <2>14 DEF RelayInv
<1> QED BY <1>1, <1>3, <1>4, <1>5 DEF GatewayPost, PageContinues, Answered

LEMMA RelayStep == RelayInv /\ [Next]_relayVars => RelayInv'
<1>1. RelayInv /\ UNCHANGED relayVars => RelayInv'
  <2> SUFFICES ASSUME RelayInv, UNCHANGED relayVars PROVE RelayInv'
    OBVIOUS
  <2>1. RelayTypes' /\ PostsMeant' /\ PendingMeant' /\ ReplyOfferedInTime'
    BY DEF RelayInv, relayVars, RelayTypes, PostsMeant, PendingMeant, Target, ReplyOfferedInTime
  <2>2. OneAtATime'
    BY DEF RelayInv, relayVars, OneAtATime, Awaited
  <2>3. RowsTrue'
    BY RowsKept DEF RelayInv, relayVars
  <2> QED BY <2>1, <2>2, <2>3 DEF RelayInv
<1> QED BY <1>1, OperatorKeeps, WatchKeeps, GatewayKeeps DEF Next

LEMMA RelayStart == RelayInit => RelayInv
<1> SUFFICES ASSUME RelayInit PROVE RelayInv
  OBVIOUS
<1>1. RelayTypes
  <2>1. skew \in Int /\ First \in Modems /\ NotSeen \in [id : Nat, at : Nat]
    BY ConsoleAssumption DEF RelayInit, NotSeen
  <2>2. log \in Seq(Rows) /\ DOMAIN log = {} /\ posts \in Seq(PostRecords)
    BY DEF RelayInit
  <2> QED BY <2>1, <2>2 DEF RelayInit, RelayTypes
<1>2. OneAtATime /\ PendingMeant /\ PostsMeant /\ ReplyOfferedInTime
  BY DEF RelayInit, OneAtATime, Awaited, PendingMeant, PostsMeant, ReplyOfferedInTime
<1>3. RowsTrue
  BY DEF RelayInit, RowsTrue, UssdNamed, TrueRows
<1> QED BY <1>1, <1>2, <1>3 DEF RelayInv

\* One at a time, counted.
LEMMA BusyCounted == RelayInv => BusyIsExact
<1> SUFFICES ASSUME RelayInv PROVE BusyIsExact
  OBVIOUS
<1>1. OneAtATime /\ busy \in BOOLEAN
  BY DEF RelayInv, RelayTypes
<1>2. Cardinality({}) = 0 /\ \A q : Cardinality({q}) = 1
  BY FS_EmptySet, FS_Singleton
<1>3. CASE busy
  <2>1. CASE Len(posts) = 1 /\ Awaited = {}
    <3>1. Cardinality(Awaited) = 0
      BY <1>2, <2>1
    <3> QED BY <1>3, <2>1, <3>1 DEF BusyIsExact, Awaited
  <2>2. CASE posts = <<>> /\ \E q : Awaited = {q}
    <3>1. Cardinality(Awaited) = 1 /\ Len(posts) = 0
      BY <1>2, <2>2
    <3> QED BY <1>3, <3>1 DEF BusyIsExact, Awaited
  <2> QED BY <1>1, <1>3, <2>1, <2>2 DEF OneAtATime
<1>4. CASE ~busy
  <2>1. Cardinality(Awaited) = 0 /\ Len(posts) = 0
    BY <1>1, <1>2, <1>4 DEF OneAtATime
  <2> QED BY <1>4, <2>1 DEF BusyIsExact, Awaited
<1> QED BY <1>3, <1>4

LEMMA RelayInvImplies == RelayInv => PostedAsMeant /\ ReplyOfferedInTime /\ ShownIsTrue
<1>1. RelayInv => ReachesTheModemMeant /\ GuardedWereConfirmed
  BY DEF RelayInv, PostsMeant, ReachesTheModemMeant, GuardedWereConfirmed
<1>2. RelayInv => ShownIsTrue /\ ReplyOfferedInTime
  BY DEF RelayInv, RowsTrue, TrueRows, ShownIsTrue
<1> QED BY <1>1, <1>2, BusyCounted DEF PostedAsMeant

LEMMA RelayInvariant == Spec => []RelayInv
<1>1. Init => RelayInv
  BY RelayStart DEF Init
<1>2. RelayInv /\ [Next]_vars => RelayInv'
  BY RelayStep DEF vars
<1> QED BY <1>1, <1>2, PTL DEF Spec

\* A command leaves as its operator meant it: to the modem looked at, after the
\* confirmation its payload needs, and one command for one press.
THEOREM PostedAsTheyMeant == Spec => []PostedAsMeant
  BY RelayInvariant, RelayInvImplies, PTL

\* A reply to a USSD menu is never composed later than the session allows.
THEOREM RepliesInTime == Spec => []ReplyOfferedInTime
  BY RelayInvariant, RelayInvImplies, PTL

\* However polls overtake one another, the page shows no outcome that a command
\* did not have.
THEOREM ShownStaysTrue == Spec => []ShownIsTrue
  BY RelayInvariant, RelayInvImplies, PTL

-----------------------------------------------------------------------------
(* The eSIM panel.                                                           *)

PanelKinds == EsimKinds \cup {"rename_esim_profile", "download_esim_profile"}
Readings == [installed : SUBSET Iccids, enabled : Iccids \cup {Absent}]
PanelPosts == [kind : PanelKinds, imei : EsimModems, iccid : Iccids \cup {Absent}, code : Codes \cup {Absent}]
ChipRows == [id : Nat, kind : PanelKinds, imei : EsimModems, iccid : Iccids \cup {Absent},
             code : Codes \cup {Absent}, status : {"queued", "succeeded", "failed"},
             at : Nat, order : Nat, reading : Readings]

PanelTypes ==
  /\ chipLog \in Seq(ChipRows) /\ (\A i \in DOMAIN chipLog : chipLog[i].id = i)
  /\ panelBusy \in BOOLEAN /\ chipClock \in Nat /\ executed \in Nat /\ chip \in [EsimModems -> Readings]
  /\ panelPost # Absent => panelPost \in PanelPosts
  /\ panelPending # Absent => panelPending \in PanelPosts

\* What is carried out later is stamped no earlier.
StampsInOrder ==
  /\ \A i \in DOMAIN chipLog :
       chipLog[i].status # "queued" => chipLog[i].at <= chipClock /\ chipLog[i].order <= executed
  /\ \A i, j \in DOMAIN chipLog :
       chipLog[i].status # "queued" /\ chipLog[j].status # "queued" /\ chipLog[i].at < chipLog[j].at
         => chipLog[i].order < chipLog[j].order

\* The dialog is open only when nothing is being sent.
OnePanelPost ==
  /\ panelPost # Absent => panelBusy = TRUE
  /\ panelPending # Absent => panelBusy = FALSE

InLog(c) == \E i \in DOMAIN chipLog : chipLog[i].code = c
InPost(c) == panelPost # Absent /\ panelPost.code = c
InDialog(c) == panelPending # Absent /\ panelPending.code = c

\* A code is in one place: untyped, in the box, in the dialog, on its way, or
\* in one row of the log.
CodeInOnePlace ==
  \A c \in Codes :
    /\ c \in codesLeft => codeBox # c /\ ~InDialog(c) /\ ~InPost(c) /\ ~InLog(c)
    /\ codeBox = c => ~InDialog(c) /\ ~InPost(c) /\ ~InLog(c)
    /\ InDialog(c) => ~InLog(c)
    /\ InPost(c) => ~InLog(c)
    /\ \A i, j \in DOMAIN chipLog : chipLog[i].code = c /\ chipLog[j].code = c => i = j

BoxTyped == codeBox \in Codes \cup {""} /\ codesLeft \subseteq Codes

\* Rows the panel has read are rows of the log, final once carried out.
ReadRows(rows) ==
  \A r \in rows : /\ r \in ChipRows /\ r.id \in DOMAIN chipLog
                  /\ r.status # "queued" => r = chipLog[r.id]

\* A failed row of the log, which stays as it is.
FailedRow(f) == f.status = "failed" /\ f.id \in DOMAIN chipLog /\ f = chipLog[f.id]

\* A refresh half done: the failures it must show are in what it read first, if
\* their rows are there at all.
HalfReads ==
  \A q \in panelPolls :
    /\ ReadRows(q.first)
    /\ \A f \in q.failed : FailedRow(f) /\ \A s \in q.first : s.id = f.id => s = f

PanelRowsTrue == ReadRows(panelRows) /\ HalfReads

PanelInv ==
  PanelTypes /\ BoxTyped /\ StampsInOrder /\ OnePanelPost /\ CodeInOnePlace /\ PanelRowsTrue

-----------------------------------------------------------------------------
LEMMA DeliveredTyped == \A m \in EsimModems : Delivered(m) \in Readings
<1> SUFFICES ASSUME NEW m \in EsimModems PROVE Delivered(m) \in Readings
  OBVIOUS
<1>1. InService(m) \in Iccids \cup {Absent}
  BY DEF InService
<1> QED BY <1>1 DEF Delivered, Readings

LEMMA OutcomesTyped ==
    ASSUME PanelTypes, NEW r \in ChipRows, NEW o \in Outcomes(r)
    PROVE  o.status \in {"failed", "succeeded"} /\ o.chip \in Readings /\ o.reading \in Readings
<1>1. PICK c : c = chip[r.imei]
  OBVIOUS
<1>2. c \in Readings /\ NoReading \in Readings
  BY <1>1 DEF PanelTypes, ChipRows, NoReading, Readings
<1> DEFINE done(after) == [status |-> "succeeded", chip |-> after, reading |-> NoReading]
           failed == [status |-> "failed", chip |-> c, reading |-> NoReading]
<1>3. \/ o = failed \/ o = [done(c) EXCEPT !.reading = c] \/ o = done(c)
      \/ \E p \in Iccids : o = done([c EXCEPT !.enabled = p])
      \/ o = done([c EXCEPT !.enabled = Absent])
      \/ \E p \in Iccids : o = done([c EXCEPT !.installed = @ \ {p}])
  <2>1. CASE o = failed
    BY <2>1
  <2>2. CASE o # failed
    <3>1. CASE r.kind \in ESIM_CHIP_COMMANDS
      <4>1. o = [done(c) EXCEPT !.reading = c] \/ o = done(c)
        BY <1>1, <2>2, <3>1 DEF Outcomes, ESIM_CHIP_COMMANDS
      <4> QED BY <4>1
    <3>2. CASE r.kind \notin ESIM_CHIP_COMMANDS /\ r.kind = "switch_esim_profile"
      <4>1. c.installed \subseteq Iccids
        BY <1>2 DEF Readings
      <4>2. o = done(c) \/ \E p \in c.installed \cap {r.iccid} : o = done([c EXCEPT !.enabled = p])
        BY <1>1, <2>2, <3>2 DEF Outcomes, ESIM_CHIP_COMMANDS
      <4> QED BY <4>1, <4>2
    <3>3. CASE r.kind = "disable_esim_profile"
      <4>1. \E p \in {c.enabled} \cap {r.iccid} : o = done([c EXCEPT !.enabled = Absent])
        BY <1>1, <2>2, <3>3 DEF Outcomes, ESIM_CHIP_COMMANDS
      <4> QED BY <4>1
    <3>4. CASE r.kind = "delete_esim_profile"
      <4>1. c.installed \subseteq Iccids
        BY <1>2 DEF Readings
      <4>2. \E p \in (c.installed \ {c.enabled}) \cap {r.iccid} : o = done([c EXCEPT !.installed = @ \ {p}])
        BY <1>1, <2>2, <3>4 DEF Outcomes, ESIM_CHIP_COMMANDS
      <4> QED BY <4>1, <4>2
    <3>5. CASE r.kind \notin ESIM_CHIP_COMMANDS \cup {"switch_esim_profile", "disable_esim_profile", "delete_esim_profile"}
      BY <1>1, <2>2, <3>5 DEF Outcomes
    <3> QED BY <3>1, <3>2, <3>3, <3>4, <3>5
  <2> QED BY <2>1, <2>2
<1>4. /\ \A p \in Iccids \cup {Absent} : [c EXCEPT !.enabled = p] \in Readings
      /\ \A p \in Iccids : [c EXCEPT !.installed = @ \ {p}] \in Readings
  BY <1>2 DEF Readings
<1>5. ASSUME NEW after \in Readings, o = done(after)
      PROVE  o.status \in {"failed", "succeeded"} /\ o.chip \in Readings /\ o.reading \in Readings
  BY <1>2, <1>5
<1>6. CASE o = failed
  BY <1>2, <1>6
<1>7. CASE o = [done(c) EXCEPT !.reading = c]
  BY <1>2, <1>7
<1> HIDE DEF done, failed
<1>8. CASE \E p \in Iccids : o = done([c EXCEPT !.enabled = p])
  BY <1>4, <1>5, <1>8
<1>9. CASE o = done([c EXCEPT !.enabled = Absent])
  BY <1>4, <1>5, <1>9
<1>10. CASE \E p \in Iccids : o = done([c EXCEPT !.installed = @ \ {p}])
  BY <1>4, <1>5, <1>10
<1> QED BY <1>2, <1>3, <1>5, <1>6, <1>7, <1>8, <1>9, <1>10

\* Every query returns rows of the log as they are.
LEMMA QueriesRead ==
    ASSUME PanelTypes
    PROVE  /\ ReadRows(QueryRows(DOMAIN chipLog))
           /\ \A kinds : ReadRows(KindRows(kinds))
           /\ \A r \in QueryRows(DOMAIN chipLog) : \E i \in DOMAIN chipLog : r = chipLog[i]
<1>1. \A r \in QueryRows(DOMAIN chipLog) : \E i \in DOMAIN chipLog : r = chipLog[i]
  BY DEF QueryRows
<1>3. ASSUME NEW kinds, NEW r \in KindRows(kinds)
      PROVE  \E i \in DOMAIN chipLog : r = chipLog[i]
  <2>1. PICK k \in kinds : r \in KindQuery(k)
    BY <1>3 DEF KindRows
  <2> QED BY <2>1 DEF KindQuery, QueryRows
<1>4. \A i \in DOMAIN chipLog : chipLog[i] \in ChipRows /\ chipLog[i].id = i
  BY DEF PanelTypes
<1> QED BY <1>1, <1>3, <1>4 DEF ReadRows

\* The rows of the profile table name a module and a profile there is.
LEMMA TableTyped ==
    ASSUME PanelInv, NEW row \in mergeEsimProfiles(Inventory, esimProfileRowsFromReads(panelRows))
    PROVE  row.imei \in EsimModems /\ row.iccid \in Iccids
<1>1. \/ row \in Inventory
      \/ row \in esimProfileRowsFromReads(panelRows)
  BY DEF mergeEsimProfiles
<1>2. CASE row \in Inventory
  <2>1. PICK p \in Iccids : row.imei = Home[p] /\ row.iccid = p
    BY <1>2 DEF Inventory
  <2> QED BY <2>1, EsimAssumption
<1>3. CASE row \in esimProfileRowsFromReads(panelRows)
  <2>1. PICK l \in latestEsimProfileListings(panelRows) : row.imei = l.imei /\ row.iccid \in l.reading.installed
    BY <1>3 DEF esimProfileRowsFromReads
  <2>2. l \in panelRows
    BY <2>1 DEF latestEsimProfileListings, Newest
  <2>3. l \in ChipRows
    BY <2>2 DEF PanelInv, PanelRowsTrue, ReadRows
  <2> QED BY <2>1, <2>3 DEF ChipRows, Readings
<1> QED BY <1>1, <1>2, <1>3

\* Nothing is read and nothing carried out.
LEMMA PanelRowsKept ==
    ASSUME PanelRowsTrue, UNCHANGED chipLog, panelRows' = panelRows \/ panelRows' = {},
           \A q \in panelPolls' : q \in panelPolls \/ (q.first = {} /\ q.failed = {})
    PROVE  PanelRowsTrue'
<1>1. ReadRows(panelRows)'
  BY DEF PanelRowsTrue, ReadRows
<1>2. \A q \in panelPolls : ReadRows(q.first)'
  BY DEF PanelRowsTrue, HalfReads, ReadRows
<1>3. \A q : q.first = {} => ReadRows(q.first)'
  BY DEF ReadRows
<1>4. \A f : FailedRow(f) => FailedRow(f)'
  BY DEF FailedRow
<1> QED BY <1>1, <1>2, <1>3, <1>4 DEF PanelRowsTrue, HalfReads

\* A command is accepted or carried out: what was read as final stays so.
LEMMA PanelRowsOutlast ==
    ASSUME PanelRowsTrue, panelRows' = panelRows \/ panelRows' = {},
           \A q \in panelPolls' : q \in panelPolls \/ (q.first = {} /\ q.failed = {}),
           DOMAIN chipLog \subseteq DOMAIN chipLog',
           \A i \in DOMAIN chipLog : chipLog[i].status # "queued" => chipLog'[i] = chipLog[i]
    PROVE  PanelRowsTrue'
<1>1. ReadRows(panelRows)'
  BY DEF PanelRowsTrue, ReadRows
<1>2. \A q \in panelPolls : ReadRows(q.first)'
  BY DEF PanelRowsTrue, HalfReads, ReadRows
<1>3. \A q : q.first = {} => ReadRows(q.first)'
  BY DEF ReadRows
<1>4. \A f : FailedRow(f) => FailedRow(f)'
  BY DEF FailedRow
<1> QED BY <1>1, <1>2, <1>3, <1>4 DEF PanelRowsTrue, HalfReads

LEMMA ChipLogTyped ==
    ASSUME PanelTypes
    PROVE  /\ chipLog \in Seq(ChipRows) /\ Len(chipLog) \in Nat /\ DOMAIN chipLog = 1 .. Len(chipLog)
           /\ \A i \in DOMAIN chipLog : /\ chipLog[i] \in ChipRows
                                        /\ chipLog[i].at \in Nat /\ chipLog[i].order \in Nat
<1>1. chipLog \in Seq(ChipRows)
  BY DEF PanelTypes
<1>2. Len(chipLog) \in Nat /\ DOMAIN chipLog = 1 .. Len(chipLog) /\ \A i \in DOMAIN chipLog : chipLog[i] \in ChipRows
  BY <1>1
<1>3. \A r \in ChipRows : r.at \in Nat /\ r.order \in Nat
  BY DEF ChipRows
<1> QED BY <1>1, <1>2, <1>3

LEMMA RefreshIsEmpty == Refresh.first = {} /\ Refresh.failed = {} /\ Refresh.step = "sent"
  BY DEF Refresh

\* Where codes are does not depend on anything else.
LEMMA CodesKept ==
    ASSUME CodeInOnePlace, UNCHANGED chipLog,
           \A c \in Codes : /\ c \in codesLeft' => c \in codesLeft
                            /\ codeBox' = c => codeBox = c
                            /\ InDialog(c)' => InDialog(c)
                            /\ InPost(c)' => InPost(c) \/ InDialog(c)
    PROVE  CodeInOnePlace'
<1>1. \A c \in Codes : InLog(c)' <=> InLog(c)
  BY DEF InLog
<1> QED BY <1>1 DEF CodeInOnePlace

LEMMA PanelRequestKeeps ==
    ASSUME PanelInv, PanelUsable, NEW p \in PanelPosts, panelRequest(p),
           UNCHANGED <<chipLog, chip, chipClock, executed, panelPolls, panelRows, codesLeft>>,
           \/ p.code = Absent /\ UNCHANGED codeBox
           \/ p.code = codeBox /\ codeBox # "" /\ codeBox' = ""
    PROVE  PanelInv'
<1>t. PanelTypes /\ BoxTyped /\ StampsInOrder /\ OnePanelPost /\ CodeInOnePlace /\ PanelRowsTrue
  BY DEF PanelInv
<1>a. Absent \notin Codes /\ "" \notin Codes
  BY EsimAssumption
<1>1. panelPost = Absent /\ panelPending = Absent /\ panelBusy = FALSE
  BY <1>t DEF PanelUsable, OnePanelPost, PanelTypes
<1>2. \/ panelPending' = p /\ panelPost' = Absent /\ panelBusy' = FALSE
      \/ panelPost' = p /\ panelPending' = Absent /\ panelBusy' = TRUE
  BY <1>1 DEF panelRequest, panelRunNow
<1>3. PanelTypes' /\ OnePanelPost' /\ StampsInOrder'
  BY <1>t, <1>2 DEF PanelTypes, OnePanelPost, StampsInOrder
<1>4. BoxTyped'
  BY <1>t DEF BoxTyped
<1>5. PanelRowsTrue'
  BY <1>t, PanelRowsKept
<1>6. CodeInOnePlace'
  <2>1. \A c \in Codes : (InDialog(c)' \/ InPost(c)') => p.code = c /\ ~(InDialog(c)' /\ InPost(c)')
    BY <1>2 DEF InDialog, InPost
  <2>2. \A c \in Codes : InLog(c)' <=> InLog(c)
    BY DEF InLog
  <2>3. ASSUME NEW c \in Codes
        PROVE  /\ c \in codesLeft' => codeBox' # c /\ ~InDialog(c)' /\ ~InPost(c)' /\ ~InLog(c)'
               /\ codeBox' = c => ~InDialog(c)' /\ ~InPost(c)' /\ ~InLog(c)'
               /\ InDialog(c)' => ~InLog(c)'
               /\ InPost(c)' => ~InLog(c)'
    <3>1. CASE p.code = Absent /\ UNCHANGED codeBox
      BY <1>t, <1>a, <2>1, <2>2, <3>1 DEF CodeInOnePlace
    <3>2. CASE p.code = codeBox /\ codeBox # "" /\ codeBox' = ""
      BY <1>t, <1>a, <2>1, <2>2, <3>2 DEF CodeInOnePlace
    <3> QED BY <3>1, <3>2
  <2> QED BY <1>t, <2>3 DEF CodeInOnePlace
<1> QED BY <1>3, <1>4, <1>5, <1>6 DEF PanelInv

\* What the panel may do about a POST that the gateway took.
PostTaken ==
  /\ UNCHANGED <<chip, chipClock, executed, codesLeft>> /\ panelPost' = Absent
  /\ panelPending' = panelPending \/ panelPending' = Absent
  /\ panelBusy' \in BOOLEAN /\ (panelBusy' = TRUE => panelPending' = Absent)
  /\ codeBox' = codeBox \/ codeBox' = ""
  /\ panelRows' = panelRows \/ panelRows' = {}
  /\ \A q \in panelPolls' : q \in panelPolls \/ (q.first = {} /\ q.failed = {})

\* The POST becomes the newest row of the log.
LEMMA ChipLogGrows ==
    ASSUME PanelInv, panelPost # Absent, chipLog' = Append(chipLog, ChipRow(panelPost)), PostTaken
    PROVE  PanelInv'
<1>t. PanelTypes /\ BoxTyped /\ StampsInOrder /\ OnePanelPost /\ CodeInOnePlace /\ PanelRowsTrue
  BY DEF PanelInv
<1>a. Absent \notin Codes /\ "" \notin Codes
  BY EsimAssumption
<1>1. PICK p \in PanelPosts : p = panelPost
  BY <1>t DEF PanelTypes
<1>l. chipLog \in Seq(ChipRows) /\ Len(chipLog) \in Nat /\ DOMAIN chipLog = 1 .. Len(chipLog)
  BY <1>t, ChipLogTyped
<1>2. PICK n \in Nat : n = Len(chipLog) + 1
  BY <1>l
<1>3. PICK r : r = [id |-> n, kind |-> p.kind, imei |-> p.imei, iccid |-> p.iccid, code |-> p.code,
                    status |-> "queued", at |-> 0, order |-> 0, reading |-> NoReading]
  OBVIOUS
<1>4. chipLog' = Append(chipLog, r)
  BY <1>1, <1>2, <1>3 DEF ChipRow
<1>5. r \in ChipRows /\ r.id = n /\ r.code = p.code /\ r.status = "queued"
  <2>1. NoReading \in Readings
    BY DEF NoReading, Readings
  <2> QED BY <1>3, <2>1 DEF ChipRows, PanelPosts
<1>6. /\ chipLog' \in Seq(ChipRows) /\ DOMAIN chipLog' = DOMAIN chipLog \cup {n} /\ n \notin DOMAIN chipLog
      /\ chipLog'[n] = r /\ \A i \in DOMAIN chipLog : chipLog'[i] = chipLog[i]
  BY <1>l, <1>2, <1>4, <1>5
<1>7. \A i \in DOMAIN chipLog' : chipLog'[i].id = i
  BY <1>t, <1>5, <1>6 DEF PanelTypes
<1>8. PanelTypes'
  BY <1>t, <1>6, <1>7 DEF PanelTypes, PostTaken
<1>9. StampsInOrder'
  <2>1. \A i \in DOMAIN chipLog' : chipLog'[i].status # "queued" => i \in DOMAIN chipLog /\ chipLog'[i] = chipLog[i]
    BY <1>5, <1>6
  <2>2. UNCHANGED <<chipClock, executed>>
    BY DEF PostTaken
  <2> QED BY <1>t, <2>1, <2>2 DEF StampsInOrder
<1>10. OnePanelPost' /\ BoxTyped'
  BY <1>t, <1>8 DEF OnePanelPost, BoxTyped, PanelTypes, PostTaken
<1>11. PanelRowsTrue'
  BY <1>t, <1>6, PanelRowsOutlast DEF PostTaken
<1>12. CodeInOnePlace'
  <2>1. \A c \in Codes : InLog(c)' <=> InLog(c) \/ InPost(c)
    BY <1>1, <1>5, <1>6 DEF InLog, InPost
  <2>2. \A c \in Codes : ~InPost(c)' /\ (InDialog(c)' => InDialog(c)) /\ ~(InDialog(c) /\ InPost(c))
    BY <1>t DEF InDialog, InPost, OnePanelPost, PostTaken
  <2>3. \A c \in Codes : \A i, j \in DOMAIN chipLog' : chipLog'[i].code = c /\ chipLog'[j].code = c => i = j
    <3> SUFFICES ASSUME NEW c \in Codes, NEW i \in DOMAIN chipLog', NEW j \in DOMAIN chipLog',
                        chipLog'[i].code = c, chipLog'[j].code = c, i # j
                 PROVE  FALSE
      OBVIOUS
    <3>1. CASE i \in DOMAIN chipLog /\ j \in DOMAIN chipLog
      BY <1>t, <1>6, <3>1 DEF CodeInOnePlace
    <3>2. CASE i = n \/ j = n
      <4>1. InPost(c) /\ InLog(c)
        BY <1>1, <1>5, <1>6, <3>2 DEF InPost, InLog
      <4> QED BY <1>t, <4>1 DEF CodeInOnePlace
    <3> QED BY <1>6, <3>1, <3>2
  <2>4. UNCHANGED codesLeft /\ (codeBox' = codeBox \/ codeBox' = "")
    BY DEF PostTaken
  <2> QED BY <1>t, <1>a, <2>1, <2>2, <2>3, <2>4 DEF CodeInOnePlace
<1> QED BY <1>8, <1>9, <1>10, <1>11, <1>12 DEF PanelInv

\* A step that composes nothing, reads nothing and carries nothing out.
PanelIdle ==
  /\ UNCHANGED <<chipLog, chip, executed>> /\ chipClock' \in Nat /\ chipClock' >= chipClock
  /\ panelBusy' \in BOOLEAN
  /\ panelPending' \in {panelPending, Absent} /\ panelPost' \in {panelPost, panelPending, Absent}
  /\ codeBox' = codeBox \/ codeBox' = ""
  /\ codesLeft' \subseteq codesLeft
  /\ panelRows' = panelRows \/ panelRows' = {}
  /\ \A q \in panelPolls' : q \in panelPolls \/ (q.first = {} /\ q.failed = {})
  /\ panelPost' # Absent => panelBusy' = TRUE
  /\ panelPending' # Absent => panelBusy' = FALSE

LEMMA PanelIdleKeeps == ASSUME PanelInv, PanelIdle PROVE PanelInv'
<1>t. PanelTypes /\ BoxTyped /\ StampsInOrder /\ OnePanelPost /\ CodeInOnePlace /\ PanelRowsTrue
  BY DEF PanelInv
<1>a. Absent \notin Codes /\ "" \notin Codes
  BY EsimAssumption
<1>1. PanelTypes'
  BY <1>t DEF PanelTypes, PanelIdle
<1>2. StampsInOrder'
  <2>1. chipClock \in Nat /\ \A i \in DOMAIN chipLog : chipLog[i].at \in Nat
    BY <1>t, ChipLogTyped DEF PanelTypes
  <2>2. UNCHANGED <<chipLog, executed>> /\ chipClock' \in Nat /\ chipClock' >= chipClock
    BY DEF PanelIdle
  <2> QED BY <1>t, <2>1, <2>2 DEF StampsInOrder
<1>3. OnePanelPost' /\ BoxTyped'
  BY <1>t DEF OnePanelPost, BoxTyped, PanelIdle
<1>4. PanelRowsTrue'
  BY <1>t, PanelRowsKept DEF PanelIdle
<1>5. CodeInOnePlace'
  BY <1>t, <1>a, CodesKept DEF InDialog, InPost, PanelIdle
<1> QED BY <1>1, <1>2, <1>3, <1>4, <1>5 DEF PanelInv

\* What the operator composes is a command for a module of the panel.
LEMMA PostTyped ==
    ASSUME NEW kind \in PanelKinds, NEW m \in EsimModems, NEW i \in Iccids \cup {Absent}, NEW c \in Codes \cup {Absent}
    PROVE  PanelPost(kind, m, i, c) \in PanelPosts /\ PanelPost(kind, m, i, c).code = c
  BY DEF PanelPost, PanelPosts

LEMMA PanelOperatorKeeps == PanelInv /\ PanelOperator => PanelInv'
<1> SUFFICES ASSUME PanelInv, PanelOperator PROVE PanelInv'
  OBVIOUS
<1>t. PanelTypes /\ BoxTyped /\ StampsInOrder /\ OnePanelPost /\ CodeInOnePlace /\ PanelRowsTrue
  BY DEF PanelInv
<1>n. chipClock \in Nat /\ panelBusy \in BOOLEAN
  BY <1>t DEF PanelTypes
<1>r. ASSUME NEW kind \in PanelKinds, NEW m \in EsimModems, NEW i \in Iccids \cup {Absent}, PanelUsable,
             panelRequest(PanelPost(kind, m, i, Absent)),
             UNCHANGED <<deviceVars, panelPolls, panelRows, codeBox, codesLeft>>
      PROVE  PanelInv'
  <2>1. PICK p \in PanelPosts : p = PanelPost(kind, m, i, Absent) /\ p.code = Absent
    BY PostTyped
  <2> QED BY <1>r, <2>1, PanelRequestKeeps DEF deviceVars
<1>1. ASSUME NEW kind \in EsimKinds, NEW m \in EsimModems, PanelRead(kind, m) PROVE PanelInv'
  BY <1>1, <1>r DEF PanelRead, PanelKinds
<1>2. ASSUME NEW kind \in EsimKinds, NEW row \in mergeEsimProfiles(Inventory, esimProfileRowsFromReads(panelRows)),
             PanelRowAction(kind, row)
      PROVE  PanelInv'
  BY <1>2, <1>r, TableTyped DEF PanelRowAction, PanelKinds
<1>3. ASSUME NEW row \in Inventory, PanelRename(row) PROVE PanelInv'
  <2>1. PICK p \in Iccids : row.imei = Home[p] /\ row.iccid = p
    BY DEF Inventory
  <2>2. row.imei \in EsimModems /\ row.iccid \in Iccids
    BY <2>1, EsimAssumption
  <2> QED BY <1>3, <1>r, <2>2 DEF PanelRename, PanelKinds
<1>4. ASSUME NEW c \in codesLeft, PanelTypeCode(c) PROVE PanelInv'
  <2>1. /\ codeBox = "" /\ codeBox' = c /\ codesLeft' = codesLeft \ {c}
        /\ UNCHANGED <<chipLog, chip, chipClock, executed, panelPost, panelPolls, panelPending, panelBusy, panelRows>>
    BY <1>4 DEF PanelTypeCode, deviceVars
  <2>2. c \in Codes
    BY <1>t DEF BoxTyped
  <2>3. PanelTypes' /\ OnePanelPost' /\ StampsInOrder'
    BY <1>t, <2>1 DEF PanelTypes, OnePanelPost, StampsInOrder
  <2>4. BoxTyped'
    BY <1>t, <2>1, <2>2 DEF BoxTyped
  <2>5. PanelRowsTrue'
    BY <1>t, <2>1, PanelRowsKept
  <2>6. \A d \in Codes : (InLog(d)' <=> InLog(d)) /\ (InDialog(d)' <=> InDialog(d)) /\ (InPost(d)' <=> InPost(d))
    BY <2>1 DEF InLog, InDialog, InPost
  <2>7. CodeInOnePlace'
    BY <1>t, <2>1, <2>6 DEF CodeInOnePlace
  <2> QED BY <2>3, <2>4, <2>5, <2>7 DEF PanelInv
<1>5. ASSUME NEW m \in EsimModems, PanelDownload(m) PROVE PanelInv'
  <2>1. PICK c \in Codes : c = codeBox
    BY <1>5, <1>t DEF BoxTyped, PanelDownload
  <2>2. PICK p \in PanelPosts : p = PanelPost("download_esim_profile", m, Absent, c) /\ p.code = c
    BY PostTyped DEF PanelKinds
  <2>3. /\ PanelUsable /\ panelRequest(p) /\ codeBox # "" /\ codeBox' = ""
        /\ UNCHANGED <<chipLog, chip, chipClock, executed, panelPolls, panelRows, codesLeft>>
    BY <1>5, <2>1, <2>2 DEF PanelDownload, deviceVars
  <2> QED BY <2>1, <2>2, <2>3, PanelRequestKeeps
<1>6. CASE PanelProceed \/ PanelCancel
  <2>1. /\ panelPending # Absent /\ panelPending' = Absent
        /\ UNCHANGED <<chipLog, chip, chipClock, executed, panelPolls, panelRows, codeBox, codesLeft>>
        /\ (panelPost' = panelPending /\ panelBusy' = TRUE) \/ UNCHANGED <<panelPost, panelBusy>>
    BY <1>6 DEF PanelProceed, PanelCancel, panelRunNow, deviceVars
  <2>2. panelBusy' \in BOOLEAN /\ (panelPost' # Absent => panelBusy' = TRUE)
    BY <1>t, <1>n, <2>1 DEF OnePanelPost
  <2>3. chipClock' \in Nat /\ chipClock' >= chipClock
    BY <1>n, <2>1
  <2>4. PanelIdle
    BY <2>1, <2>2, <2>3 DEF PanelIdle
  <2> QED BY <2>4, PanelIdleKeeps
<1>7. CASE PanelReload
  <2>0. /\ panelPost' = Absent /\ panelPending' = Absent /\ panelBusy' = FALSE /\ panelRows' = {}
        /\ panelPolls' = {Refresh} /\ codeBox' = "" /\ UNCHANGED <<chip, chipClock, executed, codesLeft>>
    BY <1>7 DEF PanelReload
  <2>1. CASE panelPost # Absent /\ chipLog' = Append(chipLog, ChipRow(panelPost))
    <3>1. PostTaken
      BY <2>0, RefreshIsEmpty DEF PostTaken
    <3> QED BY <2>1, <3>1, ChipLogGrows
  <2>2. CASE UNCHANGED chipLog
    <3>0. chipClock' = chipClock
      BY <2>0
    <3>1. chipClock' \in Nat /\ chipClock' >= chipClock
      BY <1>n, <3>0
    <3>2. \A q \in panelPolls' : q.first = {} /\ q.failed = {}
      BY <2>0, RefreshIsEmpty
    <3>3. PanelIdle
      BY <2>0, <2>2, <3>1, <3>2 DEF PanelIdle
    <3> QED BY <3>3, PanelIdleKeeps
  <2> QED BY <1>7, <2>1, <2>2 DEF PanelReload
<1> QED BY <1>1, <1>2, <1>3, <1>4, <1>5, <1>6, <1>7 DEF PanelOperator

\* The device carries a command out.
LEMMA DeviceKeeps == PanelInv /\ DeviceStep => PanelInv'
<1> SUFFICES ASSUME PanelInv, NEW i \in DOMAIN chipLog, DeviceExecutes(i) PROVE PanelInv'
  BY DEF DeviceStep
<1>t. PanelTypes /\ BoxTyped /\ StampsInOrder /\ OnePanelPost /\ CodeInOnePlace /\ PanelRowsTrue
  BY DEF PanelInv
<1>l. /\ chipLog \in Seq(ChipRows)
      /\ \A j \in DOMAIN chipLog : chipLog[j] \in ChipRows /\ chipLog[j].at \in Nat /\ chipLog[j].order \in Nat
  BY <1>t, ChipLogTyped
<1>n. chipClock \in Nat /\ executed \in Nat
  BY <1>t DEF PanelTypes
<1>1. PICK r \in ChipRows : r = chipLog[i]
  BY <1>l
<1>2. PICK o \in Outcomes(r) :
        /\ chipLog' = [chipLog EXCEPT ![i].status = o.status, ![i].at = chipClock,
                                      ![i].order = executed + 1, ![i].reading = o.reading]
        /\ chip' = [chip EXCEPT ![r.imei] = o.chip]
  BY <1>1 DEF DeviceExecutes
<1>3. r.status = "queued" /\ executed' = executed + 1 /\ UNCHANGED <<chipClock, panelPost, panelPolls, panelPending, panelBusy, panelRows, codeBox, codesLeft>>
  BY <1>1 DEF DeviceExecutes, panelVars
<1>4. o.status \in {"failed", "succeeded"} /\ o.chip \in Readings /\ o.reading \in Readings
  BY <1>t, OutcomesTyped
<1>5. PICK status \in {"failed", "succeeded"}, at \in Nat, order \in Nat, reading \in Readings :
        status = o.status /\ at = chipClock /\ order = executed + 1 /\ reading = o.reading
  BY <1>n, <1>4
<1>6. PICK a : a = [r EXCEPT !.status = status, !.at = at, !.order = order, !.reading = reading]
  OBVIOUS
<1>7. a \in ChipRows /\ a.id = r.id /\ a.code = r.code /\ a.status = status /\ a.at = at /\ a.order = order
  BY <1>6 DEF ChipRows
<1>8. chipLog' = [chipLog EXCEPT ![i] = a]
  BY <1>l, <1>1, <1>2, <1>5, <1>6
<1>9. /\ chipLog' \in Seq(ChipRows) /\ DOMAIN chipLog' = DOMAIN chipLog /\ chipLog'[i] = a
      /\ \A j \in DOMAIN chipLog : j # i => chipLog'[j] = chipLog[j]
  BY <1>l, <1>7, <1>8
<1>10. PanelTypes'
  <2>1. chip' \in [EsimModems -> Readings]
    BY <1>t, <1>2, <1>4 DEF PanelTypes
  <2>2. \A j \in DOMAIN chipLog' : chipLog'[j].id = j
    BY <1>t, <1>1, <1>7, <1>9 DEF PanelTypes
  <2>3. chipClock' \in Nat /\ executed' \in Nat
    BY <1>n, <1>3
  <2> QED BY <1>t, <1>3, <1>9, <2>1, <2>2, <2>3 DEF PanelTypes
<1>11. StampsInOrder'
  <2>1. \A j \in DOMAIN chipLog : /\ chipLog'[j].code = chipLog[j].code
                                  /\ chipLog'[j] = IF j = i THEN a ELSE chipLog[j]
    BY <1>1, <1>7, <1>9
  <2>2. a.at = chipClock /\ a.order = executed + 1
    BY <1>5, <1>7
  <2>3. ASSUME NEW j \in DOMAIN chipLog', chipLog'[j].status # "queued"
        PROVE  chipLog'[j].at <= chipClock' /\ chipLog'[j].order <= executed'
    BY <1>t, <1>l, <1>n, <1>3, <1>9, <2>1, <2>2, <2>3 DEF StampsInOrder
  <2>4. ASSUME NEW j \in DOMAIN chipLog', NEW k \in DOMAIN chipLog', chipLog'[j].status # "queued",
               chipLog'[k].status # "queued", chipLog'[j].at < chipLog'[k].at
        PROVE  chipLog'[j].order < chipLog'[k].order
    <3>1. CASE j # i /\ k # i
      BY <1>t, <1>9, <2>4, <3>1 DEF StampsInOrder
    <3>2. CASE j = i /\ k = i
      BY <1>n, <1>9, <2>2, <2>4, <3>2
    <3>3. CASE j # i /\ k = i
      <4>1. chipLog[j].order <= executed /\ chipLog[j].order \in Nat /\ chipLog'[j] = chipLog[j] /\ chipLog'[k] = a
        BY <1>t, <1>l, <1>9, <2>4, <3>3 DEF StampsInOrder
      <4> QED BY <1>n, <2>2, <4>1
    <3>4. CASE j = i /\ k # i
      <4>1. chipLog[k].at <= chipClock /\ chipLog[k].at \in Nat /\ chipLog'[k] = chipLog[k] /\ chipLog'[j] = a
        BY <1>t, <1>l, <1>9, <2>4, <3>4 DEF StampsInOrder
      <4> QED BY <1>n, <2>2, <2>4, <4>1
    <3> QED BY <3>1, <3>2, <3>3, <3>4
  <2> QED BY <2>3, <2>4 DEF StampsInOrder
<1>12. OnePanelPost' /\ BoxTyped'
  BY <1>t, <1>3 DEF OnePanelPost, BoxTyped
<1>13. PanelRowsTrue'
  BY <1>t, <1>1, <1>3, <1>9, PanelRowsOutlast
<1>14. CodeInOnePlace'
  <2>1. \A j \in DOMAIN chipLog : chipLog'[j].code = chipLog[j].code
    BY <1>1, <1>7, <1>9
  <2>2. \A c \in Codes : (InLog(c)' <=> InLog(c)) /\ (InDialog(c)' <=> InDialog(c)) /\ (InPost(c)' <=> InPost(c))
    BY <1>3, <1>9, <2>1 DEF InLog, InDialog, InPost
  <2> QED BY <1>t, <1>3, <1>9, <2>1, <2>2 DEF CodeInOnePlace
<1> QED BY <1>10, <1>11, <1>12, <1>13, <1>14 DEF PanelInv

\* The refreshes.
LEMMA RefreshKeeps == PanelInv /\ RefreshStep => PanelInv'
<1> SUFFICES ASSUME PanelInv, NEW q \in panelPolls, RefreshWhole(q) \/ RefreshKinds(q) PROVE PanelInv'
  BY DEF RefreshStep
<1>t. PanelTypes /\ BoxTyped /\ StampsInOrder /\ OnePanelPost /\ CodeInOnePlace /\ PanelRowsTrue
  BY DEF PanelInv
<1>0. UNCHANGED <<chipLog, chip, chipClock, executed, panelPost, panelPending, panelBusy, codeBox, codesLeft>>
  BY DEF RefreshWhole, RefreshKinds, deviceVars
<1>1. PanelTypes' /\ OnePanelPost' /\ StampsInOrder' /\ BoxTyped'
  BY <1>t, <1>0 DEF PanelTypes, OnePanelPost, StampsInOrder, BoxTyped
<1>2. CodeInOnePlace'
  BY <1>t, <1>0, CodesKept DEF InDialog, InPost
<1>3. /\ \A rows : ReadRows(rows) => ReadRows(rows)'
      /\ \A f : FailedRow(f) => FailedRow(f)'
  BY <1>0 DEF ReadRows, FailedRow
<1>4. CASE RefreshWhole(q)
  <2>1. PICK rows \in {QueryRows(DOMAIN chipLog), {}} :
          panelPolls' = (panelPolls \ {q}) \cup
            {[step |-> "half", first |-> rows,
              failed |-> {chipLog[i] : i \in {j \in DOMAIN chipLog : chipLog[j].status = "failed"}}]}
    BY <1>4 DEF RefreshWhole
  <2>2. PICK failed : failed = {chipLog[i] : i \in {j \in DOMAIN chipLog : chipLog[j].status = "failed"}}
    OBVIOUS
  <2>3. PICK h : h = [step |-> "half", first |-> rows, failed |-> failed]
    OBVIOUS
  <2>4. panelPolls' = (panelPolls \ {q}) \cup {h} /\ h.first = rows /\ h.failed = failed
    BY <2>1, <2>2, <2>3
  <2>5. \A f \in failed : \E i \in DOMAIN chipLog : f = chipLog[i] /\ f.status = "failed"
    BY <2>2
  <2>6. \A s \in rows : \E i \in DOMAIN chipLog : s = chipLog[i]
    BY <1>t, <2>1, QueriesRead
  <2>7. ReadRows(rows)
    BY <1>t, <2>1, QueriesRead DEF ReadRows
  <2>8. /\ \A f \in failed, s \in rows : s.id = f.id => s = f
        /\ \A f \in failed : FailedRow(f)
    BY <1>t, <2>5, <2>6 DEF PanelTypes, FailedRow
  <2>9. UNCHANGED panelRows
    BY <1>4 DEF RefreshWhole
  <2>10. ReadRows(panelRows)'
    BY <1>t, <1>0, <2>9 DEF PanelRowsTrue, ReadRows
  <2>11. HalfReads'
    <3> SUFFICES ASSUME NEW b \in panelPolls'
                 PROVE  /\ ReadRows(b.first)'
                        /\ \A f \in b.failed : FailedRow(f)' /\ \A s \in b.first : s.id = f.id => s = f
      BY DEF HalfReads
    <3>1. CASE b = h
      BY <1>3, <2>4, <2>7, <2>8, <3>1
    <3>2. CASE b \in panelPolls
      BY <1>t, <1>3, <3>2 DEF PanelRowsTrue, HalfReads
    <3> QED BY <2>4, <3>1, <3>2
  <2> QED BY <1>1, <1>2, <2>10, <2>11 DEF PanelInv, PanelRowsTrue
<1>5. CASE RefreshKinds(q)
  <2>1. PICK answered : /\ panelPolls' = panelPolls \ {q}
                        /\ panelRows' = mergeCommandBatches(q.first, KindRows(answered))
    BY <1>5 DEF RefreshKinds
  <2>2. ReadRows(q.first) /\ ReadRows(KindRows(answered))
    BY <1>t, QueriesRead DEF PanelRowsTrue, HalfReads
  <2>3. \A r \in panelRows' : r \in q.first \/ r \in KindRows(answered)
    BY <2>1 DEF mergeCommandBatches
  <2>4. ReadRows(panelRows)'
    BY <1>0, <2>2, <2>3 DEF ReadRows
  <2>5. HalfReads'
    BY <1>t, <1>3, <2>1 DEF PanelRowsTrue, HalfReads
  <2> QED BY <1>1, <1>2, <2>4, <2>5 DEF PanelInv, PanelRowsTrue
<1> QED BY <1>4, <1>5

LEMMA EsimStep == PanelInv /\ [EsimNext]_esimVars => PanelInv'
<1> SUFFICES ASSUME PanelInv, [EsimNext]_esimVars PROVE PanelInv'
  OBVIOUS
<1>t. PanelTypes /\ OnePanelPost
  BY DEF PanelInv
<1>n. chipClock \in Nat /\ panelBusy \in BOOLEAN
  BY <1>t DEF PanelTypes
<1>1. CASE PanelAccepted
  <2>1. PostTaken /\ panelPost # Absent /\ chipLog' = Append(chipLog, ChipRow(panelPost))
    BY <1>1, RefreshIsEmpty DEF PanelAccepted, PostTaken
  <2> QED BY <2>1, ChipLogGrows
<1>2. CASE PanelBroken
  <2>1. CASE chipLog' = Append(chipLog, ChipRow(panelPost))
    <3>1. PostTaken /\ panelPost # Absent
      BY <1>2, <1>t, <1>n DEF PanelBroken, PostTaken, OnePanelPost
    <3> QED BY <2>1, <3>1, ChipLogGrows
  <2>2. CASE UNCHANGED chipLog
    <3>1. PanelIdle
      BY <1>2, <1>t, <1>n, <2>2 DEF PanelBroken, PanelIdle, OnePanelPost
    <3> QED BY <3>1, PanelIdleKeeps
  <2> QED BY <1>2, <2>1, <2>2 DEF PanelBroken
<1>3. CASE PanelRefused
  <2>1. PanelIdle
    <3>1. /\ panelPost' = Absent /\ panelBusy' = FALSE
          /\ UNCHANGED <<chipLog, chip, chipClock, executed, panelPolls, panelPending, panelRows, codeBox, codesLeft>>
      BY <1>3 DEF PanelRefused, deviceVars
    <3>2. chipClock' = chipClock
      BY <3>1
    <3>3. chipClock' \in Nat /\ chipClock' >= chipClock
      BY <1>n, <3>2
    <3> QED BY <3>1, <3>3 DEF PanelIdle
  <2> QED BY <2>1, PanelIdleKeeps
<1>4. CASE ChipTick
  <2>1. PanelIdle
    BY <1>4, <1>t, <1>n DEF ChipTick, PanelIdle, panelVars, OnePanelPost
  <2> QED BY <2>1, PanelIdleKeeps
<1>5. CASE PanelPollTimer
  <2>1. /\ panelPolls' = panelPolls \cup {Refresh}
        /\ UNCHANGED <<chipLog, chip, chipClock, executed, panelPost, panelPending, panelBusy, panelRows, codeBox, codesLeft>>
    BY <1>5 DEF PanelPollTimer, deviceVars
  <2>2. \A q \in panelPolls' : q \in panelPolls \/ (q.first = {} /\ q.failed = {})
    BY <2>1, RefreshIsEmpty
  <2>3. chipClock' \in Nat /\ chipClock' >= chipClock
    BY <1>n, <2>1
  <2>4. PanelIdle
    BY <1>t, <1>n, <2>1, <2>2, <2>3 DEF PanelIdle, OnePanelPost
  <2> QED BY <2>4, PanelIdleKeeps
<1>6. ASSUME NEW q \in panelPolls, RefreshBroken(q) PROVE PanelInv'
  <2>1. PanelIdle
    BY <1>6, <1>t, <1>n DEF RefreshBroken, PanelIdle, deviceVars, OnePanelPost
  <2> QED BY <2>1, PanelIdleKeeps
<1>7. CASE UNCHANGED esimVars
  <2>1. PanelIdle
    BY <1>7, <1>t, <1>n DEF esimVars, PanelIdle, OnePanelPost
  <2> QED BY <2>1, PanelIdleKeeps
<1> QED BY <1>1, <1>2, <1>3, <1>4, <1>5, <1>6, <1>7, PanelOperatorKeeps, DeviceKeeps, RefreshKeeps DEF EsimNext

LEMMA EsimStart == EsimInit => PanelInv
<1> SUFFICES ASSUME EsimInit PROVE PanelInv
  OBVIOUS
<1>0. chipLog = <<>>
  BY DEF EsimInit
<1>1. chipLog = <<>> /\ DOMAIN chipLog = {} /\ chipLog \in Seq(ChipRows)
  BY <1>0
<1>2. chip \in [EsimModems -> Readings]
  BY DeliveredTyped DEF EsimInit
<1>3. PanelTypes /\ OnePanelPost /\ StampsInOrder /\ BoxTyped
  BY <1>1, <1>2 DEF EsimInit, PanelTypes, OnePanelPost, StampsInOrder, BoxTyped
<1>4. CodeInOnePlace
  BY <1>1, EsimAssumption DEF EsimInit, CodeInOnePlace, InLog, InDialog, InPost
<1>5. PanelRowsTrue
  BY RefreshIsEmpty DEF EsimInit, PanelRowsTrue, HalfReads, ReadRows
<1> QED BY <1>3, <1>4, <1>5 DEF PanelInv

LEMMA CodesCounted == PanelInv => CodeSpentOnce
<1> SUFFICES ASSUME PanelInv, NEW c \in Codes
             PROVE  Cardinality({i \in DOMAIN chipLog : chipLog[i].code = c}) <= 1
  BY DEF CodeSpentOnce
<1> DEFINE S == {i \in DOMAIN chipLog : chipLog[i].code = c}
<1>1. \A i, j \in S : i = j
  BY DEF PanelInv, CodeInOnePlace
<1>2. Cardinality({}) = 0 /\ \A i : Cardinality({i}) = 1
  BY FS_EmptySet, FS_Singleton
<1> HIDE DEF S
<1>3. CASE S = {}
  <2>1. Cardinality(S) = 0
    BY <1>2, <1>3
  <2> QED BY <2>1 DEF S
<1>4. CASE S # {}
  <2>1. PICK i \in S : TRUE
    BY <1>4
  <2>2. S = {i}
    BY <1>1, <2>1
  <2>3. Cardinality(S) = 1
    BY <1>2, <2>2
  <2> QED BY <2>3 DEF S
<1> QED BY <1>3, <1>4

\* A row of the table that is stamped later than a switch comes from a reading
\* of the log that was carried out after it.
LEMMA LaterRowIsLaterReading ==
    ASSUME PanelInv, NEW s \in newestSwitch(panelRows),
           NEW p \in mergeEsimProfiles(Inventory, esimProfileRowsFromReads(panelRows)), p.at > s.at
    PROVE  \E i \in DOMAIN chipLog :
             /\ chipLog[i].order > s.order /\ chipLog[i].kind \in ESIM_CHIP_COMMANDS
             /\ p.iccid \in chipLog[i].reading.installed
             /\ p.state = IF p.iccid = chipLog[i].reading.enabled THEN "enabled" ELSE "disabled"
<1>t. PanelTypes /\ StampsInOrder /\ ReadRows(panelRows)
  BY DEF PanelInv, PanelRowsTrue
<1>l. \A i \in DOMAIN chipLog : chipLog[i].at \in Nat /\ chipLog[i].order \in Nat
  BY <1>t, ChipLogTyped
<1>1. s \in panelRows /\ s.status = "succeeded"
  BY DEF newestSwitch, Newest
<1>2. s.id \in DOMAIN chipLog /\ s = chipLog[s.id]
  BY <1>t, <1>1 DEF ReadRows
<1>3. p \notin Inventory
  <2> SUFFICES ASSUME p \in Inventory PROVE FALSE
    OBVIOUS
  <2>1. p.at = 0
    BY DEF Inventory
  <2>2. s.at \in Nat
    BY <1>l, <1>2
  <2> QED BY <2>1, <2>2
<1>4. p \in esimProfileRowsFromReads(panelRows)
  BY <1>3 DEF mergeEsimProfiles
<1>5. PICK l \in latestEsimProfileListings(panelRows) :
        \E k \in l.reading.installed :
          p = [imei |-> l.imei, iccid |-> k, at |-> l.at,
               state |-> IF k = l.reading.enabled THEN "enabled" ELSE "disabled"]
  BY <1>4 DEF esimProfileRowsFromReads
<1>6. PICK k \in l.reading.installed :
          p = [imei |-> l.imei, iccid |-> k, at |-> l.at,
               state |-> IF k = l.reading.enabled THEN "enabled" ELSE "disabled"]
  BY <1>5
<1>7. /\ p.at = l.at /\ p.iccid \in l.reading.installed
      /\ p.state = IF p.iccid = l.reading.enabled THEN "enabled" ELSE "disabled"
  BY <1>6
<1>8. l \in panelRows /\ l.kind \in ESIM_CHIP_COMMANDS /\ l.status = "succeeded"
  BY <1>5 DEF latestEsimProfileListings, Newest
<1>9. l.id \in DOMAIN chipLog /\ l = chipLog[l.id]
  BY <1>t, <1>8 DEF ReadRows
<1>10. s.at < l.at
  BY <1>l, <1>2, <1>7, <1>9
<1>11. s.order < l.order
  BY <1>t, <1>1, <1>2, <1>8, <1>9, <1>10 DEF StampsInOrder
<1>12. l.order > s.order
  BY <1>l, <1>2, <1>9, <1>11
<1> QED BY <1>7, <1>8, <1>9, <1>12

LEMMA VerdictsFollow == PanelInv => VerdictTruthful
<1> SUFFICES ASSUME PanelInv, NEW s \in newestSwitch(panelRows)
             PROVE  LET verdict == esimSwitchVerdict(panelRows, s)
                        after == {i \in DOMAIN chipLog : chipLog[i].order > s.order /\ chipLog[i].kind \in ESIM_CHIP_COMMANDS}
                    IN /\ verdict = "confirmed" => \E i \in after : chipLog[i].reading.enabled = s.iccid
                       /\ verdict = "contradicted" =>
                            \E i \in after : /\ s.iccid \in chipLog[i].reading.installed
                                             /\ chipLog[i].reading.enabled # s.iccid
  BY DEF VerdictTruthful
<1> DEFINE observed_ == mergeEsimProfiles(Inventory, esimProfileRowsFromReads(panelRows))
           latest == Newest({p \in observed_ : p.iccid = s.iccid /\ p.at > s.at})
<1>1. /\ esimSwitchVerdict(panelRows, s) = "confirmed" => \E p \in latest : p.state = "enabled"
      /\ esimSwitchVerdict(panelRows, s) = "contradicted" => latest # {} /\ \A p \in latest : p.state # "enabled"
  <2> HIDE DEF observed_
  <2>1. esimSwitchVerdict(panelRows, s) =
          IF latest = {} THEN "unverified"
          ELSE IF \E p \in latest : p.state = "enabled" THEN "confirmed" ELSE "contradicted"
    BY DEF esimSwitchVerdict, observed_
  <2> HIDE DEF latest
  <2> QED BY <2>1
<1>2. \A p \in latest : p \in observed_ /\ p.iccid = s.iccid /\ p.at > s.at
  <2> HIDE DEF observed_
  <2> QED BY DEF Newest
<1>3. \A p \in latest :
        \E i \in DOMAIN chipLog :
             /\ chipLog[i].order > s.order /\ chipLog[i].kind \in ESIM_CHIP_COMMANDS
             /\ s.iccid \in chipLog[i].reading.installed
             /\ p.state = IF s.iccid = chipLog[i].reading.enabled THEN "enabled" ELSE "disabled"
  <2> SUFFICES ASSUME NEW p \in latest
               PROVE  \E i \in DOMAIN chipLog :
                        /\ chipLog[i].order > s.order /\ chipLog[i].kind \in ESIM_CHIP_COMMANDS
                        /\ s.iccid \in chipLog[i].reading.installed
                        /\ p.state = IF s.iccid = chipLog[i].reading.enabled THEN "enabled" ELSE "disabled"
    OBVIOUS
  <2> HIDE DEF latest
  <2>1. p \in observed_ /\ p.iccid = s.iccid /\ p.at > s.at
    BY <1>2
  <2> QED BY <2>1, LaterRowIsLaterReading
<1> HIDE DEF latest
<1>4. esimSwitchVerdict(panelRows, s) = "confirmed" =>
        \E i \in DOMAIN chipLog : chipLog[i].order > s.order /\ chipLog[i].kind \in ESIM_CHIP_COMMANDS
                                  /\ chipLog[i].reading.enabled = s.iccid
  BY <1>1, <1>3
<1>5. esimSwitchVerdict(panelRows, s) = "contradicted" =>
        \E i \in DOMAIN chipLog : chipLog[i].order > s.order /\ chipLog[i].kind \in ESIM_CHIP_COMMANDS
                                  /\ s.iccid \in chipLog[i].reading.installed /\ chipLog[i].reading.enabled # s.iccid
  BY <1>1, <1>3
<1> QED BY <1>4, <1>5

\* The action of FailureNotCrowdedOut.
FailuresShown ==
  \A q \in panelPolls \ panelPolls' :
    q.step = "half" /\ ~PanelReload /\ faults' = faults =>
      \A f \in q.failed : LastWord(f) => f.imei \in esimReadFailures(panelRows')

\* The query by kind returns a row that fewer than EsimLimit of its kind came after.
LEMMA KindRowsReach ==
    ASSUME NEW i \in DOMAIN chipLog, NEW kinds, chipLog[i].kind \in kinds,
           Cardinality({j \in DOMAIN chipLog : chipLog[j].kind = chipLog[i].kind /\ j > i}) < EsimLimit
    PROVE  chipLog[i] \in KindRows(kinds)
<1>1. PICK k : k = chipLog[i].kind
  OBVIOUS
<1>2. PICK ids : ids = {j \in DOMAIN chipLog : chipLog[j].kind = k}
  OBVIOUS
<1>3. {j \in DOMAIN chipLog : chipLog[j].kind = chipLog[i].kind /\ j > i} = {j \in ids : j > i}
  BY <1>1, <1>2
<1>4. i \in {j \in ids : Cardinality({l \in ids : l > j}) < EsimLimit}
  BY <1>1, <1>2, <1>3
<1>5. chipLog[i] \in {chipLog[n] : n \in {j \in ids : Cardinality({l \in ids : l > j}) < EsimLimit}}
  BY <1>4
<1>6. chipLog[i] \in KindQuery(k)
  BY <1>2, <1>5 DEF KindQuery, QueryRows
<1> QED BY <1>1, <1>6 DEF KindRows

LEMMA FailureStep == PanelInv /\ faults \in Nat /\ [EsimNext]_esimVars => FailuresShown
<1> SUFFICES ASSUME PanelInv, faults \in Nat, [EsimNext]_esimVars, NEW q \in panelPolls \ panelPolls',
                    q.step = "half", ~PanelReload, faults' = faults, NEW f \in q.failed, LastWord(f)
             PROVE  f.imei \in esimReadFailures(panelRows')
  BY DEF FailuresShown
<1>1. RefreshKinds(q)
  <2>1. EsimNext
    BY DEF esimVars
  <2>2. ~(PanelOperator /\ ~PanelReload)
    BY DEF PanelOperator, PanelRead, PanelRowAction, PanelRename, PanelTypeCode, PanelDownload, PanelProceed, PanelCancel
  <2>3. ~PanelReload
    OBVIOUS
  <2>4. ~(PanelAccepted \/ PanelRefused \/ PanelBroken \/ ChipTick \/ PanelPollTimer)
    BY DEF PanelAccepted, PanelRefused, PanelBroken, ChipTick, PanelPollTimer, panelVars
  <2>5. ~DeviceStep
    BY DEF DeviceStep, DeviceExecutes, panelVars
  <2>6. ~\E b \in panelPolls : RefreshBroken(b)
    BY DEF RefreshBroken, ConnectionBreaks
  <2>7. RefreshStep
    BY <2>1, <2>2, <2>3, <2>4, <2>5, <2>6 DEF EsimNext
  <2>8. PICK b \in panelPolls : RefreshWhole(b) \/ RefreshKinds(b)
    BY <2>7 DEF RefreshStep
  <2>9. panelPolls \ {b} \subseteq panelPolls'
    BY <2>8 DEF RefreshWhole, RefreshKinds
  <2>10. b = q
    BY <2>9
  <2>11. ~RefreshWhole(q)
    BY DEF RefreshWhole
  <2> QED BY <2>8, <2>10, <2>11
<1>2. /\ UNCHANGED chipLog
      /\ panelRows' = mergeCommandBatches(q.first, KindRows(ESIM_CHIP_COMMANDS))
  BY <1>1 DEF RefreshKinds, deviceVars, ConnectionBreaks
<1>3. FailedRow(f) /\ \A s \in q.first : s.id = f.id => s = f
  BY DEF PanelInv, PanelRowsTrue, HalfReads
<1>4. ReadRows(KindRows(ESIM_CHIP_COMMANDS)) /\ ReadRows(q.first)
  BY QueriesRead DEF PanelInv, PanelRowsTrue, HalfReads
<1>5. f \in KindRows(ESIM_CHIP_COMMANDS)
  BY <1>3, KindRowsReach DEF FailedRow, LastWord
<1>6. f \in panelRows'
  BY <1>2, <1>3, <1>5 DEF mergeCommandBatches
<1>7. f.imei \in EsimModems /\ f.kind \in ESIM_CHIP_COMMANDS /\ f.status = "failed"
  BY <1>3, <1>4, <1>5 DEF ReadRows, ChipRows, FailedRow, LastWord
<1>8. \A r \in panelRows' : r.status # "queued" => r.id \in DOMAIN chipLog /\ r = chipLog[r.id]
  BY <1>2, <1>4 DEF mergeCommandBatches, ReadRows
<1>9. \A r \in panelRows' : r.kind \in ESIM_CHIP_COMMANDS /\ r.imei = f.imei /\ r.status = "succeeded" => r.at < f.at
  BY <1>8 DEF LastWord
<1> QED BY <1>6, <1>7, <1>9 DEF esimReadFailures

-----------------------------------------------------------------------------
(* The page with both panels.                                                *)

LEMMA DevicePageParts ==
    [DevicePageNext]_devicePageVars => [Next]_relayVars /\ [EsimNext]_esimVars
  BY DEF DevicePageNext, devicePageVars

LEMMA RelayFaults == Next => faults' = faults \/ faults' = faults + 1
  BY DEF Next, Operator, Proceed, CancelPending, SaveNote, UssdStart, UssdCancel, UssdReply, SelectModem, Press,
         SubmitAt, SubmitRegister, Open, Leave, GatewayPost, AcceptPost, RefusePost, PageContinues, PostSettled,
         LosePost, PollAnswered, ReadPoll, ApplyPoll, FailPoll, Answered, DeviceAnswers, PollTimer, PageTick, Tick,
         ConnectionBreaks, gatewayVars

LEMMA PanelFaults == EsimNext => faults' = faults \/ faults' = faults + 1
<1> SUFFICES ASSUME EsimNext PROVE ConnectionHolds \/ ConnectionBreaks
  BY DEF ConnectionHolds, ConnectionBreaks
<1>1. CASE PanelOperator
  BY <1>1 DEF PanelOperator, PanelRead, PanelRowAction, PanelRename, PanelTypeCode, PanelDownload, PanelProceed,
              PanelCancel, PanelReload
<1>2. CASE PanelAccepted \/ PanelRefused \/ PanelBroken \/ ChipTick \/ PanelPollTimer
  BY <1>2 DEF PanelAccepted, PanelRefused, PanelBroken, ChipTick, PanelPollTimer
<1>3. CASE DeviceStep
  BY <1>3 DEF DeviceStep, DeviceExecutes
<1>4. CASE RefreshStep
  BY <1>4 DEF RefreshStep, RefreshWhole, RefreshKinds
<1>5. ASSUME NEW q \in panelPolls, RefreshBroken(q) PROVE ConnectionHolds \/ ConnectionBreaks
  BY <1>5 DEF RefreshBroken
<1> QED BY <1>1, <1>2, <1>3, <1>4, <1>5 DEF EsimNext

DevicePageInv == RelayInv /\ PanelInv /\ faults \in Nat

LEMMA DevicePageStep == DevicePageInv /\ [DevicePageNext]_devicePageVars => DevicePageInv'
<1>1. [DevicePageNext]_devicePageVars => faults' = faults \/ faults' = faults + 1
  BY RelayFaults, PanelFaults DEF DevicePageNext, devicePageVars
<1>2. faults \in Nat /\ [DevicePageNext]_devicePageVars => faults' \in Nat
  BY <1>1
<1> QED BY <1>2, DevicePageParts, RelayStep, EsimStep DEF DevicePageInv

\* Both panels keep their invariants, whichever is shown.
THEOREM DevicePageInvariant == DevicePageSpec => []DevicePageInv
<1>1. DevicePageInit => DevicePageInv
  BY RelayStart, EsimStart DEF DevicePageInit, DevicePageInv
<1> QED BY <1>1, DevicePageStep, PTL DEF DevicePageSpec

\* The panel says a switch is confirmed or contradicted only on the word of a
\* reading that was carried out after it.
THEOREM VerdictsTruthful == DevicePageSpec => []VerdictTruthful
<1>1. DevicePageInv => VerdictTruthful
  BY VerdictsFollow DEF DevicePageInv
<1> QED BY <1>1, DevicePageInvariant, PTL

\* An activation code reaches the gateway at most once.
THEOREM CodesSpentOnce == DevicePageSpec => []CodeSpentOnce
<1>1. DevicePageInv => CodeSpentOnce
  BY CodesCounted DEF DevicePageInv
<1> QED BY <1>1, DevicePageInvariant, PTL

\* Every refresh that began after a module failed to be read, and whose queries by
\* kind were answered, reports it, until a reading succeeds or EsimLimit commands
\* of its kind came after it: what else the device was sent does not matter.
THEOREM FailuresReported == DevicePageSpec => FailureNotCrowdedOut
<1>1. DevicePageInv /\ [DevicePageNext]_devicePageVars => [FailuresShown]_esimVars
  BY DevicePageParts, FailureStep DEF DevicePageInv
<1>2. FailureNotCrowdedOut <=> [][FailuresShown]_esimVars
  BY DEF FailureNotCrowdedOut, FailuresShown
<1> QED BY <1>1, <1>2, DevicePageInvariant, PTL DEF DevicePageSpec
=============================================================================
