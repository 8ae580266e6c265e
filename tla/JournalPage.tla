----------------------------- MODULE JournalPage -----------------------------
(***************************************************************************)
(* The journal page (components/journal.tsx): a row expands to the         *)
(* envelope the device sent, which is fetched when the row is opened,      *)
(* from the newest rows of that device (catalog.ListEvents).               *)
(***************************************************************************)
EXTENDS ConsolePage, FiniteSets

CONSTANTS
  JournalDevices,      \* devices
  MaxSeq,              \* bound: sequence numbers a device reaches
  PayloadRows,         \* how many of a device's rows the fetch asks for
  Undefined,           \* a field that is not there; a payload not fetched
  Null                 \* a payload that was looked for and not found

ASSUME JournalAssumption == MaxSeq \in Nat /\ PayloadRows \in Nat

VARIABLES
  reported,            \* gateway: how far each device's sequence has come
  listed,              \* props: the rows the page was drawn with
  opened,              \* useState open
  payloads,            \* useState payloads, by rowKey
  fetches              \* rows whose payload is on its way

journalVars == <<reported, listed, opened, payloads, fetches>>

\* "A device's sequence is unique per device, not globally."
rowKey(event) == <<event.deviceId, event.seq>>

NoRowOpen == <<Undefined, 0>>

-----------------------------------------------------------------------------
\* The gateway's answer, under the names it gives the fields. An envelope is
\* recognised by the device and the sequence number it came with.
ListEvents(d) ==
  {[seq |-> n, device_id |-> d, payload |-> <<d, n>>] :
     n \in {k \in 1..reported[d] : k + PayloadRows > reported[d]}}

field(row, name) == IF name \in DOMAIN row THEN row[name] ELSE Undefined

\* The candidate the page takes for the row.
matching(rows, event) ==
  {row \in rows : field(row, "seq") = event.seq /\ field(row, "deviceId") = event.deviceId}

expand(event) ==
  LET key == rowKey(event) IN
  /\ IF opened = key THEN opened' = NoRowOpen /\ UNCHANGED fetches
     ELSE /\ opened' = key
          /\ fetches' = IF payloads[key] # Undefined THEN fetches ELSE fetches \cup {event}
  /\ UNCHANGED <<reported, listed, payloads>> /\ ConnectionHolds

PayloadFetched ==
  \E event \in fetches :
    LET found == matching(ListEvents(event.deviceId), event) IN
    /\ payloads' = [payloads EXCEPT ![rowKey(event)] =
         IF found = {} THEN Null ELSE (CHOOSE row \in found : TRUE).payload]
    /\ fetches' = fetches \ {event}
    /\ UNCHANGED <<reported, listed, opened>> /\ ConnectionHolds

\* Refused or broken: the row goes on saying that it loads.
PayloadLost ==
  \E event \in fetches :
    /\ fetches' = fetches \ {event}
    /\ UNCHANGED <<reported, listed, opened, payloads>> /\ ConnectionBreaks

Reports(d) ==
  /\ reported[d] < MaxSeq
  /\ reported' = [reported EXCEPT ![d] = @ + 1]
  /\ UNCHANGED <<listed, opened, payloads, fetches>> /\ ConnectionHolds

-----------------------------------------------------------------------------
JournalInit ==
  /\ reported = [d \in JournalDevices |-> 1]
  /\ listed = {[deviceId |-> d, seq |-> 1] : d \in JournalDevices}
  /\ opened = NoRowOpen /\ fetches = {}
  /\ payloads = [key \in JournalDevices \X (1..MaxSeq) |-> Undefined]

JournalNext ==
  \/ \E event \in listed : expand(event)
  \/ PayloadFetched \/ PayloadLost
  \/ \E d \in JournalDevices : Reports(d)

-----------------------------------------------------------------------------
(* Properties.                                                               *)

\* A row that is still among the ones fetched expands to its envelope ("a row
\* expands to the envelope verbatim rather than to a summary").
EnvelopeShown ==
  \A event \in listed :
    reported[event.deviceId] < event.seq + PayloadRows => payloads[rowKey(event)] # Null
=============================================================================
