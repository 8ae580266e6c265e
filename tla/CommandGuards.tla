---------------------------- MODULE CommandGuards ----------------------------
(***************************************************************************)
(* The ledger that says which commands ask before they are sent            *)
(* (lib/tokens.ts, DEVICE_COMMAND_GUARDS and AT_COMMAND_GUARDS). The device *)
(* console and the eSIM panel both decide by it.                           *)
(***************************************************************************)
EXTENDS Integers, Sequences, TLC

CONSTANT Absent        \* a payload field, dialog or modem that is not there

\* What a request carries besides its kind.
NoExtra == [modem_imei |-> Absent, stage |-> Absent, enabled |-> Absent,
            mode |-> Absent, usbnet_mode |-> Absent, command |-> Absent]

(* Which commands ask first. A verdict is TRUE when a confirmation is due.   *)

\* Whether a typed command matches one of AT_COMMAND_GUARDS.
atCommandGuard(c) ==
  LET verb == Head(c)  args == Tail(c) IN
  \/ verb = "qcfg" /\ Len(args) >= 2 /\ args[1] = "usbnet"
  \/ verb = "cfun" /\ Len(args) = 2 /\ args[2] = 1
  \/ verb = "cfun" /\ Len(args) >= 1 /\ args[1] \in {0, 4, 7} /\ (Len(args) = 2 => args[2] = 0)
  \/ verb = "cops" /\ Len(args) >= 1 /\ args[1] \in {1, 2}
  \/ verb = "crsm" /\ Len(args) >= 1 /\ args[1] \in {214, 219, 220}
  \/ verb \in {"csim", "qprtpara"} /\ Len(args) >= 1
  \/ verb \in {"ccho", "cgla", "cchc"}

FreeKinds == {"modem_report", "refresh_modems", "register_modem", "update_modem",
              "reconfirm_modem", "read_logs", "run_at_command", "list_esim_profiles",
              "read_esim_info", "retrieve_esim_notification",
              "initiate_esim_authentication", "rename_esim_profile"}
AskedKinds == {"restart_modem", "reset_modem_usb", "scan_operators", "rotate_ip",
               "reregister_network", "disable_esim_profile", "delete_esim_profile",
               "claim_modem_candidate", "revoke_modem_candidate", "unregister_modem",
               "create_modem", "configure_apn", "switch_esim_profile", "download_esim_profile"}
Otherwise(asks) == [when |-> <<>>, asks |-> asks]
When(field, value, asks) == [when |-> field :> value, asks |-> asks]

\* The ledger: per kind, variants tried in order; the last matches anything.
DEVICE_COMMAND_GUARDS ==
  [k \in FreeKinds |-> <<Otherwise(FALSE)>>]
    @@ [k \in AskedKinds |-> <<Otherwise(TRUE)>>]
    @@ [k \in {"set_radio", "set_data_network"} |->
          <<When("enabled", "false", TRUE), Otherwise(FALSE)>>]
    @@ ("select_operator" :> <<When("mode", "manual", TRUE), Otherwise(FALSE)>>)
    @@ ("set_usbnet_mode" :> <<When("usbnet_mode", "rmnet", TRUE), Otherwise(TRUE)>>)
    @@ ("send_ussd" :> <<When("stage", "cancel", FALSE), When("stage", "continue", TRUE),
                         Otherwise(TRUE)>>)

\* Total and fail-closed: an unknown kind, or no matching variant, asks.
deviceCommandGuard(kind, payload) ==
  IF kind = "run_at_command" THEN atCommandGuard(payload.command)
  ELSE IF kind \notin DOMAIN DEVICE_COMMAND_GUARDS THEN TRUE
  ELSE LET variants == DEVICE_COMMAND_GUARDS[kind]
           Matches(v) == \A f \in DOMAIN v.when : payload[f] = v.when[f]
       IN ~ \E i \in DOMAIN variants :
              /\ Matches(variants[i]) /\ ~variants[i].asks
              /\ \A j \in 1..(i - 1) : ~Matches(variants[j])
=============================================================================
