----------------------------- MODULE SetupData -----------------------------
(***************************************************************************)
(* handle_setupdata of fx2lib's setupdat.c, request by request, with the   *)
(* callbacks of every firmware of the repository, against a host that      *)
(* keeps its own record of halted endpoints, data toggles and of the       *)
(* configuration.  The record is kept as a host does: SET_INTERFACE and    *)
(* SET_CONFIGURATION, once accepted, end every halt and start every        *)
(* endpoint with DATA0, whatever the device does.  When handle_setupdata   *)
(* runs, and what may interrupt it, is the matter of module Firmware; here *)
(* it is one step.                                                         *)
(*                                                                         *)
(* An endpoint is named by its address: 2 is EP2 OUT, 134 (0x86) EP6 IN.   *)
(***************************************************************************)
EXTENDS Naturals

CONSTANTS
    Firmwares,   \* the sets of callbacks, one of which is linked
    Strings,     \* number of string descriptors in dev_strings
    Named(_)     \* the endpoint addresses that the requests to a firmware name

ASSUME SetupDataAssumption ==
    /\ Strings \in Nat
    /\ \A f \in Firmwares : Named(f) \subseteq 0 .. 255 /\ f.resets \subseteq f.endpoints

VARIABLES
    fw,                        \* the callbacks that are linked
    pDevConfig, pOtherConfig,  \* by the speed of the descriptor
    remote_wakeup_allowed,
    config,                    \* the variable of eeprom.c
    stall,                     \* EPxCS.STALL, by control register
    toggle,                    \* the device's data toggles
    last,                      \* the latest request and what came of it
    \* the host's record
    speed, halted, hostToggle, hostConfig, hostWakeup,
    \* history variables, which no step looks at
    stuck,                     \* registers whose halt a setting ended for the host
    astray                     \* endpoints whose toggle was last set on one side only

devVars  == <<pDevConfig, pOtherConfig, remote_wakeup_allowed, config, stall, toggle>>
hostVars == <<speed, halted, hostToggle, hostConfig, hostWakeup>>
pastVars == <<stuck, astray>>
vars == <<fw, devVars, hostVars, pastVars, last>>

Speeds == {"full", "high"}
Other(s) == CHOOSE t \in Speeds : t # s

-----------------------------------------------------------------------------
(* The callbacks of each firmware:                                         *)
(*   descriptors  types that handle_get_descriptor answers itself; with     *)
(*                "undefined" it returns no value at all;                   *)
(*   ifcs, alts   interfaces that GET_INTERFACE knows, and its answers; the *)
(*                callback that stores none leaves what is on the stack;    *)
(*   interfaces   <<ifc, alt>> that SET_INTERFACE accepts;                  *)
(*   resets       the toggles that it resets, careless: even if it refuses; *)
(*   configs      those SET_CONFIGURATION accepts, and stores if stored;    *)
(*   claims       commands handle_vendorcommand calls handled, without data;*)
(*   answers      those it answers with data.                               *)

Commands == {"SYNC_FRAME", "VC_EPSTAT", "VC_EEPROM", "GET_LINE_CODING"}
Anything == {"CLEAR_FEATURE", "SET_FEATURE"} \cup Commands
AnyAlt   == {0, 1} \X {0, 1}

Hid ==
    [endpoints |-> {2, 129}, descriptors |-> {"report"}, alts |-> {0, 1}, ifcs |-> {0, 1},
     interfaces |-> AnyAlt, resets |-> {}, careless |-> FALSE, configs |-> {0, 1}, stored |-> FALSE,
     claims |-> Anything, answers |-> {}]

BlinkyFw == [Hid EXCEPT !.endpoints = {2, 134}, !.descriptors = {},
                        !.claims = {}, !.answers = {"GET_LINE_CODING"}]

FifoSlave == [Hid EXCEPT !.endpoints = {2}, !.descriptors = {}, !.alts = {0}, !.ifcs = {0},
                         !.interfaces = {<<0, 0>>}, !.claims = {}]

Bulkloop == [FifoSlave EXCEPT !.endpoints = {2, 134}, !.resets = {2, 134},
                              !.configs = {1}, !.answers = {"VC_EPSTAT"}]

\* Mutant: VC_EPSTAT forgets to set the byte count.
DebugDeviceNoCount == [Bulkloop EXCEPT !.answers = {}, !.claims = {"VC_EPSTAT"}]

\* Command 6 of handle_vendorcommand never comes to it: 6 is GET_DESCRIPTOR.
DebugDevice == [Bulkloop EXCEPT !.descriptors = {"debug"}]

FullDuplexDevice == [Bulkloop EXCEPT !.descriptors = {"debug"}]

UsbMon == [Bulkloop EXCEPT !.careless = TRUE]

Eeprom == [FifoSlave EXCEPT !.endpoints = {}, !.ifcs = {0, 1}, !.interfaces = AnyAlt,
                            !.stored = TRUE, !.answers = {"VC_EEPROM"}]

Generic == [Hid EXCEPT !.endpoints = {2, 134}, !.descriptors = {"undefined"}, !.claims = {}]

FirstBlinky == Generic

-----------------------------------------------------------------------------
(* Registers and requests.                                                 *)

NULL == 256

\* The control register of an endpoint; only EP1 has one for each direction.
ep_addr(ep) ==
    LET num == ep % 128 IN
    IF num = 1 THEN ep ELSE IF num \in {0, 2, 4, 6, 8} THEN num ELSE NULL

Registers == {0, 1, 129, 2, 4, 6, 8}

\* The register that governs an endpoint, in the chip.
Governs(ep) == IF ep = 129 THEN ep ELSE ep % 128

\* TOGCTL takes the number in bits 3..0 and the direction in bit 4.
Togctl(ep) == (IF ep >= 128 THEN 16 ELSE 0) + (ep % 16)

\* Mutant: the direction is not moved to bit 4.
RESETTOGGLEOutOnly(t, ep) == [e \in DOMAIN t |-> IF e = ep % 16 THEN 0 ELSE t[e]]

RESETTOGGLE(t, ep) == [e \in DOMAIN t |-> IF Togctl(e) = Togctl(ep) THEN 0 ELSE t[e]]

\* type: direction and recipient of a standard request, "class_in" and
\* "class_out" for the others; val, desc, idx: SETUPDAT[2], [3], [4].
Reqs(types, reqs, vals, descs, idxs) ==
    [type : types, req : reqs, val : vals, desc : descs, idx : idxs]

Features  == {"CLEAR_FEATURE", "SET_FEATURE"}
NoRequest == [type |-> "", req |-> "", val |-> 0, desc |-> "", idx |-> 0]

Requests ==
         Reqs({"device_in"}, {"GET_STATUS", "GET_CONFIGURATION"}, {0}, {""}, {0})
    \cup Reqs({"interface_in"}, {"GET_STATUS"}, {0}, {""}, {0})
    \cup Reqs({"endpoint_in"}, {"GET_STATUS"}, {0}, {""}, Named(fw))
    \cup Reqs({"device_out"}, Features, {1, 2, 3, 6}, {""}, {0})
    \cup Reqs({"endpoint_out"}, Features, {0, 1}, {""}, Named(fw))
    \cup Reqs({"device_in"}, {"GET_DESCRIPTOR"}, {0},
             {"device", "config", "devqual", "otherspd", "report", "debug", "unknown"}, {0})
    \cup Reqs({"device_in"}, {"GET_DESCRIPTOR"}, 0 .. Strings, {"string"}, {0})
    \cup Reqs({"device_out"}, {"SET_CONFIGURATION"}, {0, 1}, {""}, {0})
    \cup Reqs({"interface_in"}, {"GET_INTERFACE"}, {0}, {""}, {0, 1})
    \cup Reqs({"interface_out"}, {"SET_INTERFACE"}, {0, 1}, {""}, {0, 1})
    \cup Reqs({"class_in"}, Features \cup {"GET_STATUS", "VC_EEPROM", "GET_LINE_CODING"}, {0}, {""}, {0})
    \cup Reqs({"class_in"}, {"VC_EPSTAT"}, Named(fw), {""}, {0})
    \cup Reqs({"class_out"}, {"GET_INTERFACE", "SYNC_FRAME"}, {0}, {""}, {0})

\* Requests with a data stage to the host.
Reads(r) == r.type \in {"device_in", "interface_in", "endpoint_in", "class_in"}

NoData == <<>>

\* What the host sees: STALL, or data and the handshake.
Reply(r, ok, data) == [req |-> r, stall |-> ~ok, data |-> data]

Init ==
    /\ fw \in Firmwares
    /\ speed = "full" /\ pDevConfig = "full" /\ pOtherConfig = "high"
    /\ remote_wakeup_allowed = FALSE /\ config = 1
    /\ stall = [p \in Registers |-> FALSE]
    /\ toggle = [e \in fw.endpoints |-> 0]
    /\ last = Reply(NoRequest, FALSE, NoData)
    /\ halted = {} /\ hostToggle = toggle
    /\ hostConfig = NULL /\ hostWakeup = FALSE
    /\ stuck = {} /\ astray = {}

-----------------------------------------------------------------------------
(* The bus.                                                                *)

\* A packet on a data endpoint that is not stalled moves both toggles on; if they
\* differ, the receiver takes it for a repetition, drops it and acknowledges it,
\* so that only the sender's moves: the host's on an OUT endpoint.
Transfer(e) ==
    LET same == toggle[e] = hostToggle[e] IN
    /\ ~stall[Governs(e)]
    /\ toggle'     = IF same \/ e >= 128 THEN [toggle EXCEPT ![e] = 1 - @] ELSE toggle
    /\ hostToggle' = IF same \/ e < 128 THEN [hostToggle EXCEPT ![e] = 1 - @] ELSE hostToggle
    /\ astray' = astray \ {e}
    /\ UNCHANGED <<fw, pDevConfig, pOtherConfig, remote_wakeup_allowed, config, stall, last,
                   speed, halted, hostConfig, hostWakeup, stuck>>

\* Mutant: the other speed points to the qualifier.
handle_hispeedQual(highspeed) ==
    /\ pDevConfig'   = IF highspeed THEN "high" ELSE "full"
    /\ pOtherConfig' = IF highspeed THEN "devqual" ELSE "high"

\* handle_hispeed, from the routines of a bus reset and of a grant of high
\* speed.  The SIE resets toggles and stall bits, and the host its record: no
\* configuration is set any more.  The wakeup feature stays as it was, on both
\* sides.
handle_hispeed(highspeed) ==
    /\ pDevConfig'   = IF highspeed THEN "high" ELSE "full"
    /\ pOtherConfig' = IF highspeed THEN "full" ELSE "high"

BusReset ==
    \E s \in Speeds :
        /\ speed' = s
        /\ handle_hispeed(s = "high")
        /\ stall' = [p \in Registers |-> FALSE]
        /\ toggle' = [e \in fw.endpoints |-> 0] /\ hostToggle' = toggle'
        /\ halted' = {} /\ hostConfig' = NULL
        /\ stuck' = {} /\ astray' = {}
        /\ UNCHANGED <<fw, remote_wakeup_allowed, config, last, hostWakeup>>

-----------------------------------------------------------------------------
(* The handlers.                                                           *)

Answers(r, reply) ==
    /\ last' = reply
    /\ UNCHANGED fw /\ UNCHANGED devVars /\ UNCHANGED hostVars /\ UNCHANGED pastVars

Stalls(r) == Answers(r, Reply(r, FALSE, NoData))

\* handle_vendorcommand, also behind CLEAR_FEATURE and SET_FEATURE.  VC_EPSTAT
\* reads the register of an endpoint and is refused where there is none.
VendorCommand(r) ==
    \/ /\ r.req \in fw.answers /\ r.req = "VC_EPSTAT" /\ ep_addr(r.val) # NULL
       /\ Answers(r, Reply(r, TRUE, <<"data", stall[ep_addr(r.val)]>>))
    \/ /\ r.req \in fw.answers /\ r.req = "VC_EPSTAT" /\ ep_addr(r.val) = NULL
       /\ Stalls(r)
    \/ /\ r.req \in fw.answers /\ r.req # "VC_EPSTAT"
       /\ Answers(r, Reply(r, TRUE, <<"data", r.req>>))
    \/ /\ r.req \in fw.claims
       /\ Answers(r, Reply(r, TRUE, NoData))
    \/ /\ r.req \notin fw.answers \cup fw.claims
       /\ Stalls(r)

Vendor(r) ==
    /\ r.req \in Commands
    /\ VendorCommand(r)

GetStatus(r) ==
    /\ r.req = "GET_STATUS"
    /\ CASE r.type = "interface_in" -> Answers(r, Reply(r, TRUE, <<"status", FALSE>>))
         [] r.type = "device_in"    -> Answers(r, Reply(r, TRUE, <<"status", remote_wakeup_allowed>>))
         [] r.type = "endpoint_in"  ->
              IF ep_addr(r.idx) = NULL THEN Stalls(r)
              ELSE Answers(r, Reply(r, TRUE, <<"status", stall[ep_addr(r.idx)]>>))
         [] OTHER -> Stalls(r)

Wakeup(r, on) == IF r.val = 1 THEN on ELSE remote_wakeup_allowed

\* The part of SET_FEATURE and CLEAR_FEATURE that is for the device: value 1
\* is remote wakeup; test mode is only set, the debug feature ignored.
DeviceFeature(r, on, accepted) ==
    /\ r.type = "device_out"
    /\ last' = Reply(r, r.val \in accepted, NoData)
    /\ remote_wakeup_allowed' = Wakeup(r, on)
    /\ hostWakeup' = IF r.val = 1 THEN on ELSE hostWakeup
    /\ UNCHANGED <<fw, pDevConfig, pOtherConfig, config, stall, toggle,
                   speed, halted, hostToggle, hostConfig>>
    /\ UNCHANGED pastVars

\* The host that hears of no STALL takes endpoint e for halted or not, and
\* starts an endpoint that is not halted any more with DATA0.  A stalled EP0
\* answers STALL itself, and the SIE clears it with the next SETUP.
EndpointFeature(r, on) ==
    LET ep == r.idx IN
    /\ stall' = [stall EXCEPT ![ep_addr(ep)] = on /\ ep_addr(ep) # 0]
    /\ toggle' = RESETTOGGLE(toggle, ep)
    /\ last' = Reply(r, ~(on /\ Governs(ep) = 0), NoData)
    /\ halted' = IF on THEN (halted \cup {Governs(ep)}) \ {0} ELSE halted \ {Governs(ep)}
    /\ hostToggle' = IF ~on /\ ep \in DOMAIN hostToggle
                     THEN [hostToggle EXCEPT ![ep] = 0] ELSE hostToggle
    /\ stuck'  = stuck \ {Governs(ep)}
    /\ astray' = IF on THEN astray ELSE astray \ {ep}
    /\ UNCHANGED <<fw, pDevConfig, pOtherConfig, remote_wakeup_allowed, config,
                   speed, hostConfig, hostWakeup>>

ClearFeature(r) ==
    /\ r.req = "CLEAR_FEATURE"
    /\ \/ DeviceFeature(r, FALSE, {1, 6})
       \/ r.type = "endpoint_out" /\ r.val = 0 /\ ep_addr(r.idx) # NULL /\ EndpointFeature(r, FALSE)
       \/ /\ r.type = "endpoint_out" /\ r.val = 0 /\ ep_addr(r.idx) = NULL
          /\ Answers(r, Reply(r, TRUE, NoData))
       \/ r.type = "endpoint_out" /\ r.val # 0 /\ Stalls(r)
       \/ r.type \notin {"device_out", "endpoint_out"} /\ VendorCommand(r)

SetFeature(r) ==
    /\ r.req = "SET_FEATURE"
    /\ \/ DeviceFeature(r, TRUE, {1, 2, 6})
       \/ r.type = "endpoint_out" /\ r.val = 0 /\ ep_addr(r.idx) # NULL /\ EndpointFeature(r, TRUE)
       \/ r.type = "endpoint_out" /\ (r.val # 0 \/ ep_addr(r.idx) = NULL) /\ Stalls(r)
       \/ r.type \notin {"device_out", "endpoint_out"} /\ VendorCommand(r)

\* Mutant: the type byte is not looked at.
IsStringNot(idx) == idx \in Nat

\* The type byte of the idx-th descriptor behind dev_strings.
IsString(idx) == idx < Strings

\* The walk through dev_strings: string 0 is taken unseen, every other one if
\* its type byte says so; behind the last there is none.
StringAt[idx \in 0 .. 255] ==
    IF idx = 0 THEN 0
    ELSE IF StringAt[idx - 1] = NULL \/ ~IsString(idx) THEN NULL ELSE idx

\* _handle_get_descriptor.
Descriptor(r) ==
    CASE r.desc = "config"   -> <<"dscr", pDevConfig>>
      [] r.desc = "otherspd" -> <<"dscr", pOtherConfig>>
      [] r.desc \in {"device", "devqual"} -> <<"dscr", r.desc>>
      [] r.desc = "string" /\ StringAt[r.val] # NULL -> <<"string", StringAt[r.val]>>
      [] OTHER -> NoData

GetDescriptor(r) ==
    /\ r.req = "GET_DESCRIPTOR"
    /\ \/ r.desc \in fw.descriptors /\ Answers(r, Reply(r, TRUE, <<"dscr", r.desc>>))
       \/ /\ r.desc \notin fw.descriptors
          /\ Answers(r, Reply(r, Descriptor(r) # NoData, Descriptor(r)))
       \/ "undefined" \in fw.descriptors /\ Answers(r, Reply(r, TRUE, NoData))

GetConfiguration(r) ==
    /\ r.req = "GET_CONFIGURATION"
    /\ Answers(r, Reply(r, TRUE, <<"config", IF fw.stored THEN config ELSE 1>>))

\* SET_INTERFACE and SET_CONFIGURATION: the device resets the toggles of resets
\* and no stall bit; the host that hears of no STALL takes every halt for ended
\* and starts every endpoint with DATA0.
Setting(accepted, resets) ==
    /\ toggle' = [e \in DOMAIN toggle |-> IF e \in resets THEN 0 ELSE toggle[e]]
    /\ IF accepted
       THEN /\ hostToggle' = [e \in fw.endpoints |-> 0]
            /\ halted' = {} /\ stuck' = stuck \cup halted
            /\ astray' = fw.endpoints \ resets
       ELSE /\ UNCHANGED <<hostToggle, halted, stuck>>
            /\ astray' = astray \cup resets
    /\ UNCHANGED <<fw, pDevConfig, pOtherConfig, remote_wakeup_allowed, stall, speed, hostWakeup>>

Stored(r) == IF fw.stored THEN r.val ELSE config

\* No callback of the repository resets a toggle here.
SetConfiguration(r) ==
    LET accepted == r.val \in fw.configs IN
    /\ r.req = "SET_CONFIGURATION"
    /\ last' = Reply(r, accepted, NoData)
    /\ config' = Stored(r)
    /\ hostConfig' = IF accepted THEN r.val ELSE hostConfig
    /\ Setting(accepted, {})

GetInterface(r) ==
    /\ r.req = "GET_INTERFACE"
    /\ IF r.idx \notin fw.ifcs THEN Stalls(r)
       ELSE \E alt_ifc \in fw.alts :
                Answers(r, Reply(r, TRUE, <<"alt", alt_ifc>>))

\* UsbMon resets the toggles before it looks at the numbers.
SetInterface(r) ==
    LET accepted == <<r.idx, r.val>> \in fw.interfaces IN
    /\ r.req = "SET_INTERFACE"
    /\ last' = Reply(r, accepted, NoData)
    /\ Setting(accepted, IF accepted \/ fw.careless THEN fw.resets ELSE {})
    /\ UNCHANGED <<config, hostConfig>>

\* handle_setupdata looks at bRequest only, whatever the type.
handle_setupdata(r) ==
    \/ GetStatus(r) \/ ClearFeature(r) \/ SetFeature(r) \/ GetDescriptor(r)
    \/ GetConfiguration(r) \/ SetConfiguration(r)
    \/ GetInterface(r) \/ SetInterface(r) \/ Vendor(r)

Next ==
    \/ \E r \in Requests : handle_setupdata(r)
    \/ \E e \in fw.endpoints : Transfer(e)
    \/ BusReset

Spec == Init /\ [][Next]_vars

-----------------------------------------------------------------------------
(* Properties.                                                             *)

TypeOK ==
    /\ fw \in Firmwares
    /\ {pDevConfig, pOtherConfig, speed} \subseteq Speeds
    /\ {remote_wakeup_allowed, hostWakeup} \subseteq BOOLEAN
    /\ config \in {0, 1} /\ hostConfig \in {0, 1, NULL}
    /\ stall \in [Registers -> BOOLEAN] /\ halted \subseteq Registers \ {0}
    /\ toggle \in [fw.endpoints -> {0, 1}] /\ hostToggle \in [fw.endpoints -> {0, 1}]
    /\ stuck \subseteq Registers \ {0} /\ astray \subseteq fw.endpoints

\* A register is stalled if and only if the host takes it for halted, but for one
\* whose halt a setting has ended for the host: no callback clears the stall bit
\* then, and the two disagree until a feature of the endpoint is set or cleared.
HaltsAgree == \A p \in Registers \ ({0} \cup stuck) : stall[p] <=> p \in halted

\* The toggles of an endpoint that is not halted agree, or a setting, the latest
\* event to touch them, has set them on one side only.
TogglesAgree ==
    \A e \in fw.endpoints : Governs(e) \notin halted /\ e \notin astray => toggle[e] = hostToggle[e]

\* An accepted SET_INTERFACE leaves all toggles agreeing where the callback
\* resets every data endpoint.
InterfaceResets ==
    last.req.req = "SET_INTERFACE" /\ ~last.stall /\ fw.resets = fw.endpoints =>
        \A e \in fw.endpoints : toggle[e] = hostToggle[e]

\* In every firmware, and whatever features, settings, packets and resets came
\* before, only an accepted setting leaves a pipe dead (stuck), and only a setting
\* that resets one side lets the next packet be taken for a repetition (astray):
\* SET_CONFIGURATION in all of them, SET_INTERFACE in those that reset no toggle,
\* and the one that resets them although it refuses (setupdat.c:100-123, 206-275).
RecordsAgree == HaltsAgree /\ TogglesAgree /\ InterfaceResets

\* The request that this step answers with data.
Told(req) == last' # last /\ last'.req.req = req /\ last'.data # NoData /\ last'.req.type # "class_out"

\* GET_STATUS tells of the halts and of the wakeup feature what the host's
\* requests have made of them; a halt that outlasted a setting is left out.
StatusTold ==
    Told("GET_STATUS") =>
        CASE last'.req.type = "interface_in" -> ~last'.data[2]
          [] last'.req.type = "device_in"    -> last'.data[2] = hostWakeup
          [] last'.req.type = "endpoint_in"  ->
               Governs(last'.req.idx) \notin stuck => last'.data[2] = (Governs(last'.req.idx) \in halted)

\* GET_DESCRIPTOR answers with the descriptor that was asked for, at the speed
\* of the bus now; a string is refused if and only if it does not exist (except
\* in FirstBlinky, whose callback returns no value).
DescriptorTold ==
    /\ Told("GET_DESCRIPTOR") =>
         LET d == last'.req.desc IN
         last'.data[2] = IF d = "config" THEN speed
                         ELSE IF d = "otherspd" THEN Other(speed)
                         ELSE IF d = "string" THEN last'.req.val ELSE d
    /\ last' # last /\ last'.req.desc = "string" /\ fw # FirstBlinky =>
         (last'.stall <=> last'.req.val >= Strings)

\* GET_CONFIGURATION tells the configuration that the host has set, if it has set
\* one since the latest reset of the bus, and if the firmware stores it or accepts
\* only one.
ConfigurationTold ==
    Told("GET_CONFIGURATION") /\ hostConfig # NULL /\ (fw.stored \/ fw.configs = {1}) =>
        last'.data[2] = hostConfig

\* What a request reads is what the requests and resets before it have made of
\* the device, not what the tables of another speed or an older state say.
AnswersTold == [][StatusTold /\ DescriptorTold /\ ConfigurationTold]_vars

\* A request for data that is not refused is answered with data, else the host
\* waits until it gives up; but in Hid, which calls every vendor request
\* handled, and FirstBlinky, whose handle_get_descriptor returns no value.
ReadAnswered == fw \notin {Hid, FirstBlinky} /\ Reads(last.req) /\ ~last.stall => last.data # NoData
=============================================================================
