-------------------------- MODULE SetupDataProofs --------------------------
(***************************************************************************)
(* Proofs about SetupData: for every number of strings and every set of    *)
(* endpoints that the requests may name, host and device agree on halts    *)
(* and toggles but for what settings leave behind, reads are answered with *)
(* data, and the data tell what the requests before them have made of the  *)
(* device.                                                                 *)
(*                                                                         *)
(* The first two parts of RecordsAgree are inductive, the third follows    *)
(* with Restored.  They rest on the arithmetic of addresses: a request     *)
(* that names an endpoint changes the register that governs it and the     *)
(* toggle that TOGCTL selects, and no other endpoint's.                    *)
(***************************************************************************)
EXTENDS SetupData, Integers, WellFoundedInduction, TLAPS

\* The firmwares of the repository.
KnownFirmwares ==
    Firmwares \subseteq {Hid, BlinkyFw, FifoSlave, Bulkloop, DebugDevice, FullDuplexDevice,
                         UsbMon, Eeprom, Generic, FirstBlinky}

\* The host knows the directions of the endpoints: it does not name the one that
\* shares its register with an endpoint of the other direction.
NamesKnown ==
    \A f \in Firmwares : \A e \in f.endpoints : \A n \in Named(f) :
        ep_addr(n) = ep_addr(e) => n = e

-----------------------------------------------------------------------------
(* Requests.                                                               *)

\* What the requests have in common.
LEMMA RequestParts ==
  ASSUME NEW r \in Requests
  PROVE  /\ r.type = "endpoint_out" => r.idx \in Named(fw)
         /\ r.req = "SET_CONFIGURATION" => r.val \in {0, 1} /\ r.type = "device_out"
         /\ r.req = "SET_INTERFACE" => r.type = "interface_out"
  BY DEF Requests, Reqs, Features, Commands

LEMMA EndpointNamed ==
  ASSUME NEW r \in Requests, r.type = "endpoint_in"
  PROVE  r.idx \in Named(fw)
  BY DEF Requests, Reqs, Features

\* An endpoint that has a register.
LEMMA AddressParts ==
  ASSUME NEW ep \in 0 .. 255, ep_addr(ep) # NULL
  PROVE  /\ ep_addr(ep) \in Registers /\ Governs(ep) = ep_addr(ep)
         /\ ep % 16 = ep % 128
<1>1. ep % 128 = IF ep < 128 THEN ep ELSE ep - 128
  OBVIOUS
<1>2. ep % 128 \in {0, 1, 2, 4, 6, 8}
  BY DEF ep_addr
<1>3. ep % 16 = ep % 128
  BY <1>2
<1>4. CASE ep % 128 = 1
  <2>1. ep = 1 \/ ep = 129
    BY <1>1, <1>4
  <2>2. QED
    BY <1>3, <1>4, <2>1 DEF ep_addr, Governs, Registers
<1>5. CASE ep % 128 # 1
  <2>1. ep # 129
    BY <1>1, <1>5
  <2>2. QED
    BY <1>2, <1>3, <1>5, <2>1 DEF ep_addr, Governs, Registers
<1>6. QED
  BY <1>4, <1>5

\* The data endpoints of the repository's firmwares.
LEMMA KnownEndpoints ==
  ASSUME KnownFirmwares, TypeOK
  PROVE  fw.endpoints \subseteq {2, 129, 134}
<1>1. Hid.endpoints = {2, 129}
  BY DEF Hid
<1>2. BlinkyFw.endpoints = {2, 134} /\ Generic.endpoints = {2, 134}
  BY DEF BlinkyFw, Generic, Hid
<1>3. FifoSlave.endpoints = {2}
  BY DEF FifoSlave, Hid
<1>4. Bulkloop.endpoints = {2, 134}
  BY DEF Bulkloop, FifoSlave, Hid
<1>5. DebugDevice.endpoints = {2, 134}
  BY DEF DebugDevice, Bulkloop, FifoSlave, Hid
<1>6. FullDuplexDevice.endpoints = {2, 134}
  BY DEF FullDuplexDevice, Bulkloop, FifoSlave, Hid
<1>7. UsbMon.endpoints = {2, 134}
  BY DEF UsbMon, Bulkloop, FifoSlave, Hid
<1>8. Eeprom.endpoints = {}
  BY DEF Eeprom, FifoSlave, Hid
<1>9. QED
  BY <1>1, <1>2, <1>3, <1>4, <1>5, <1>6, <1>7, <1>8 DEF KnownFirmwares, TypeOK, FirstBlinky

LEMMA DataEndpoints ==
  /\ ep_addr(2) = 2 /\ Governs(2) = 2 /\ Togctl(2) = 2
  /\ ep_addr(129) = 129 /\ Governs(129) = 129 /\ Togctl(129) = 17
  /\ ep_addr(134) = 6 /\ Governs(134) = 6 /\ Togctl(134) = 22
  BY DEF ep_addr, Governs, Togctl

\* TOGCTL selects no toggle of another register.
LEMMA OtherToggle ==
  ASSUME NEW n \in 0 .. 255, NEW e \in {2, 129, 134}, ep_addr(n) # NULL, ep_addr(n) # ep_addr(e)
  PROVE  Togctl(n) # Togctl(e)
<1>1. n % 16 = n % 128 /\ n % 128 \in 0 .. 127
  BY AddressParts
<1>2. CASE e = 2
  <2>1. n % 128 # 2
    BY <1>2, DataEndpoints DEF ep_addr
  <2>2. QED
    BY <1>1, <1>2, <2>1, DataEndpoints DEF Togctl
<1>3. CASE e = 134
  <2>1. n % 128 # 6
    BY <1>3, DataEndpoints DEF ep_addr
  <2>2. QED
    BY <1>1, <1>3, <2>1, DataEndpoints DEF Togctl
<1>4. CASE e = 129
  <2>1. n % 128 # 1 \/ n = 1
    BY <1>4, DataEndpoints DEF ep_addr
  <2>2. n % 16 \in 0 .. 15 /\ (n < 128 => Togctl(n) \in 0 .. 15) /\ (n % 16 # 1 => Togctl(n) # 17)
    BY DEF Togctl
  <2>3. n = 1 => Togctl(n) = 1
    BY <2>2 DEF Togctl
  <2>4. QED
    BY <1>1, <1>4, <2>1, <2>2, <2>3, DataEndpoints
<1>5. QED
  BY <1>2, <1>3, <1>4

-----------------------------------------------------------------------------
(* Types.                                                                  *)

LEMMA NamedRange == ASSUME TypeOK PROVE Named(fw) \subseteq 0 .. 255
  BY SetupDataAssumption DEF TypeOK

\* The requests that change nothing but the reply.
Quiet == UNCHANGED <<fw, devVars, hostVars, pastVars>>

LEMMA ReplyParts ==
  ASSUME NEW r, NEW ok \in BOOLEAN, NEW d, Answers(r, Reply(r, ok, d))
  PROVE  /\ Quiet
         /\ last'.req = r /\ last'.stall = ~ok /\ last'.data = d
  BY DEF Answers, Reply, Quiet

LEMMA StallParts ==
  ASSUME NEW r, Stalls(r)
  PROVE  Quiet /\ last'.req = r /\ last'.stall
<1>1. Answers(r, Reply(r, FALSE, NoData))
  BY DEF Stalls
<1>2. QED
  BY <1>1, ReplyParts

LEMMA Pairs == \A x, y : <<x, y>> # NoData
  BY DEF NoData

\* An answer that is a pair is no empty one.
LEMMA PairParts ==
  ASSUME NEW r, NEW a, NEW b, Answers(r, Reply(r, TRUE, <<a, b>>))
  PROVE  Quiet /\ last'.req = r /\ last'.data # NoData
<1>1. Quiet /\ last'.req = r /\ last'.data = <<a, b>>
  BY ReplyParts, Zenon
<1>2. QED
  BY <1>1, Pairs

LEMMA StatusParts ==
  ASSUME NEW r \in Requests, GetStatus(r)
  PROVE  Quiet /\ last'.req = r
         /\ (~last'.stall => last'.data # NoData)
<1>1. CASE r.type \notin {"device_in", "interface_in", "endpoint_in"}
  <2>1. Stalls(r)
    BY <1>1 DEF GetStatus
  <2>2. QED
    BY <2>1, StallParts
<1>2. CASE r.type = "device_in"
  <2>1. Answers(r, Reply(r, TRUE, <<"status", remote_wakeup_allowed>>))
    BY <1>2 DEF GetStatus
  <2>2. QED
    BY <2>1, PairParts
<1>3. CASE r.type = "interface_in"
  <2>1. Answers(r, Reply(r, TRUE, <<"status", FALSE>>))
    BY <1>3 DEF GetStatus
  <2>2. QED
    BY <2>1, PairParts
<1>4. CASE r.type = "endpoint_in"
  <2>1. Stalls(r) \/ Answers(r, Reply(r, TRUE, <<"status", stall[ep_addr(r.idx)]>>))
    BY <1>4 DEF GetStatus
  <2>2. CASE Stalls(r)
    BY <2>2, StallParts
  <2>3. CASE Answers(r, Reply(r, TRUE, <<"status", stall[ep_addr(r.idx)]>>))
    BY <2>3, PairParts
  <2>4. QED
    BY <2>1, <2>2, <2>3
<1>5. QED
  BY <1>1, <1>2, <1>3, <1>4

LEMMA VendorParts ==
  ASSUME NEW r, VendorCommand(r)
  PROVE  Quiet /\ last'.req = r
         /\ (fw.claims = {} /\ ~last'.stall => last'.data # NoData)
<1>1. CASE Answers(r, Reply(r, TRUE, <<"data", stall[ep_addr(r.val)]>>))
  BY <1>1, PairParts
<1>2. CASE Answers(r, Reply(r, TRUE, <<"data", r.req>>))
  BY <1>2, PairParts
<1>3. CASE r.req \in fw.claims /\ Answers(r, Reply(r, TRUE, NoData))
  BY <1>3, ReplyParts
<1>4. CASE Stalls(r)
  BY <1>4, StallParts
<1>5. QED
  BY <1>1, <1>2, <1>3, <1>4 DEF VendorCommand

LEMMA DescriptorParts ==
  ASSUME NEW r, GetDescriptor(r)
  PROVE  Quiet /\ last'.req = r
         /\ ("undefined" \notin fw.descriptors /\ ~last'.stall => last'.data # NoData)
<1>1. CASE Answers(r, Reply(r, TRUE, <<"dscr", r.desc>>))
  BY <1>1, ReplyParts, Pairs
<1>2. CASE Answers(r, Reply(r, Descriptor(r) # NoData, Descriptor(r)))
  <2>1. (Descriptor(r) # NoData) \in BOOLEAN
    OBVIOUS
  <2>2. Quiet /\ last'.req = r
        /\ last'.stall = ~(Descriptor(r) # NoData) /\ last'.data = Descriptor(r)
    BY <1>2, <2>1, ReplyParts
  <2>3. QED
    BY <2>2
<1>3. CASE "undefined" \in fw.descriptors /\ Answers(r, Reply(r, TRUE, NoData))
  BY <1>3, ReplyParts
<1>4. QED
  BY <1>1, <1>2, <1>3 DEF GetDescriptor

LEMMA InterfaceParts ==
  ASSUME NEW r, GetInterface(r)
  PROVE  Quiet /\ last'.req = r
         /\ (~last'.stall => last'.data # NoData)
<1>1. CASE \E alt_ifc \in fw.alts : Answers(r, Reply(r, TRUE, <<"alt", alt_ifc>>))
  BY <1>1, ReplyParts, Pairs
<1>2. CASE Stalls(r)
  BY <1>2, StallParts
<1>3. QED
  BY <1>1, <1>2 DEF GetInterface

LEMMA ConfigurationParts ==
  ASSUME NEW r, GetConfiguration(r)
  PROVE  Quiet /\ last'.req = r
         /\ (~last'.stall => last'.data # NoData)
  BY ReplyParts, Pairs DEF GetConfiguration

LEMMA QuietRequests ==
  ASSUME NEW r \in Requests
  PROVE  /\ GetStatus(r) \/ GetDescriptor(r) \/ GetConfiguration(r) \/ GetInterface(r)
              \/ Vendor(r) \/ VendorCommand(r) \/ Stalls(r) => Quiet
         /\ Answers(r, Reply(r, TRUE, NoData)) => Quiet
  BY StatusParts, DescriptorParts, ConfigurationParts, InterfaceParts, VendorParts, StallParts,
     ReplyParts DEF Vendor

\* The step of an endpoint's feature.
LEMMA EndpointFeatureType ==
  ASSUME TypeOK, NEW r, NEW on \in BOOLEAN, EndpointFeature(r, on), r.idx \in 0 .. 255,
         ep_addr(r.idx) # NULL
  PROVE  TypeOK'
<1>1. ep_addr(r.idx) \in Registers /\ Governs(r.idx) \in Registers
  BY AddressParts
<1>2. stall' \in [Registers -> BOOLEAN]
  BY <1>1 DEF EndpointFeature, TypeOK
<1>3. halted' \subseteq Registers \ {0}
  BY <1>1 DEF EndpointFeature, TypeOK
<1>4. toggle' \in [fw.endpoints -> {0, 1}]
  BY DEF EndpointFeature, TypeOK, RESETTOGGLE
<1>5. hostToggle' \in [fw.endpoints -> {0, 1}]
  BY DEF EndpointFeature, TypeOK
<1>6. stuck' \subseteq Registers \ {0} /\ astray' \subseteq fw.endpoints
  BY DEF EndpointFeature, TypeOK
<1>7. UNCHANGED <<fw, pDevConfig, pOtherConfig, speed, remote_wakeup_allowed, hostWakeup,
                  config, hostConfig>>
  BY DEF EndpointFeature
<1>8. QED
  BY <1>2, <1>3, <1>4, <1>5, <1>6, <1>7 DEF TypeOK

LEMMA DeviceFeatureType ==
  ASSUME TypeOK, NEW r, NEW on \in BOOLEAN, NEW accepted, DeviceFeature(r, on, accepted)
  PROVE  TypeOK'
<1>1. {remote_wakeup_allowed', hostWakeup'} \subseteq BOOLEAN
  BY DEF DeviceFeature, Wakeup, TypeOK
<1>2. UNCHANGED <<fw, pDevConfig, pOtherConfig, config, stall, toggle, speed, halted, hostToggle,
                  hostConfig, stuck, astray>>
  BY DEF DeviceFeature, pastVars
<1>3. QED
  BY <1>1, <1>2 DEF TypeOK

LEMMA SettingType ==
  ASSUME TypeOK, NEW accepted \in BOOLEAN, NEW resets \in SUBSET fw.endpoints,
         Setting(accepted, resets), config' \in {0, 1}, hostConfig' \in {0, 1, NULL}
  PROVE  TypeOK'
<1>1. toggle' \in [fw.endpoints -> {0, 1}]
  BY DEF Setting, TypeOK
<1>2. hostToggle' \in [fw.endpoints -> {0, 1}]
  BY DEF Setting, TypeOK
<1>3. halted' \subseteq Registers \ {0} /\ stuck' \subseteq Registers \ {0}
  BY DEF Setting, TypeOK
<1>4. astray' \subseteq fw.endpoints
  BY DEF Setting, TypeOK
<1>5. UNCHANGED <<fw, pDevConfig, pOtherConfig, speed, remote_wakeup_allowed, hostWakeup, stall>>
  BY DEF Setting
<1>6. QED
  BY <1>1, <1>2, <1>3, <1>4, <1>5 DEF TypeOK

\* SET_INTERFACE resets toggles of the firmware's own endpoints.
LEMMA InterfaceSetting ==
  ASSUME TypeOK, NEW r, SetInterface(r)
  PROVE  \E accepted \in BOOLEAN, resets \in SUBSET fw.endpoints :
            /\ Setting(accepted, resets)
            /\ accepted = (<<r.idx, r.val>> \in fw.interfaces)
            /\ accepted => resets = fw.resets
<1> DEFINE accepted == <<r.idx, r.val>> \in fw.interfaces
           resets == IF accepted \/ fw.careless THEN fw.resets ELSE {}
<1>1. fw.resets \subseteq fw.endpoints
  BY SetupDataAssumption DEF TypeOK
<1>2. Setting(accepted, resets)
  BY DEF SetInterface
<1>3. accepted \in BOOLEAN /\ resets \in SUBSET fw.endpoints /\ (accepted => resets = fw.resets)
  BY <1>1
<1>4. QED
  BY <1>2, <1>3

LEMMA ConfigurationSetting ==
  ASSUME NEW r, SetConfiguration(r)
  PROVE  \E accepted \in BOOLEAN, resets \in SUBSET fw.endpoints : Setting(accepted, resets)
<1>1. Setting(r.val \in fw.configs, {})
  BY DEF SetConfiguration
<1>2. (r.val \in fw.configs) \in BOOLEAN /\ {} \in SUBSET fw.endpoints
  OBVIOUS
<1>3. QED
  BY <1>1, <1>2

LEMMA QuietType == ASSUME TypeOK, Quiet PROVE TypeOK'
<1>1. UNCHANGED <<fw, pDevConfig, pOtherConfig, speed, remote_wakeup_allowed, hostWakeup,
                  config, hostConfig>>
  BY DEF Quiet, devVars, hostVars
<1>2. UNCHANGED <<stall, toggle, halted, hostToggle, stuck, astray>>
  BY DEF Quiet, devVars, hostVars, pastVars
<1>3. QED
  BY <1>1, <1>2 DEF TypeOK

LEMMA TypeOKStep == ASSUME TypeOK, [Next]_vars PROVE TypeOK'
<1>1. ASSUME NEW r \in Requests, handle_setupdata(r)
      PROVE  TypeOK'
  <2>1. CASE Quiet
    BY <2>1, QuietType
  <2>2. r.type = "endpoint_out" => r.idx \in 0 .. 255
    BY RequestParts, NamedRange
  <2>3. CASE ClearFeature(r)
    BY <2>2, <2>3, QuietRequests, QuietType, DeviceFeatureType, EndpointFeatureType
    DEF ClearFeature
  <2>4. CASE SetFeature(r)
    BY <2>2, <2>4, QuietRequests, QuietType, DeviceFeatureType, EndpointFeatureType
    DEF SetFeature
  <2>5. CASE SetConfiguration(r)
    <3>1. r.val \in {0, 1}
      BY <2>5, RequestParts DEF SetConfiguration
    <3>2. config' \in {0, 1} /\ hostConfig' \in {0, 1, NULL}
      BY <2>5, <3>1 DEF SetConfiguration, Stored, TypeOK
    <3>3. QED
      BY <2>5, <3>2, ConfigurationSetting, SettingType
  <2>6. CASE SetInterface(r)
    <3>1. config' \in {0, 1} /\ hostConfig' \in {0, 1, NULL}
      BY <2>6 DEF SetInterface, TypeOK
    <3>2. QED
      BY <2>6, <3>1, InterfaceSetting, SettingType
  <2>7. QED
    BY <1>1, <2>1, <2>3, <2>4, <2>5, <2>6, QuietRequests DEF handle_setupdata
<1>2. ASSUME NEW e \in fw.endpoints, Transfer(e)
      PROVE  TypeOK'
  <2>1. toggle' \in [fw.endpoints -> {0, 1}]
    BY <1>2 DEF Transfer, TypeOK
  <2>2. hostToggle' \in [fw.endpoints -> {0, 1}]
    BY <1>2 DEF Transfer, TypeOK
  <2>3. astray' \subseteq fw.endpoints
    BY <1>2 DEF Transfer, TypeOK
  <2>4. UNCHANGED <<fw, pDevConfig, pOtherConfig, speed, remote_wakeup_allowed, hostWakeup,
                    config, hostConfig, stall, halted, stuck>>
    BY <1>2 DEF Transfer
  <2>5. QED
    BY <2>1, <2>2, <2>3, <2>4 DEF TypeOK
<1>3. CASE BusReset
  <2>1. PICK s \in Speeds : speed' = s /\ handle_hispeed(s = "high")
    BY <1>3 DEF BusReset
  <2>2. {pDevConfig', pOtherConfig', speed'} \subseteq Speeds
    BY <2>1 DEF handle_hispeed, Speeds
  <2>3. stall' \in [Registers -> BOOLEAN]
    BY <1>3 DEF BusReset
  <2>4. toggle' \in [fw.endpoints -> {0, 1}] /\ hostToggle' = toggle'
    BY <1>3 DEF BusReset
  <2>5. /\ UNCHANGED <<fw, remote_wakeup_allowed, config, hostWakeup>>
        /\ halted' = {} /\ stuck' = {} /\ astray' = {} /\ hostConfig' = NULL
    BY <1>3 DEF BusReset
  <2>6. QED
    BY <2>2, <2>3, <2>4, <2>5 DEF TypeOK
<1>4. CASE UNCHANGED vars
  BY <1>4, QuietType DEF vars, Quiet
<1>5. QED
  BY <1>1, <1>2, <1>3, <1>4 DEF Next

LEMMA TypeOKInit == ASSUME Init PROVE TypeOK
<1>1. stall \in [Registers -> BOOLEAN] /\ {pDevConfig, pOtherConfig, speed} \subseteq Speeds
  BY DEF Init, Registers, Speeds
<1>2. QED
  BY <1>1 DEF Init, TypeOK

\* Every variable keeps its type, whatever callbacks and requests.
THEOREM TypeCorrect == Spec => []TypeOK
  BY TypeOKInit, TypeOKStep, PTL DEF Spec

-----------------------------------------------------------------------------
(* Which request a reply is to.                                            *)

\* The end of a request without data is that request's.
LEMMA EndParts ==
  ASSUME NEW r, NEW x, last' = Reply(r, x, NoData)
  PROVE  last'.req = r
  BY DEF Reply

LEMMA FeatureParts ==
  ASSUME NEW r, NEW on, NEW accepted, DeviceFeature(r, on, accepted) \/ EndpointFeature(r, on)
  PROVE  last'.req = r
  BY EndParts DEF DeviceFeature, EndpointFeature

\* The step's reply is to the step's request.
LEMMA RepliesTo ==
  ASSUME NEW r \in Requests, handle_setupdata(r)
  PROVE  last'.req = r
<1>1. CASE GetStatus(r) \/ GetConfiguration(r) \/ GetInterface(r) \/ GetDescriptor(r) \/ Vendor(r)
  BY <1>1, StatusParts, ConfigurationParts, InterfaceParts, DescriptorParts, VendorParts DEF Vendor
<1>2. CASE ClearFeature(r)
  BY <1>2, FeatureParts, ReplyParts, StallParts, VendorParts DEF ClearFeature
<1>3. CASE SetFeature(r)
  BY <1>3, FeatureParts, StallParts, VendorParts DEF SetFeature
<1>4. CASE SetConfiguration(r) \/ SetInterface(r)
  BY <1>4, EndParts DEF SetConfiguration, SetInterface
<1>5. QED
  BY <1>1, <1>2, <1>3, <1>4 DEF handle_setupdata

LEMMA NameParts ==
  ASSUME NEW r \in Requests, handle_setupdata(r)
  PROVE  /\ r.req = "GET_STATUS" => GetStatus(r)
         /\ r.req = "GET_DESCRIPTOR" => GetDescriptor(r)
         /\ r.req = "GET_CONFIGURATION" => GetConfiguration(r)
         /\ r.req = "SET_INTERFACE" => SetInterface(r)
  BY DEF handle_setupdata, GetStatus, ClearFeature, SetFeature, GetDescriptor, GetConfiguration,
     SetConfiguration, GetInterface, SetInterface, Vendor, Commands

-----------------------------------------------------------------------------
(* Halts and toggles.                                                      *)

\* Of what RecordsAgree is made: an accepted SET_INTERFACE that resets every
\* endpoint leaves nothing that TogglesAgree would not speak of.
Restored ==
    last.req.req = "SET_INTERFACE" /\ ~last.stall /\ fw.resets = fw.endpoints =>
        astray = {} /\ halted = {}

LEMMA AgreeInit == ASSUME Init PROVE HaltsAgree /\ TogglesAgree /\ Restored
<1>1. HaltsAgree /\ TogglesAgree
  BY DEF Init, HaltsAgree, TogglesAgree
<1>2. last.stall
  BY DEF Init, Reply
<1>3. QED
  BY <1>1, <1>2 DEF Restored

LEMMA QuietAgree ==
  ASSUME HaltsAgree, TogglesAgree, Quiet
  PROVE  HaltsAgree' /\ TogglesAgree'
<1>1. UNCHANGED <<fw, stall, toggle, halted, hostToggle, stuck, astray>>
  BY DEF Quiet, devVars, hostVars, pastVars
<1>2. QED
  BY <1>1 DEF HaltsAgree, TogglesAgree

\* A feature of an endpoint: halts first, then toggles.
LEMMA EndpointFeatureHalts ==
  ASSUME TypeOK, NEW r, NEW on \in BOOLEAN, EndpointFeature(r, on),
         r.idx \in 0 .. 255, ep_addr(r.idx) # NULL,
         NEW p \in Registers, p \notin stuck => (stall[p] <=> p \in halted)
  PROVE  p \notin stuck' => (stall'[p] <=> p \in halted')
<1> DEFINE reg == ep_addr(r.idx)
<1>1. reg \in Registers /\ Governs(r.idx) = reg
  BY AddressParts
<1>2. /\ stall' = [stall EXCEPT ![reg] = on /\ reg # 0]
      /\ halted' = IF on THEN (halted \cup {reg}) \ {0} ELSE halted \ {reg}
      /\ stuck' = stuck \ {reg}
  BY <1>1 DEF EndpointFeature
<1>3. stall'[p] = IF p = reg THEN on /\ reg # 0 ELSE stall[p]
  BY <1>2 DEF TypeOK
<1>4. QED
  BY <1>2, <1>3 DEF TypeOK

LEMMA EndpointFeatureAgree ==
  ASSUME KnownFirmwares, NamesKnown, TypeOK, HaltsAgree, TogglesAgree, NEW r, NEW on \in BOOLEAN,
         EndpointFeature(r, on), r.idx \in 0 .. 255, r.idx \in Named(fw),
         ep_addr(r.idx) # NULL
  PROVE  HaltsAgree' /\ TogglesAgree'
<1> DEFINE reg == ep_addr(r.idx)
<1>1. reg \in Registers /\ Governs(r.idx) = reg
  BY AddressParts
<1>2. /\ halted' = IF on THEN (halted \cup {reg}) \ {0} ELSE halted \ {reg}
      /\ astray' = IF on THEN astray ELSE astray \ {r.idx}
      /\ fw' = fw
  BY <1>1 DEF EndpointFeature
<1>3. HaltsAgree'
  BY EndpointFeatureHalts DEF HaltsAgree
<1>4. ASSUME NEW e \in fw.endpoints, Governs(e) \notin halted', e \notin astray'
      PROVE  toggle'[e] = hostToggle'[e]
  <2>1. e \in {2, 129, 134}
    BY KnownEndpoints
  <2>2. /\ toggle'[e] = IF Togctl(e) = Togctl(r.idx) THEN 0 ELSE toggle[e]
        /\ hostToggle'[e] = IF ~on /\ r.idx = e THEN 0 ELSE hostToggle[e]
    BY DEF EndpointFeature, RESETTOGGLE, TypeOK
  <2>3. Governs(e) = ep_addr(e) /\ Governs(e) # 0
    BY <2>1, DataEndpoints
  <2>4. CASE r.idx = e
    <3>1. ~on
      BY <1>2, <1>4, <2>3, <2>4
    <3>2. QED
      BY <2>2, <2>4, <3>1
  <2>5. CASE r.idx # e
    <3>1. \A n \in Named(fw) : ep_addr(n) = ep_addr(e) => n = e
      BY <1>4 DEF NamesKnown, TypeOK
    <3>2. reg # ep_addr(e)
      BY <2>5, <3>1
    <3>3. Togctl(e) # Togctl(r.idx)
      BY <2>1, <3>2, OtherToggle
    <3>4. Governs(e) \notin halted /\ e \notin astray
      BY <1>2, <1>4, <2>3, <2>5, <3>2
    <3>5. toggle[e] = hostToggle[e]
      BY <3>4 DEF TogglesAgree
    <3>6. QED
      BY <2>2, <2>5, <3>3, <3>5
  <2>6. QED
    BY <2>4, <2>5
<1>5. QED
  BY <1>2, <1>3, <1>4 DEF TogglesAgree

LEMMA DeviceFeatureAgree ==
  ASSUME HaltsAgree, TogglesAgree, NEW r, NEW on \in BOOLEAN, NEW accepted,
         DeviceFeature(r, on, accepted)
  PROVE  HaltsAgree' /\ TogglesAgree'
  BY DEF DeviceFeature, pastVars, HaltsAgree, TogglesAgree

\* A setting: the halts that it ends for the host are those that become stuck, and
\* a toggle that only one side resets goes astray.
LEMMA SettingAgree ==
  ASSUME TypeOK, HaltsAgree, TogglesAgree, NEW accepted \in BOOLEAN,
         NEW resets \in SUBSET fw.endpoints, Setting(accepted, resets)
  PROVE  HaltsAgree' /\ TogglesAgree'
<1>1. HaltsAgree'
  BY DEF Setting, HaltsAgree
<1>2. ASSUME NEW e \in fw.endpoints, Governs(e) \notin halted', e \notin astray'
      PROVE  toggle'[e] = hostToggle'[e]
  <2>1. toggle'[e] = IF e \in resets THEN 0 ELSE toggle[e]
    BY DEF Setting, TypeOK
  <2>2. CASE accepted
    <3>1. e \in resets /\ hostToggle'[e] = 0
      BY <1>2, <2>2 DEF Setting
    <3>2. QED
      BY <2>1, <3>1
  <2>3. CASE ~accepted
    <3>1. e \notin resets /\ e \notin astray /\ Governs(e) \notin halted /\ hostToggle' = hostToggle
      BY <1>2, <2>3 DEF Setting
    <3>2. QED
      BY <2>1, <3>1 DEF TogglesAgree
  <2>4. QED
    BY <2>2, <2>3
<1>3. fw' = fw
  BY DEF Setting
<1>4. QED
  BY <1>1, <1>2, <1>3 DEF TogglesAgree

LEMMA AgreeStep ==
  ASSUME KnownFirmwares, NamesKnown, TypeOK, HaltsAgree, TogglesAgree, [Next]_vars
  PROVE  HaltsAgree' /\ TogglesAgree'
<1>1. ASSUME NEW r \in Requests, handle_setupdata(r)
      PROVE  HaltsAgree' /\ TogglesAgree'
  <2>1. CASE Quiet
    BY <2>1, QuietAgree
  <2>2. r.type = "endpoint_out" => r.idx \in 0 .. 255 /\ r.idx \in Named(fw)
    BY RequestParts, NamedRange
  <2>3. CASE ClearFeature(r)
    BY <2>2, <2>3, QuietRequests, QuietAgree, DeviceFeatureAgree, EndpointFeatureAgree
    DEF ClearFeature
  <2>4. CASE SetFeature(r)
    BY <2>2, <2>4, QuietRequests, QuietAgree, DeviceFeatureAgree, EndpointFeatureAgree
    DEF SetFeature
  <2>5. CASE SetConfiguration(r)
    BY <2>5, ConfigurationSetting, SettingAgree
  <2>6. CASE SetInterface(r)
    BY <2>6, InterfaceSetting, SettingAgree
  <2>7. QED
    BY <1>1, <2>1, <2>3, <2>4, <2>5, <2>6, QuietRequests DEF handle_setupdata
<1>2. ASSUME NEW e \in fw.endpoints, Transfer(e)
      PROVE  HaltsAgree' /\ TogglesAgree'
  <2>1. UNCHANGED <<fw, stall, halted, stuck>> /\ astray' = astray \ {e}
    BY <1>2 DEF Transfer
  <2>2. ASSUME NEW d \in fw.endpoints, Governs(d) \notin halted, d \notin astray \ {e}
        PROVE  toggle'[d] = hostToggle'[d]
    <3>1. CASE d = e
      <4>1. toggle[e] \in {0, 1} /\ hostToggle[e] \in {0, 1}
        BY DEF TypeOK
      <4>2. e \in Nat
        BY KnownEndpoints
      <4>3. /\ toggle'[e] = IF toggle[e] = hostToggle[e] \/ e >= 128 THEN 1 - toggle[e] ELSE toggle[e]
            /\ hostToggle'[e] = IF toggle[e] = hostToggle[e] \/ e < 128
                                THEN 1 - hostToggle[e] ELSE hostToggle[e]
        BY <1>2 DEF Transfer, TypeOK
      <4>4. QED
        BY <3>1, <4>1, <4>2, <4>3
    <3>2. CASE d # e
      <4>1. toggle[d] = hostToggle[d]
        BY <2>2, <3>2 DEF TogglesAgree
      <4>2. toggle'[d] = toggle[d] /\ hostToggle'[d] = hostToggle[d]
        BY <1>2, <3>2 DEF Transfer, TypeOK
      <4>3. QED
        BY <4>1, <4>2
    <3>3. QED
      BY <3>1, <3>2
  <2>3. QED
    BY <2>1, <2>2 DEF HaltsAgree, TogglesAgree
<1>3. CASE BusReset
  BY <1>3 DEF BusReset, HaltsAgree, TogglesAgree
<1>4. CASE UNCHANGED vars
  BY <1>4, QuietAgree DEF vars, Quiet
<1>5. QED
  BY <1>1, <1>2, <1>3, <1>4 DEF Next

LEMMA RestoredStep == ASSUME TypeOK, Restored, [Next]_vars PROVE Restored'
<1>1. ASSUME NEW r \in Requests, handle_setupdata(r)
      PROVE  Restored'
  <2>1. last'.req = r
    BY <1>1, RepliesTo
  <2>2. CASE r.req # "SET_INTERFACE"
    BY <2>1, <2>2 DEF Restored
  <2>3. CASE r.req = "SET_INTERFACE"
    <3>1. SetInterface(r)
      BY <1>1, <2>3, NameParts
    <3>2. last'.stall = ~(<<r.idx, r.val>> \in fw.interfaces)
      BY <3>1 DEF SetInterface, Reply
    <3>3. ASSUME ~last'.stall, fw'.resets = fw'.endpoints
          PROVE  astray' = {} /\ halted' = {}
      <4>1. PICK resets \in SUBSET fw.endpoints : Setting(TRUE, resets) /\ resets = fw.resets
        BY <3>1, <3>2, <3>3, InterfaceSetting
      <4>2. fw' = fw /\ halted' = {} /\ astray' = fw.endpoints \ resets
        BY <4>1 DEF Setting
      <4>3. QED
        BY <3>3, <4>1, <4>2
    <3>4. QED
      BY <3>3 DEF Restored
  <2>4. QED
    BY <2>2, <2>3
<1>2. ASSUME NEW e \in fw.endpoints, Transfer(e)
      PROVE  Restored'
  BY <1>2 DEF Transfer, Restored
<1>3. CASE BusReset
  BY <1>3 DEF BusReset, Restored
<1>4. CASE UNCHANGED vars
  BY <1>4 DEF vars, hostVars, pastVars, Restored
<1>5. QED
  BY <1>1, <1>2, <1>3, <1>4 DEF Next

LEMMA AgreeParts == ASSUME HaltsAgree, TogglesAgree, Restored PROVE RecordsAgree
  BY DEF RecordsAgree, InterfaceResets, TogglesAgree, Restored

\* In the repository's firmwares, whatever sequence of features, settings, packets
\* and resets came before, and whatever endpoints are named by a host that knows
\* their directions: a halt outlasts its end only by a setting, a toggle goes
\* astray only by a setting that resets one side, and SET_INTERFACE leaves none
\* astray where the callback resets every endpoint (setupdat.c:100-123, 206-275).
THEOREM Agreement == ASSUME KnownFirmwares, NamesKnown PROVE Spec => []RecordsAgree
<1>1. TypeOK /\ HaltsAgree /\ TogglesAgree /\ [Next]_vars => HaltsAgree' /\ TogglesAgree'
  BY AgreeStep
<1>2. TypeOK /\ Restored /\ [Next]_vars => Restored'
  BY RestoredStep
<1>3. HaltsAgree /\ TogglesAgree /\ Restored => RecordsAgree
  BY AgreeParts
<1>4. Init => HaltsAgree /\ TogglesAgree /\ Restored
  BY AgreeInit
<1>5. QED
  BY TypeCorrect, <1>1, <1>2, <1>3, <1>4, PTL DEF Spec

-----------------------------------------------------------------------------
(* Answers.                                                                *)

\* The firmwares for which ReadAnswered is stated.
LEMMA AnsweringFirmwares ==
  ASSUME KnownFirmwares, TypeOK, fw \notin {Hid, FirstBlinky}
  PROVE  fw.claims = {} /\ "undefined" \notin fw.descriptors
<1>1. BlinkyFw.claims = {}
  BY DEF BlinkyFw, Hid
<1>2. "undefined" \notin BlinkyFw.descriptors
  BY DEF BlinkyFw, Hid
<1>3. FifoSlave.claims = {}
  BY DEF FifoSlave, Hid
<1>4. "undefined" \notin FifoSlave.descriptors
  BY DEF FifoSlave, Hid
<1>5. Bulkloop.claims = {}
  BY DEF Bulkloop, FifoSlave, Hid
<1>6. "undefined" \notin Bulkloop.descriptors
  BY DEF Bulkloop, FifoSlave, Hid
<1>7. DebugDevice.claims = {}
  BY DEF DebugDevice, Bulkloop, FifoSlave, Hid
<1>8. "undefined" \notin DebugDevice.descriptors
  BY DEF DebugDevice, Bulkloop, FifoSlave, Hid
<1>9. FullDuplexDevice.claims = {}
  BY DEF FullDuplexDevice, Bulkloop, FifoSlave, Hid
<1>10. "undefined" \notin FullDuplexDevice.descriptors
  BY DEF FullDuplexDevice, Bulkloop, FifoSlave, Hid
<1>11. UsbMon.claims = {}
  BY DEF UsbMon, Bulkloop, FifoSlave, Hid
<1>12. "undefined" \notin UsbMon.descriptors
  BY DEF UsbMon, Bulkloop, FifoSlave, Hid
<1>13. Eeprom.claims = {}
  BY DEF Eeprom, FifoSlave, Hid
<1>14. "undefined" \notin Eeprom.descriptors
  BY DEF Eeprom, FifoSlave, Hid
<1>15. fw \in {BlinkyFw, FifoSlave, Bulkloop, DebugDevice, FullDuplexDevice, UsbMon, Eeprom}
  BY DEF KnownFirmwares, TypeOK, FirstBlinky
<1>16. QED
  BY <1>1, <1>2, <1>3, <1>4, <1>5, <1>6, <1>7, <1>8, <1>9, <1>10, <1>11, <1>12, <1>13, <1>14, <1>15

LEMMA KeepsFirmware == ASSUME [Next]_vars PROVE fw' = fw
<1>1. ASSUME NEW r \in Requests, handle_setupdata(r)
      PROVE  fw' = fw
  <2>1. CASE Quiet
    BY <2>1 DEF Quiet
  <2>2. CASE ClearFeature(r)
    BY <2>1, <2>2, QuietRequests DEF ClearFeature, DeviceFeature, EndpointFeature
  <2>3. CASE SetFeature(r)
    BY <2>1, <2>3, QuietRequests DEF SetFeature, DeviceFeature, EndpointFeature
  <2>4. CASE SetConfiguration(r)
    BY <2>4 DEF SetConfiguration, Setting
  <2>5. CASE SetInterface(r)
    BY <2>5 DEF SetInterface, Setting
  <2>6. QED
    BY <1>1, <2>1, <2>2, <2>3, <2>4, <2>5, QuietRequests DEF handle_setupdata
<1>2. CASE \E e \in fw.endpoints : Transfer(e)
  BY <1>2 DEF Transfer
<1>3. CASE BusReset
  BY <1>3 DEF BusReset
<1>4. QED
  BY <1>1, <1>2, <1>3 DEF Next, vars

LEMMA AnsweredStep ==
  ASSUME KnownFirmwares, TypeOK, ReadAnswered, [Next]_vars
  PROVE  ReadAnswered'
<1>1. fw' = fw
  BY KeepsFirmware
<1>2. SUFFICES ASSUME fw \notin {Hid, FirstBlinky}
               PROVE  Reads(last'.req) /\ ~last'.stall => last'.data # NoData
  BY <1>1 DEF ReadAnswered
<1>3. fw.claims = {} /\ "undefined" \notin fw.descriptors
  BY <1>2, AnsweringFirmwares
<1>4. ASSUME NEW r \in Requests, handle_setupdata(r)
      PROVE  Reads(last'.req) /\ ~last'.stall => last'.data # NoData
  <2>1. CASE GetStatus(r) \/ GetConfiguration(r) \/ GetInterface(r)
    BY <2>1, StatusParts, ConfigurationParts, InterfaceParts
  <2>2. CASE VendorCommand(r)
    BY <1>3, <2>2, VendorParts
  <2>3. CASE r.type \in {"device_out", "endpoint_out", "interface_out"} /\ last'.req = r
    BY <2>3 DEF Reads
  <2>4. CASE Stalls(r)
    BY <2>4, StallParts
  <2>5. CASE ClearFeature(r)
    <3>1. CASE r.type = "endpoint_out" /\ Answers(r, Reply(r, TRUE, NoData))
      BY <2>3, <3>1, ReplyParts
    <3>2. CASE DeviceFeature(r, FALSE, {1, 6})
      BY <2>3, <3>2, FeatureParts DEF DeviceFeature
    <3>3. CASE r.type = "endpoint_out" /\ EndpointFeature(r, FALSE)
      BY <2>3, <3>3, FeatureParts
    <3>4. QED
      BY <2>2, <2>4, <2>5, <3>1, <3>2, <3>3 DEF ClearFeature
  <2>6. CASE SetFeature(r)
    <3>1. CASE DeviceFeature(r, TRUE, {1, 2, 6})
      BY <2>3, <3>1, FeatureParts DEF DeviceFeature
    <3>2. CASE r.type = "endpoint_out" /\ EndpointFeature(r, TRUE)
      BY <2>3, <3>2, FeatureParts
    <3>3. QED
      BY <2>2, <2>4, <2>6, <3>1, <3>2 DEF SetFeature
  <2>7. CASE GetDescriptor(r)
    BY <1>3, <2>7, DescriptorParts
  <2>8. CASE SetConfiguration(r)
    BY <2>3, <2>8, RequestParts, EndParts DEF SetConfiguration
  <2>9. CASE SetInterface(r)
    BY <2>3, <2>9, RequestParts, EndParts DEF SetInterface
  <2>10. QED
    BY <1>4, <2>1, <2>2, <2>5, <2>6, <2>7, <2>8, <2>9 DEF handle_setupdata, Vendor
<1>5. CASE UNCHANGED last
  BY <1>2, <1>5 DEF ReadAnswered
<1>6. QED
  BY <1>4, <1>5 DEF Next, Transfer, BusReset, vars

\* A read that is not refused is answered with data, in all firmwares but the two
\* that ReadAnswered names.
THEOREM Answered == ASSUME KnownFirmwares PROVE Spec => []ReadAnswered
<1>1. Init => ReadAnswered
  <2>1. ASSUME last = Reply(NoRequest, FALSE, NoData)
        PROVE  last.stall
    BY <2>1 DEF Reply
  <2>2. QED
    BY <2>1 DEF Init, ReadAnswered
<1>2. TypeOK /\ ReadAnswered /\ [Next]_vars => ReadAnswered'
  BY AnsweredStep
<1>3. QED
  BY TypeCorrect, <1>1, <1>2, PTL DEF Spec

-----------------------------------------------------------------------------
(* What the answers tell.                                                  *)

\* Every firmware has string 0, and the number of a string is a byte.
StringsFit == Strings \in 1 .. 255

LEMMA NatSets ==
  ASSUME NEW S, 0 \in S, \A n \in Nat : n \in S => n + 1 \in S
  PROVE  Nat \subseteq S
<1> DEFINE T == {n \in Nat : n \notin S}
<1>1. SUFFICES ASSUME T # {} PROVE FALSE
  OBVIOUS
<1>2. PICK x \in T : \A y \in T : ~(<<y, x>> \in OpToRel(<, Nat))
  BY <1>1, NatLessThanWellFounded, WFMin, T \subseteq Nat
<1>3. x \in Nat /\ x # 0 /\ x - 1 \in Nat /\ x - 1 < x
  OBVIOUS
<1>4. x - 1 \notin T
  BY <1>2, <1>3 DEF OpToRel
<1>5. QED
  BY <1>3, <1>4

\* What the walk finds in one step, and what it finds in the end.
Walk(g) ==
    g = [idx \in 0 .. 255 |->
            IF idx = 0 THEN 0 ELSE IF g[idx - 1] = NULL \/ ~IsString(idx) THEN NULL ELSE idx]

Found == [idx \in 0 .. 255 |-> IF idx < Strings THEN idx ELSE NULL]

LEMMA WalkChosen == StringAt = CHOOSE g : Walk(g)
  BY Zenon DEF StringAt, Walk

LEMMA FoundWalks == ASSUME StringsFit PROVE Walk(Found)
<1>1. ASSUME NEW idx \in 0 .. 255
      PROVE  Found[idx] = IF idx = 0 THEN 0
                          ELSE IF Found[idx - 1] = NULL \/ ~IsString(idx) THEN NULL ELSE idx
  <2>1. CASE idx = 0
    BY <2>1 DEF StringsFit, Found
  <2>2. CASE idx # 0
    <3>1. idx - 1 \in 0 .. 255 /\ idx - 1 # 256
      BY <2>2
    <3>2. Found[idx - 1] = IF idx - 1 < Strings THEN idx - 1 ELSE NULL
      BY <3>1 DEF Found
    <3>3. Found[idx - 1] = NULL => ~(idx < Strings)
      BY <3>1, <3>2 DEF StringsFit, NULL
    <3>4. QED
      BY <2>2, <3>3 DEF Found, IsString
  <2>3. QED
    BY <2>1, <2>2
<1>2. QED
  BY <1>1 DEF Walk, Found

\* A walk from string 0 finds the strings that exist.
LEMMA StringsFound ==
  ASSUME StringsFit, NEW i \in 0 .. 255
  PROVE  StringAt[i] = IF i < Strings THEN i ELSE NULL
<1>1. Walk(StringAt)
  BY WalkChosen, FoundWalks
<1> DEFINE S == {n \in Nat : n \in 0 .. 255 => StringAt[n] = Found[n]}
<1>2. 0 \in S
  BY <1>1, FoundWalks DEF Walk
<1>3. ASSUME NEW n \in Nat, n \in S PROVE n + 1 \in S
  <2>1. SUFFICES ASSUME n + 1 \in 0 .. 255 PROVE StringAt[n + 1] = Found[n + 1]
    OBVIOUS
  <2>2. n \in 0 .. 255 /\ (n + 1) - 1 = n /\ n + 1 # 0
    BY <2>1
  <2>3. StringAt[n] = Found[n]
    BY <1>3, <2>2
  <2>4. StringAt[n + 1] = IF StringAt[n] = NULL \/ ~IsString(n + 1) THEN NULL ELSE n + 1
    BY <1>1, <2>1, <2>2 DEF Walk
  <2>5. Found[n + 1] = IF Found[n] = NULL \/ ~IsString(n + 1) THEN NULL ELSE n + 1
    BY <2>1, <2>2, FoundWalks DEF Walk
  <2>6. QED
    BY <2>3, <2>4, <2>5
<1> HIDE DEF S
<1>4. i \in S
  BY <1>2, <1>3, NatSets
<1>5. StringAt[i] = Found[i]
  BY <1>4 DEF S
<1>6. QED
  BY <1>5 DEF Found

\* The device's books and the host's: speed, wakeup, halts and configuration.
Books ==
    /\ pDevConfig = speed /\ pOtherConfig = Other(speed)
    /\ remote_wakeup_allowed = hostWakeup
    /\ \A p \in Registers \ stuck : stall[p] <=> p \in halted
    /\ hostConfig # NULL /\ (fw.stored \/ fw.configs = {1}) =>
         hostConfig = IF fw.stored THEN config ELSE 1

LEMMA OtherSpeed == Other("full") = "high" /\ Other("high") = "full"
  BY DEF Other, Speeds

LEMMA BooksInit == ASSUME Init PROVE Books
  BY OtherSpeed DEF Init, Books

LEMMA QuietBooks == ASSUME Books, Quiet PROVE Books'
  BY DEF Quiet, devVars, hostVars, pastVars, Books

LEMMA EndpointFeatureBooks ==
  ASSUME TypeOK, Books, NEW r, NEW on \in BOOLEAN, EndpointFeature(r, on),
         r.idx \in 0 .. 255, ep_addr(r.idx) # NULL
  PROVE  Books'
<1>1. \A p \in Registers \ stuck' : stall'[p] <=> p \in halted'
  BY EndpointFeatureHalts DEF Books
<1>2. QED
  BY <1>1 DEF EndpointFeature, Books

LEMMA DeviceFeatureBooks ==
  ASSUME Books, NEW r, NEW on \in BOOLEAN, NEW accepted, DeviceFeature(r, on, accepted)
  PROVE  Books'
  BY DEF DeviceFeature, pastVars, Wakeup, Books

LEMMA SettingBooks ==
  ASSUME Books, NEW accepted \in BOOLEAN, NEW resets, Setting(accepted, resets)
  PROVE  /\ pDevConfig' = speed' /\ pOtherConfig' = Other(speed')
         /\ remote_wakeup_allowed' = hostWakeup'
         /\ \A p \in Registers \ stuck' : stall'[p] <=> p \in halted'
         /\ fw' = fw
<1>1. \A p \in Registers \ stuck' : stall'[p] <=> p \in halted'
  BY DEF Setting, Books
<1>2. UNCHANGED <<fw, pDevConfig, pOtherConfig, speed, remote_wakeup_allowed, hostWakeup>>
  BY DEF Setting
<1>3. QED
  BY <1>1, <1>2 DEF Books

\* A firmware that stores the configuration accepts both.
LEMMA StoringFirmwares ==
  ASSUME KnownFirmwares, TypeOK, fw.stored
  PROVE  fw.configs = {0, 1}
<1>1. ~Hid.stored /\ ~BlinkyFw.stored
  BY DEF BlinkyFw, Hid
<1>2. ~FifoSlave.stored
  BY DEF FifoSlave, Hid
<1>3. ~Bulkloop.stored
  BY DEF Bulkloop, FifoSlave, Hid
<1>4. ~DebugDevice.stored
  BY DEF DebugDevice, Bulkloop, FifoSlave, Hid
<1>5. ~FullDuplexDevice.stored
  BY DEF FullDuplexDevice, Bulkloop, FifoSlave, Hid
<1>6. ~UsbMon.stored
  BY DEF UsbMon, Bulkloop, FifoSlave, Hid
<1>7. ~Generic.stored
  BY DEF Generic, Hid
<1>8. Eeprom.configs = {0, 1}
  BY DEF Eeprom, FifoSlave, Hid
<1>9. QED
  BY <1>1, <1>2, <1>3, <1>4, <1>5, <1>6, <1>7, <1>8 DEF KnownFirmwares, TypeOK, FirstBlinky

LEMMA BooksStep == ASSUME KnownFirmwares, TypeOK, Books, [Next]_vars PROVE Books'
<1>1. ASSUME NEW r \in Requests, handle_setupdata(r)
      PROVE  Books'
  <2>1. CASE Quiet
    BY <2>1, QuietBooks
  <2>2. r.type = "endpoint_out" => r.idx \in 0 .. 255
    BY RequestParts, NamedRange
  <2>3. CASE ClearFeature(r)
    BY <2>2, <2>3, QuietRequests, QuietBooks, DeviceFeatureBooks, EndpointFeatureBooks
    DEF ClearFeature
  <2>4. CASE SetFeature(r)
    BY <2>2, <2>4, QuietRequests, QuietBooks, DeviceFeatureBooks, EndpointFeatureBooks
    DEF SetFeature
  <2>5. CASE SetConfiguration(r)
    <3>1. r.val \in {0, 1}
      BY <2>5, RequestParts DEF SetConfiguration
    <3>2. \E accepted \in BOOLEAN, resets \in SUBSET fw.endpoints : Setting(accepted, resets)
      BY <2>5, ConfigurationSetting
    <3>3. ASSUME fw.stored PROVE hostConfig' = config'
      <4>1. r.val \in fw.configs
        BY <3>1, <3>3, StoringFirmwares
      <4>2. QED
        BY <2>5, <3>3, <4>1 DEF SetConfiguration, Stored
    <3>4. ASSUME ~fw.stored, fw.configs = {1}, hostConfig' # NULL PROVE hostConfig' = 1
      BY <2>5, <3>4 DEF SetConfiguration, Books
    <3>5. QED
      BY <3>2, <3>3, <3>4, SettingBooks DEF Books
  <2>6. CASE SetInterface(r)
    <3>1. UNCHANGED <<config, hostConfig>>
      BY <2>6 DEF SetInterface
    <3>2. QED
      BY <2>6, <3>1, InterfaceSetting, SettingBooks DEF Books
  <2>7. QED
    BY <1>1, <2>1, <2>3, <2>4, <2>5, <2>6, QuietRequests DEF handle_setupdata
<1>2. ASSUME NEW e \in fw.endpoints, Transfer(e)
      PROVE  Books'
  BY <1>2 DEF Transfer, Books
<1>3. CASE BusReset
  <2>1. PICK s \in Speeds :
          /\ speed' = s /\ handle_hispeed(s = "high")
          /\ stall' = [p \in Registers |-> FALSE]
          /\ halted' = {} /\ hostConfig' = NULL
          /\ UNCHANGED <<remote_wakeup_allowed, hostWakeup>>
    BY <1>3 DEF BusReset
  <2>2. pDevConfig' = s /\ pOtherConfig' = Other(s)
    BY <2>1, OtherSpeed DEF handle_hispeed, Speeds
  <2>3. QED
    BY <2>1, <2>2 DEF Books
<1>4. CASE UNCHANGED vars
  BY <1>4, QuietBooks DEF vars, Quiet
<1>5. QED
  BY <1>1, <1>2, <1>3, <1>4 DEF Next

\* The request that is answered is the one that the handler was called for.
LEMMA Asked ==
  ASSUME [Next]_vars, last' # last
  PROVE  \E r \in Requests : handle_setupdata(r) /\ last'.req = r
  BY RepliesTo DEF Next, Transfer, BusReset, vars

LEMMA StatusTrue ==
  ASSUME TypeOK, Books, NEW r \in Requests, GetStatus(r), last'.req = r, last'.data # NoData
  PROVE  StatusTold
<1>1. CASE r.type \notin {"device_in", "interface_in", "endpoint_in"}
  <2>1. Answers(r, Reply(r, FALSE, NoData))
    BY <1>1 DEF GetStatus, Stalls
  <2>2. last'.data = NoData
    BY <2>1 DEF Answers, Reply
  <2>3. QED
    BY <2>2
<1>2. CASE r.type = "device_in"
  <2>1. Answers(r, Reply(r, TRUE, <<"status", remote_wakeup_allowed>>))
    BY <1>2 DEF GetStatus
  <2>2. last'.data[2] = hostWakeup
    <3>1. last'.data = <<"status", remote_wakeup_allowed>>
      BY <2>1, ReplyParts, Zenon
    <3>2. QED
      BY <3>1 DEF Books
  <2>3. QED
    BY <1>2, <2>2 DEF StatusTold
<1>3. CASE r.type = "interface_in"
  <2>1. Answers(r, Reply(r, TRUE, <<"status", FALSE>>))
    BY <1>3 DEF GetStatus
  <2>2. last'.data[2] = FALSE
    <3>1. last'.data = <<"status", FALSE>>
      BY <2>1, ReplyParts, Zenon
    <3>2. QED
      BY <3>1
  <2>3. QED
    BY <1>3, <2>2 DEF StatusTold
<1>4. CASE r.type = "endpoint_in"
  <2>1. r.idx \in 0 .. 255
    BY <1>4, EndpointNamed, NamedRange
  <2>2. CASE ep_addr(r.idx) = NULL
    <3>1. Answers(r, Reply(r, FALSE, NoData))
      BY <1>4, <2>2 DEF GetStatus, Stalls
    <3>2. last'.data = NoData
      BY <3>1 DEF Answers, Reply
    <3>3. QED
      BY <3>2
  <2>3. CASE ep_addr(r.idx) # NULL
    <3>1. Answers(r, Reply(r, TRUE, <<"status", stall[ep_addr(r.idx)]>>))
      BY <1>4, <2>3 DEF GetStatus
    <3>2. ep_addr(r.idx) \in Registers /\ Governs(r.idx) = ep_addr(r.idx)
      BY <2>1, <2>3, AddressParts
    <3>3. SUFFICES ASSUME Governs(r.idx) \notin stuck
                   PROVE  last'.data[2] = (Governs(r.idx) \in halted)
      BY <1>4 DEF StatusTold
    <3>4. stall[ep_addr(r.idx)] = (Governs(r.idx) \in halted)
      BY <3>2, <3>3 DEF Books, TypeOK
    <3>5. last'.data = <<"status", stall[ep_addr(r.idx)]>>
      BY <3>1, ReplyParts, Zenon
    <3>6. QED
      BY <3>4, <3>5
  <2>4. QED
    BY <2>2, <2>3
<1>5. QED
  BY <1>1, <1>2, <1>3, <1>4

\* The types that a firmware answers itself are not those of the library.
LEMMA OwnDescriptors ==
  ASSUME KnownFirmwares, TypeOK
  PROVE  /\ fw.descriptors \subseteq {"report", "debug", "undefined"}
         /\ "undefined" \in fw.descriptors => fw = FirstBlinky
<1>1. Hid.descriptors = {"report"} /\ BlinkyFw.descriptors = {}
  BY DEF BlinkyFw, Hid
<1>2. FifoSlave.descriptors = {}
  BY DEF FifoSlave, Hid
<1>3. Bulkloop.descriptors = {}
  BY DEF Bulkloop, FifoSlave, Hid
<1>4. DebugDevice.descriptors = {"debug"}
  BY DEF DebugDevice, Bulkloop, FifoSlave, Hid
<1>5. FullDuplexDevice.descriptors = {"debug"}
  BY DEF FullDuplexDevice, Bulkloop, FifoSlave, Hid
<1>6. UsbMon.descriptors = {}
  BY DEF UsbMon, Bulkloop, FifoSlave, Hid
<1>7. Eeprom.descriptors = {}
  BY DEF Eeprom, FifoSlave, Hid
<1>8. Generic.descriptors = {"undefined"}
  BY DEF Generic, Hid
<1>9. QED
  BY <1>1, <1>2, <1>3, <1>4, <1>5, <1>6, <1>7, <1>8 DEF KnownFirmwares, TypeOK, FirstBlinky

LEMMA DescriptorNames ==
  ASSUME NEW r \in Requests, r.req = "GET_DESCRIPTOR"
  PROVE  /\ r.desc \in {"device", "config", "devqual", "otherspd", "report", "debug", "unknown", "string"}
         /\ r.val \in 0 .. Strings
<1>1. /\ r.desc \in {"device", "config", "devqual", "otherspd", "report", "debug", "unknown", "string"}
      /\ r.val = 0 \/ r.val \in 0 .. Strings
  BY DEF Requests, Reqs, Features
<1>2. 0 \in 0 .. Strings
  BY SetupDataAssumption
<1>3. QED
  BY <1>1, <1>2

LEMMA StringRequests ==
  ASSUME NEW r \in Requests, r.desc = "string"
  PROVE  r.req = "GET_DESCRIPTOR"
  BY DEF Requests, Reqs

\* What the library finds in its tables.
LEMMA DescriptorFound ==
  ASSUME StringsFit, Books, NEW r \in Requests, r.req = "GET_DESCRIPTOR"
  PROVE  /\ Descriptor(r) # NoData =>
              Descriptor(r)[2] = IF r.desc = "config" THEN speed
                                 ELSE IF r.desc = "otherspd" THEN Other(speed)
                                 ELSE IF r.desc = "string" THEN r.val ELSE r.desc
         /\ r.desc = "string" => (Descriptor(r) = NoData <=> r.val >= Strings)
<1>1. r.val \in 0 .. 255 /\ r.val \in Nat /\ Strings \in Nat
  BY DescriptorNames DEF StringsFit
<1>2. CASE r.desc = "config"
  <2>1. Descriptor(r) = <<"dscr", speed>>
    BY <1>2 DEF Descriptor, Books
  <2>2. QED
    BY <1>2, <2>1
<1>3. CASE r.desc = "otherspd"
  <2>1. Descriptor(r) = <<"dscr", Other(speed)>>
    BY <1>3 DEF Descriptor, Books
  <2>2. QED
    BY <1>3, <2>1
<1>4. CASE r.desc \in {"device", "devqual"}
  <2>1. Descriptor(r) = <<"dscr", r.desc>>
    BY <1>4 DEF Descriptor
  <2>2. QED
    BY <1>4, <2>1
<1>5. CASE r.desc \in {"report", "debug", "unknown"}
  <2>1. Descriptor(r) = NoData
    BY <1>5 DEF Descriptor
  <2>2. QED
    BY <1>5, <2>1
<1>6. CASE r.desc = "string"
  <2>1. StringAt[r.val] = IF r.val < Strings THEN r.val ELSE NULL
    BY <1>1, StringsFound
  <2>2. r.val # NULL
    BY <1>1 DEF NULL
  <2>3. CASE r.val < Strings
    <3>1. Descriptor(r) = <<"string", r.val>>
      BY <1>6, <2>1, <2>2, <2>3 DEF Descriptor
    <3>2. QED
      BY <1>1, <1>6, <2>3, <3>1, Pairs
  <2>4. CASE ~(r.val < Strings)
    <3>1. Descriptor(r) = NoData
      BY <1>6, <2>1, <2>4 DEF Descriptor
    <3>2. QED
      BY <1>1, <1>6, <2>4, <3>1
  <2>5. QED
    BY <2>3, <2>4
<1>7. QED
  BY <1>2, <1>3, <1>4, <1>5, <1>6, DescriptorNames

LEMMA DescriptorTrue ==
  ASSUME KnownFirmwares, StringsFit, TypeOK, Books, NEW r \in Requests, GetDescriptor(r), last'.req = r,
         fw' = fw
  PROVE  DescriptorTold
<1>1. r.req = "GET_DESCRIPTOR"
  BY DEF GetDescriptor
<1> DEFINE Right(x) == x = IF r.desc = "config" THEN speed
                           ELSE IF r.desc = "otherspd" THEN Other(speed)
                           ELSE IF r.desc = "string" THEN r.val ELSE r.desc
<1>2. SUFFICES /\ last'.data # NoData => Right(last'.data[2])
               /\ r.desc = "string" /\ fw # FirstBlinky => (last'.stall <=> r.val >= Strings)
  BY DEF DescriptorTold, Told
<1>3. CASE r.desc \in fw.descriptors /\ Answers(r, Reply(r, TRUE, <<"dscr", r.desc>>))
  <2>1. last'.data = <<"dscr", r.desc>>
    BY <1>3, ReplyParts
  <2>2. r.desc \in {"report", "debug", "undefined"}
    BY <1>3, OwnDescriptors
  <2>3. QED
    BY <2>1, <2>2
<1>4. CASE Answers(r, Reply(r, Descriptor(r) # NoData, Descriptor(r)))
  <2>1. (Descriptor(r) # NoData) \in BOOLEAN
    OBVIOUS
  <2>2. last'.stall = ~(Descriptor(r) # NoData) /\ last'.data = Descriptor(r)
    BY <1>4, <2>1, ReplyParts
  <2>3. QED
    BY <1>1, <2>2, DescriptorFound
<1>5. CASE "undefined" \in fw.descriptors /\ Answers(r, Reply(r, TRUE, NoData))
  <2>1. last'.data = NoData /\ fw = FirstBlinky
    BY <1>5, ReplyParts, OwnDescriptors
  <2>2. QED
    BY <2>1
<1>6. QED
  BY <1>3, <1>4, <1>5 DEF GetDescriptor

LEMMA ConfigurationTrue ==
  ASSUME Books, NEW r \in Requests, GetConfiguration(r), last'.req = r
  PROVE  ConfigurationTold
<1>1. last'.data = <<"config", IF fw.stored THEN config ELSE 1>>
  BY ReplyParts DEF GetConfiguration
<1>2. QED
  BY <1>1 DEF ConfigurationTold, Books

LEMMA ToldStep ==
  ASSUME KnownFirmwares, StringsFit, TypeOK, Books, [Next]_vars
  PROVE  StatusTold /\ DescriptorTold /\ ConfigurationTold
<1>1. CASE last' = last
  BY <1>1 DEF StatusTold, DescriptorTold, ConfigurationTold, Told
<1>2. CASE last' # last
  <2>1. PICK r \in Requests : handle_setupdata(r) /\ last'.req = r
    BY <1>2, Asked
  <2>2. fw' = fw
    BY KeepsFirmware
  <2>3. StatusTold
    <3>1. CASE r.req = "GET_STATUS" /\ last'.data # NoData
      BY <2>1, <3>1, NameParts, StatusTrue
    <3>2. QED
      BY <2>1, <3>1 DEF StatusTold, Told
  <2>4. DescriptorTold
    <3>1. CASE r.req = "GET_DESCRIPTOR"
      BY <2>1, <2>2, <3>1, NameParts, DescriptorTrue
    <3>2. CASE r.req # "GET_DESCRIPTOR"
      BY <2>1, <3>2, StringRequests DEF DescriptorTold, Told
    <3>3. QED
      BY <3>1, <3>2
  <2>5. ConfigurationTold
    <3>1. CASE r.req = "GET_CONFIGURATION"
      BY <2>1, <3>1, NameParts, ConfigurationTrue
    <3>2. QED
      BY <2>1, <3>1 DEF ConfigurationTold, Told
  <2>6. QED
    BY <2>3, <2>4, <2>5
<1>3. QED
  BY <1>1, <1>2

\* GET_STATUS, GET_DESCRIPTOR and GET_CONFIGURATION tell the host what its own
\* requests and the resets have made of the device, for every firmware of the
\* repository, every number of strings and every set of endpoints that may be
\* named (setupdat.c:100-330).
THEOREM AnswersTrue == ASSUME KnownFirmwares, StringsFit PROVE Spec => AnswersTold
<1>1. Init => Books
  BY BooksInit
<1>2. TypeOK /\ Books /\ [Next]_vars => Books'
  BY BooksStep
<1>3. Spec => []Books
  BY TypeCorrect, <1>1, <1>2, PTL DEF Spec
<1>4. TypeOK /\ Books /\ [Next]_vars => [StatusTold /\ DescriptorTold /\ ConfigurationTold]_vars
  BY ToldStep
<1>5. QED
  BY TypeCorrect, <1>3, <1>4, PTL DEF Spec, AnswersTold
=============================================================================
