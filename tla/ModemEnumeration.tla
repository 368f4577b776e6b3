--------------------------- MODULE ModemEnumeration ---------------------------
(***************************************************************************)
(* What happens when the USB library has enumerated a device               *)
(* (src/USBManagement.c, src/Modem_Huawei_E160x.c): the search of its      *)
(* configuration descriptor for the modem's endpoints, a step at a time,   *)
(* and the bus suspended to make a device that is still a disk come back   *)
(* as a modem.                                                             *)
(*                                                                         *)
(* Class, subclass and protocol of an interface are compared with 0xff     *)
(* together: here an interface is "vendor" or "other".  A descriptor's     *)
(* place in the configuration stands for its address.                      *)
(*                                                                         *)
(* A definition named Mutant... is the next one with a plausible mistake:  *)
(* the properties below are broken when it takes its place.                *)
(***************************************************************************)
EXTENDS Integers, Sequences, FiniteSets

CONSTANTS
  MaxDescriptors,   \* bound: descriptors in a configuration
  MaxAttachments,   \* bound: how often a device attaches
  ControlMayFail    \* whether control requests may fail

ASSUME ModemAssumption ==
  /\ MaxDescriptors \in Nat /\ MaxAttachments \in Nat
  /\ ControlMayFail \in BOOLEAN

\* The class of an interface; direction and type of an endpoint
Interfaces  == {"vendor", "other"}
Endpoints   == {"bulkIn", "bulkOut", "interruptIn", "isochronousIn"}
Descriptors == Interfaces \cup Endpoints

Configurations == UNION {[1..n -> Descriptors] : n \in 0..MaxDescriptors}

\* What the search looks for
Searched == {"bulkIn", "bulkOut", "interruptIn"}

ReadCodes  == {"SuccessfulConfigRead", "ControlError", "InvalidConfigDataReturned",
               "DescriptorTooLarge"}
ErrorCodes == ReadCodes \cup {"None", "NoCompatibleInterfaceFound"}

Phases == {"unattached", "attached", "reading", "searching", "returned", "processed",
           "enumerated", "failed"}
Leds   == {"NOTREADY", "ENUMERATING", "READY", "ERROR"}

VARIABLES
  config,                \* the descriptors of the device attached last
  CurrConfigLocation,    \* index of the current one, 0 before the first
  CDCControlInterface,   \* indices, 0 for NULL
  DataINEndpoint,
  DataOUTEndpoint,
  NotificationEndpoint,
  phase,                 \* how far the device has come
  ErrorCode,
  leds,
  attachments

found == <<CDCControlInterface, DataINEndpoint, DataOUTEndpoint, NotificationEndpoint>>
modemVars  == <<config, CurrConfigLocation, found, phase, ErrorCode, leds, attachments>>

----------------------------------------------------------------------------
(* USB_GetNextDescriptorComp with each of the comparators                  *)

\* What follows the current descriptor and meets a condition.  A search that fails at an
\* interface leaves the place before it, so the next search finds that interface again.
Following(kinds) == {j \in (CurrConfigLocation + 1)..Len(config) : config[j] \in kinds}

NextOf(indices) == IF indices = {} THEN 0 ELSE CHOOSE j \in indices : \A k \in indices : j <= k

\* The search for an endpoint has not stepped back from the interface it ended at
MutantNextInterface ==
  NextOf({j \in Following({"vendor"}) :
            CDCControlInterface = 0 \/ \E k \in Following(Interfaces) : k < j})
\* Every search begins at the first descriptor
MutantFirstInterface == NextOf({j \in DOMAIN config : config[j] = "vendor"})
\* DComp_NextCDCControlInterface and DComp_NextCDCDataInterface: for this modem the same
NextInterface == NextOf(Following({"vendor"}))

\* DComp_NextCDCDataInterfaceEndpoint: fails at the next interface
NextEndpoint ==
  LET next == NextOf(Following(Searched \cup Interfaces))
  IN  IF next # 0 /\ config[next] \in Interfaces THEN 0 ELSE next

----------------------------------------------------------------------------
(* ProcessConfigurationDescriptor *)

Complete == DataINEndpoint # 0 /\ DataOUTEndpoint # 0 /\ NotificationEndpoint # 0

Searching == phase = "searching" /\ ~Complete

\* EVENT_USB_Host_DeviceEnumerationComplete calls ProcessModemUSBStates
SetDeviceConfiguration ==
  /\ phase = "attached"
  /\ \/ phase' = "reading" /\ UNCHANGED <<leds, ErrorCode>>
     \/ ControlMayFail /\ phase' = "processed" /\ leds' = "ERROR" /\ ErrorCode' = "ControlError"
  /\ UNCHANGED <<config, CurrConfigLocation, found, attachments>>

GetDeviceConfigDescriptor(code) ==
  /\ phase = "reading"
  /\ code = "ControlError" => ControlMayFail
  /\ ErrorCode' = code
  /\ phase' = IF code = "SuccessfulConfigRead" THEN "searching" ELSE "returned"
  /\ CurrConfigLocation' = 0
  /\ CDCControlInterface' = 0 /\ DataINEndpoint' = 0 /\ DataOUTEndpoint' = 0
  /\ NotificationEndpoint' = 0
  /\ UNCHANGED <<config, leds, attachments>>

NoEndpoint == Searching /\ (CDCControlInterface = 0 \/ NextEndpoint = 0)

FoundEndpoint ==
  /\ Searching /\ ~NoEndpoint
  /\ CurrConfigLocation' = NextEndpoint
  /\ NotificationEndpoint' =
       IF config[NextEndpoint] = "interruptIn" THEN NextEndpoint ELSE NotificationEndpoint
  /\ DataINEndpoint' = IF config[NextEndpoint] = "bulkIn" THEN NextEndpoint ELSE DataINEndpoint
  /\ DataOUTEndpoint' = IF config[NextEndpoint] = "bulkOut" THEN NextEndpoint ELSE DataOUTEndpoint
  /\ UNCHANGED <<config, CDCControlInterface, phase, ErrorCode, leds, attachments>>

NextDataInterface ==
  /\ NoEndpoint
  /\ NotificationEndpoint # 0 /\ NextInterface # 0
  /\ CurrConfigLocation' = NextInterface
  /\ DataINEndpoint' = 0 /\ DataOUTEndpoint' = 0
  /\ UNCHANGED <<config, CDCControlInterface, NotificationEndpoint, phase, ErrorCode, leds,
                 attachments>>

NextControlInterface ==
  /\ NoEndpoint
  /\ NotificationEndpoint = 0 /\ NextInterface # 0
  /\ CurrConfigLocation' = NextInterface
  /\ CDCControlInterface' = NextInterface
  /\ UNCHANGED <<config, DataINEndpoint, DataOUTEndpoint, NotificationEndpoint, phase,
                 ErrorCode, leds, attachments>>

NoInterface ==
  /\ NoEndpoint
  /\ NextInterface = 0
  /\ ErrorCode' = "NoCompatibleInterfaceFound" /\ phase' = "returned"
  /\ UNCHANGED <<config, CurrConfigLocation, found, leds, attachments>>

\* The three pipes are configured
ConfigurePipes ==
  /\ phase = "searching" /\ Complete
  /\ phase' = "returned"
  /\ UNCHANGED <<config, CurrConfigLocation, found, ErrorCode, leds, attachments>>

----------------------------------------------------------------------------
(* ProcessModemUSBStates and the events *)

\* Anything but an error in a control request means that the device is not a modem yet:
\* with the bus suspended it leaves, to attach again in another mode
ProcessModemUSBStates ==
  /\ phase = "returned"
  /\ phase' = "processed"
  /\ leds' = IF ErrorCode = "ControlError" THEN "ERROR" ELSE leds
  /\ UNCHANGED <<config, CurrConfigLocation, found, ErrorCode, attachments>>

\* What ProcessModemUSBStates returns is not looked at
EnumerationComplete ==
  /\ phase = "processed"
  /\ phase' = "enumerated" /\ leds' = "READY"
  /\ UNCHANGED <<config, CurrConfigLocation, found, ErrorCode, attachments>>

EnumerationFailed ==
  /\ phase = "attached"
  /\ phase' = "failed" /\ leds' = "ERROR"
  /\ UNCHANGED <<config, CurrConfigLocation, found, ErrorCode, attachments>>

DeviceUnattached ==
  /\ phase \in {"enumerated", "failed"}
  /\ phase' = "unattached" /\ leds' = "NOTREADY"
  /\ UNCHANGED <<config, CurrConfigLocation, found, ErrorCode, attachments>>

DeviceAttached ==
  /\ phase = "unattached" /\ attachments < MaxAttachments
  /\ config' \in Configurations
  /\ phase' = "attached" /\ leds' = "ENUMERATING"
  /\ ErrorCode' = "None"
  /\ attachments' = attachments + 1
  /\ UNCHANGED <<CurrConfigLocation, found>>

----------------------------------------------------------------------------
(* The specification *)

ModemInit ==
  /\ config = <<>> /\ CurrConfigLocation = 0
  /\ CDCControlInterface = 0 /\ DataINEndpoint = 0 /\ DataOUTEndpoint = 0
  /\ NotificationEndpoint = 0
  /\ phase = "unattached" /\ ErrorCode = "None" /\ leds = "NOTREADY" /\ attachments = 0

Search == FoundEndpoint \/ NextDataInterface \/ NextControlInterface \/ NoInterface \/ ConfigurePipes

ModemNext ==
  \/ SetDeviceConfiguration
  \/ \E code \in ReadCodes : GetDeviceConfigDescriptor(code)
  \/ Search
  \/ ProcessModemUSBStates
  \/ EnumerationComplete
  \/ EnumerationFailed
  \/ DeviceUnattached
  \/ DeviceAttached

ModemSpec == ModemInit /\ [][ModemNext]_modemVars

----------------------------------------------------------------------------
(* Properties *)

\* Only a configuration that has been read is searched.
ModemTypeOK ==
  /\ config \in Seq(Descriptors) /\ Len(config) <= MaxDescriptors
  /\ {CurrConfigLocation, CDCControlInterface, DataINEndpoint, DataOUTEndpoint,
      NotificationEndpoint} \subseteq 0..MaxDescriptors
  /\ phase \in Phases /\ ErrorCode \in ErrorCodes /\ leds \in Leds
  /\ attachments \in 0..MaxAttachments
  /\ phase = "searching" =>
       ErrorCode = "SuccessfulConfigRead" /\ CurrConfigLocation <= Len(config)

Enumerated == phase \in {"returned", "processed", "enumerated"} /\ ErrorCode = "SuccessfulConfigRead"

\* The interface a descriptor belongs to
InterfaceOf(j) ==
  CHOOSE k \in 0..j : /\ k # 0 => config[k] \in Interfaces
                      /\ \A l \in (k + 1)..j : config[l] \notin Interfaces

\* The three pipes get endpoints of their kind, of the modem's own interfaces; and a device
\* is sent away as no modem only if none of its interfaces has all three (the search of
\* Modem_Huawei_E160x.c:81-140 and its comparators).
ModemFound ==
  /\ Enumerated =>
       /\ config[DataINEndpoint] = "bulkIn" /\ config[DataOUTEndpoint] = "bulkOut"
       /\ config[NotificationEndpoint] = "interruptIn"
       /\ \A e \in {DataINEndpoint, DataOUTEndpoint, NotificationEndpoint} :
            config[InterfaceOf(e)] = "vendor"
  /\ ErrorCode = "NoCompatibleInterfaceFound" =>
       ~\E i \in DOMAIN config :
          /\ config[i] = "vendor"
          /\ Searched \subseteq {config[j] : j \in {k \in DOMAIN config : InterfaceOf(k) = i}}

\* The search comes to an end: a step that does not end it leaves it further on in the
\* configuration, also when the place has been set back before the interface it failed at.
SearchAdvances ==
  [][phase = "searching" /\ phase' = "searching" => CurrConfigLocation' > CurrConfigLocation]_modemVars
=============================================================================
