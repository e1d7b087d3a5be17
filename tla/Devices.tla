------------------------------- MODULE Devices -------------------------------
(***************************************************************************)
(* The life cycle of devices: DeviceService reads a device, decides, and   *)
(* writes with TransitionDevice, which compares the state and the version  *)
(* it read.  Several requests may be between their read and their write.   *)
(* Telemetry is accepted from enabled devices only.                        *)
(***************************************************************************)
EXTENDS Integers

CONSTANTS
    Devices,
    Clients,        \* concurrent requests
    NoDevice,
    Readings,       \* sequence numbers of telemetry
    MaxVersion      \* bound on a device's version

ASSUME NoDeviceAssumption == NoDevice \notin Devices
ASSUME MaxVersionAssumption == MaxVersion \in Nat \ {0}

VARIABLES
    dev,            \* state of each device, "absent" before enrolment
    version,        \* its version
    req,            \* each client's request between its read and its write
    changed,        \* history: clients whose device changed since they read it
    telemetry       \* accepted readings, as <<device, sequence>> pairs

deviceVars == <<dev, version, req, changed, telemetry>>

DeviceStates == {"pending", "paired", "enabled", "disabled", "retired"}

\* domain.ValidateTransition: the rule the services are meant to follow.
ValidTransition ==
    {<<"pending", "paired">>, <<"pending", "retired">>,
     <<"paired", "enabled">>, <<"paired", "retired">>,
     <<"enabled", "disabled">>, <<"enabled", "retired">>,
     <<"disabled", "enabled">>, <<"disabled", "retired">>}

NoRequest == [dev |-> NoDevice, from |-> "absent", to |-> "absent", version |-> 0]

DeviceTypeOK ==
    /\ dev \in [Devices -> DeviceStates \cup {"absent"}]
    /\ version \in [Devices -> 0..MaxVersion]
    /\ req \in [Clients -> [dev : Devices \cup {NoDevice},
                            from : DeviceStates \cup {"absent"},
                            to : DeviceStates \cup {"absent"},
                            version : 0..MaxVersion]]
    /\ changed \subseteq Clients
    /\ telemetry \subseteq Devices \X Readings

DeviceInit ==
    /\ dev = [d \in Devices |-> "absent"]
    /\ version = [d \in Devices |-> 0]
    /\ req = [c \in Clients |-> NoRequest]
    /\ changed = {}
    /\ telemetry = {}

-----------------------------------------------------------------------------

\* CreateDevice: a pending device of version 1, with its
\* capabilities in the same transaction.
CreateDevice(d) ==
    /\ dev[d] = "absent"
    /\ dev' = [dev EXCEPT ![d] = "pending"]
    /\ version' = [version EXCEPT ![d] = 1]
    /\ UNCHANGED <<req, changed, telemetry>>

\* Enroll checks the kind and its capabilities, which no state depends on.
Enroll(d) == CreateDevice(d)

\* GetDevice, and a decision taken on the row it returned.
Decide(c, d, allowed, to) ==
    /\ req[c] = NoRequest
    /\ dev[d] \in allowed
    /\ req' = [req EXCEPT ![c] =
          [dev |-> d, from |-> dev[d], to |-> to, version |-> version[d]]]
    /\ changed' = changed \ {c}
    /\ UNCHANGED <<dev, version, telemetry>>

Pair(c, d) == Decide(c, d, {"pending"}, "paired")
\* Mutated form: pairing may be skipped.
EnableUnpaired(c, d) == Decide(c, d, {"pending", "paired", "disabled"}, "enabled")

Enable(c, d) == Decide(c, d, {"paired", "disabled"}, "enabled")
Disable(c, d) == Decide(c, d, {"enabled"}, "disabled")
Retire(c, d) == Decide(c, d, DeviceStates \ {"retired"}, "retired")

\* Mutated form: the version is not compared.
CurrentState(r) == dev[r.dev] = r.from

\* The WHERE clause of TransitionDevice.
Current(r) == dev[r.dev] = r.from /\ version[r.dev] = r.version

Forget(c) == req' = [req EXCEPT ![c] = NoRequest]

\* TransitionDevice finds the row as it was read.  TransitionWithAudit
\* changes the device by the same statement.
TransitionDevice(c) ==
    LET r == req[c] IN
    /\ r # NoRequest
    /\ Current(r)
    /\ version[r.dev] < MaxVersion
    /\ dev' = [dev EXCEPT ![r.dev] = r.to]
    /\ version' = [version EXCEPT ![r.dev] = @ + 1]
    /\ changed' = changed \cup {k \in Clients \ {c} : req[k].dev = r.dev}
    /\ Forget(c)
    /\ UNCHANGED telemetry

\* No row matches: ErrConflict.  Or the request is cancelled.
TransitionConflict(c) ==
    /\ req[c] # NoRequest
    /\ Forget(c)
    /\ UNCHANGED <<dev, version, changed, telemetry>>

\* InsertTelemetry selects an enabled device; a repeated sequence number
\* violates UNIQUE(device_id, sequence).
InsertTelemetry(d, n) ==
    /\ dev[d] = "enabled"
    /\ <<d, n>> \notin telemetry
    /\ telemetry' = telemetry \cup {<<d, n>>}
    /\ UNCHANGED <<dev, version, req, changed>>

\* Record refuses a reading without a positive sequence number.
Record(d, n) == n > 0 /\ InsertTelemetry(d, n)

Request(c, d) == Pair(c, d) \/ Enable(c, d) \/ Disable(c, d) \/ Retire(c, d)

DeviceNext ==
    \/ \E d \in Devices : Enroll(d)
    \/ \E c \in Clients, d \in Devices : Request(c, d)
    \/ \E c \in Clients : TransitionDevice(c) \/ TransitionConflict(c)
    \/ \E d \in Devices, n \in Readings : Record(d, n)

DeviceSpec == DeviceInit /\ [][DeviceNext]_deviceVars

-----------------------------------------------------------------------------
(* Properties                                                              *)

\* The services never call ValidateTransition, yet with any interleaving of
\* stale requests the table only moves along its edges.
FollowsTransitions ==
    [][\A d \in Devices : dev'[d] # dev[d] /\ dev[d] # "absent" =>
          <<dev[d], dev'[d]>> \in ValidTransition]_deviceVars

\* No lost update: a request takes effect only if the device has not changed
\* since it was read, not even away and back again (enabled, disabled,
\* enabled), which the state alone would not show.
NoLostUpdate ==
    [][\A c \in Clients : req[c] # NoRequest /\ dev' # dev /\ req'[c] = NoRequest =>
          c \notin changed]_deviceVars

\* The version identifies the state: a request that read the current version
\* read the current state.
VersionFixesState ==
    \A c \in Clients : req[c] # NoRequest =>
        /\ req[c].version <= version[req[c].dev]
        /\ req[c].version = version[req[c].dev] =>
              dev[req[c].dev] = req[c].from /\ c \notin changed

-----------------------------------------------------------------------------
(* The inductive invariant behind the theorems of EnergyPlansProofs        *)

\* A request under way names an enrolled device and an edge of the rule.
RequestsValid ==
    \A c \in Clients : req[c] # NoRequest =>
        /\ req[c].dev \in Devices
        /\ dev[req[c].dev] # "absent"
        /\ <<req[c].from, req[c].to>> \in ValidTransition

DeviceInv == DeviceTypeOK /\ RequestsValid /\ VersionFixesState
=============================================================================
