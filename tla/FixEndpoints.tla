--------------------------- MODULE FixEndpoints ---------------------------
(***************************************************************************)
(* fix_endpoints (proxy.c): the descriptors of the target device are gone  *)
(* through once, configuration by configuration, before the proxy starts.  *)
(* Where the atmega32u4 cannot have the endpoints of a configuration as    *)
(* they are, they are numbered 1, 2, ... in the descriptors; the interrupt *)
(* endpoints of the first configuration go into the endpoint table and the *)
(* two translation tables.  Endpoints states as assumptions what the rest  *)
(* of the system expects of these tables.                                  *)
(*                                                                         *)
(* The three nested loops over interfaces, alternate settings and          *)
(* endpoints are one sequence of endpoint descriptors per configuration,   *)
(* in the order of the loops.  One step is one iteration.                  *)
(***************************************************************************)
EXTENDS Naturals, Sequences, FiniteSets

CONSTANTS
    Devices,            \* the devices considered: sequences of configurations
    MaxEndpoints,       \* MAX_ENDPOINTS
    MaxPayloadSize      \* MAX_PAYLOAD_SIZE_EP

ToDevice == 0           \* the direction bit of an address
ToHost == 128
Direction(address) == IF address >= ToHost THEN ToHost ELSE ToDevice
Number(address) == address - Direction(address)

\* Addresses that a descriptor of a device may bear.
Numbers == 1..15
Addresses == Numbers \union {ToHost + n : n \in Numbers}

Types == {"control", "interrupt", "bulk", "isochronous"}
Descriptors == [address : Nat, type : Types, size : Nat]

ASSUME DevicesAssumption ==
    /\ Devices \subseteq Seq(Seq(Descriptors))
    /\ \A device \in Devices : \A c \in DOMAIN device :
          /\ Len(device[c]) < ToHost      \* endpointNumber spares the direction
          /\ \A i \in DOMAIN device[c] : device[c][i].address \in Addresses

ASSUME SizesAssumption == MaxEndpoints \in Numbers /\ MaxPayloadSize \in Nat

VARIABLES
    configurations,     \* descriptors->configurations, with addresses replaced
    configurationIndex,
    endpointIndex,      \* position in the configuration, 0 before it is compared
    renumber,
    endpointNumber,
    endpoints,          \* endpoints[] up to pEndpoints
    usbToSerial,        \* usbToSerialEndpoint, 0 where there is none
    serialToUsb         \* serialToUsbEndpoint

tables == <<endpoints, usbToSerial, serialToUsb>>
vars == <<configurations, configurationIndex, endpointIndex, renumber,
          endpointNumber, tables>>

Current == configurations[configurationIndex]

\* get_endpoint_properties: what a configuration asks of the endpoint n.
SourceProperties(configuration, n) ==
    LET used == {i \in DOMAIN configuration : Number(configuration[i].address) = n}
    IN  [types |-> {configuration[i].type : i \in used} \ {"control"},
         directions |-> {Direction(configuration[i].address) : i \in used}]

\* Mutants: a chip with endpoints in both directions; configurations after the
\* first are not kept out; the number is not tested; it is tested off by one.
Compatible_Bidirectional(configuration) ==
    \A i \in DOMAIN configuration :
        LET n == Number(configuration[i].address)
        IN  /\ n <= MaxEndpoints
            /\ SourceProperties(configuration, n).types \subseteq {"interrupt"}
Configured_Every(configuration, descriptor, number) ==
    /\ descriptor.type = "interrupt"
    /\ descriptor.size <= MaxPayloadSize
    /\ number <= MaxEndpoints
Configured_Unbounded(configuration, descriptor, number) ==
    configuration = 1 /\ Configured_Every(configuration, descriptor, 0)
Configured_Short(configuration, descriptor, number) ==
    configuration = 1 /\ Configured_Every(configuration, descriptor, number + 1)

\* compare_endpoint_properties with targetProperties: the chip has endpoints 1
\* to MAX_ENDPOINTS, interrupt only, in one direction each.
Compatible(configuration) ==
    \A i \in DOMAIN configuration :
        LET n == Number(configuration[i].address)
            source == SourceProperties(configuration, n)
        IN  /\ n <= MaxEndpoints
            /\ source.types \subseteq {"interrupt"}
            /\ \E direction \in {ToDevice, ToHost} : source.directions = {direction}

\* The tests that keep an endpoint out of the tables.
Configured(configuration, descriptor, number) ==
    /\ configuration = 1
    /\ descriptor.type = "interrupt"
    /\ descriptor.size <= MaxPayloadSize
    /\ number <= MaxEndpoints

Init ==
    /\ configurations \in Devices
    /\ configurationIndex = 1
    /\ endpointIndex = 0
    /\ renumber = FALSE
    /\ endpointNumber = 0
    /\ endpoints = << >>
    /\ usbToSerial = [a \in Addresses |-> 0]
    /\ serialToUsb = [a \in Addresses |-> 0]

CompareProperties ==
    /\ configurationIndex <= Len(configurations)
    /\ endpointIndex = 0
    /\ renumber' = ~Compatible(Current)
    /\ endpointNumber' = 0
    /\ endpointIndex' = 1
    /\ UNCHANGED <<configurations, configurationIndex, tables>>

AddEndpoint(original, descriptor) ==
    /\ usbToSerial' = [usbToSerial EXCEPT ![original] = descriptor.address]
    /\ serialToUsb' = [serialToUsb EXCEPT ![descriptor.address] = original]
    /\ endpoints' = Append(endpoints, [number |-> descriptor.address,
                                       type |-> descriptor.type,
                                       size |-> descriptor.size])

\* Mutants: the new address goes into the tables and not into the descriptor;
\* the next configuration goes on where the last one ended.
StoreDescriptor_Missing(descriptor) == UNCHANGED configurations
NextConfiguration_IndexKept ==
    /\ configurationIndex <= Len(configurations)
    /\ endpointIndex > Len(Current)
    /\ configurationIndex' = configurationIndex + 1
    /\ UNCHANGED <<configurations, endpointIndex, renumber, endpointNumber, tables>>

StoreDescriptor(descriptor) ==
    configurations' =
        [configurations EXCEPT ![configurationIndex][endpointIndex] = descriptor]

FixEndpoint ==
    /\ configurationIndex <= Len(configurations)
    /\ endpointIndex \in DOMAIN Current
    /\ LET found == Current[endpointIndex]
           number == IF renumber THEN endpointNumber + 1 ELSE endpointNumber
           fixed == IF renumber
                    THEN [found EXCEPT !.address = Direction(@) + number]
                    ELSE found
       IN  /\ StoreDescriptor(fixed)
           /\ endpointNumber' = number
           /\ IF Configured(configurationIndex, found, number)
              THEN AddEndpoint(found.address, fixed)
              ELSE UNCHANGED tables
    /\ endpointIndex' = endpointIndex + 1
    /\ UNCHANGED <<configurationIndex, renumber>>

NextConfiguration ==
    /\ configurationIndex <= Len(configurations)
    /\ endpointIndex > Len(Current)
    /\ configurationIndex' = configurationIndex + 1
    /\ endpointIndex' = 0
    /\ UNCHANGED <<configurations, renumber, endpointNumber, tables>>

Next == CompareProperties \/ FixEndpoint \/ NextConfiguration

Spec == Init /\ [][Next]_vars

-----------------------------------------------------------------------------
TypeOK ==
    /\ configurations \in Seq(Seq(Descriptors))
    /\ configurationIndex \in 1..(Len(configurations) + 1)
    /\ endpointIndex \in Nat
    /\ configurationIndex <= Len(configurations) =>
          endpointIndex <= Len(Current) + 1
    /\ renumber \in BOOLEAN
    /\ endpointNumber \in Nat
    /\ endpoints \in Seq([number : Addresses, type : Types, size : Nat])
    /\ usbToSerial \in [Addresses -> Addresses \union {0}]
    /\ serialToUsb \in [Addresses -> Addresses \union {0}]

\* No endpoint of a configuration is listed twice, as happens when several
\* alternate settings of an interface use it.
NoneRepeated(configuration) ==
    \A i, j \in DOMAIN configuration :
        configuration[i].address = configuration[j].address => i = j

DevicesRepeatNone ==
    \A device \in Devices : \A c \in DOMAIN device : NoneRepeated(device[c])

\* For devices that list no endpoint twice the chip can have every endpoint of
\* the table (proxy.c:71-84): its number exists, it is an interrupt endpoint, and
\* no other entry has the same number, in either direction.
EmulatedOnChip ==
    /\ \A i \in DOMAIN endpoints :
          /\ Number(endpoints[i].number) \in 1..MaxEndpoints
          /\ endpoints[i].type = "interrupt"
          /\ endpoints[i].size <= MaxPayloadSize
    /\ \A i, j \in DOMAIN endpoints :
          Number(endpoints[i].number) = Number(endpoints[j].number) => i = j

\* Provided that no device lists an endpoint twice the table stays within
\* endpoints[MAX_ENDPOINTS] (protocol.h:25-26), although the only test on its size
\* (proxy.c:419) is on a number that counts nothing when the endpoints keep their
\* addresses.  It does not stay within it when a device whose addresses suit the
\* chip lists the same ones again in other alternate settings.
TableFits == DevicesRepeatNone => Len(endpoints) <= MaxEndpoints

\* For devices that list no endpoint twice the translation tables are inverse to
\* each other on the endpoints of the table and empty elsewhere: a report leaves under the address under which
\* the acknowledgement, the poll or the OUT packet is translated back.
TablesInverse ==
    /\ \A i \in DOMAIN endpoints :
          /\ serialToUsb[endpoints[i].number] # 0
          /\ usbToSerial[serialToUsb[endpoints[i].number]] = endpoints[i].number
    /\ \A a \in Addresses : usbToSerial[a] # 0 =>
          /\ serialToUsb[usbToSerial[a]] = a
          /\ \E i \in DOMAIN endpoints : endpoints[i].number = usbToSerial[a]

\* For devices that list no endpoint twice the endpoints that the firmware
\* configures are those of which the descriptors tell the host: each of the table is in the first configuration
\* exactly once, with the same type and size.
HostSeesTable ==
    configurationIndex > 1 =>
        \A i \in DOMAIN endpoints :
            /\ Cardinality({j \in DOMAIN configurations[1] :
                   configurations[1][j].address = endpoints[i].number}) = 1
            /\ \E j \in DOMAIN configurations[1] :
                   configurations[1][j] = [address |-> endpoints[i].number,
                                           type |-> endpoints[i].type,
                                           size |-> endpoints[i].size]

\* When the first configuration has no more endpoints than the chip, every
\* interrupt endpoint small enough for the protocol is proxied.
AllProxied ==
    configurationIndex > 1 /\ Len(configurations[1]) <= MaxEndpoints =>
        \A j \in DOMAIN configurations[1] :
            LET d == configurations[1][j]
            IN  d.type = "interrupt" /\ d.size <= MaxPayloadSize =>
                    \E i \in DOMAIN endpoints : endpoints[i].number = d.address

-----------------------------------------------------------------------------
(* The tables as Endpoints has them. *)

ProxiedTo(direction) ==
    {a \in Addresses : usbToSerial[a] # 0 /\ Direction(a) = direction}

\* The OUT entries of the table, in its order: the loop over endpoints[] that
\* fills outEndpoints in the firmware.
OutEntries(table) ==
    \E place \in [DOMAIN table -> DOMAIN endpoints] :
        /\ \A i, j \in DOMAIN table : i < j => place[i] < place[j]
        /\ \A i \in DOMAIN table : table[i] = endpoints[place[i]].number
        /\ {place[i] : i \in DOMAIN table} =
              {j \in DOMAIN endpoints : Direction(endpoints[j].number) = ToDevice}

Tables(table) ==
    INSTANCE Endpoints
    WITH InEps <- ProxiedTo(ToHost), OutEps <- ProxiedTo(ToDevice),
         U2S <- [a \in ProxiedTo(ToHost) \union ProxiedTo(ToDevice) |-> usbToSerial[a]],
         OutTable <- table

\* Whatever fix_endpoints makes of a device meets the assumptions of Endpoints,
\* from which everything above the endpoint tables starts.
MeetsEndpoints ==
    \A table \in Seq(Addresses) : OutEntries(table) =>
        /\ Tables(table)!EndpointsOK
        /\ Tables(table)!RenumberingOK
        /\ Tables(table)!CapacityOK
        /\ Tables(table)!OutTableOK
=============================================================================
