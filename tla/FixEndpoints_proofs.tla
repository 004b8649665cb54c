------------------------ MODULE FixEndpoints_proofs ------------------------
(***************************************************************************)
(* What fix_endpoints makes of every device whose configurations do not    *)
(* list an endpoint twice: a table that the chip can have and that stays   *)
(* within its array, and translation tables that are inverse to each       *)
(* other.                                                                  *)
(***************************************************************************)
EXTENDS FixEndpoints, FiniteSetTheorems, TLAPS

LEMMA AddressParts ==
    ASSUME NEW a \in Addresses
    PROVE  /\ Direction(a) \in {ToDevice, ToHost}
           /\ Number(a) \in Numbers
           /\ a = Direction(a) + Number(a)
           /\ a \in Nat \ {0}
  BY DEF Addresses, Numbers, Direction, Number, ToDevice, ToHost

LEMMA AddressMade ==
    ASSUME NEW d \in {ToDevice, ToHost}, NEW n \in Numbers
    PROVE  /\ d + n \in Addresses
           /\ Number(d + n) = n
  BY DEF Addresses, Numbers, Direction, Number, ToDevice, ToHost

(***************************************************************************)
(* Types.  Addresses are replaced from the front, so what matters is that  *)
(* those still to be read are addresses of the device.                     *)
(***************************************************************************)
Pending(c, i) ==
    \/ c > configurationIndex
    \/ c = configurationIndex /\ (i >= endpointIndex \/ ~renumber)

PendingTyped ==
    \A c \in DOMAIN configurations : \A i \in DOMAIN configurations[c] :
        Pending(c, i) => configurations[c][i].address \in Addresses

TypeInv == TypeOK /\ PendingTyped

Entries == [number : Addresses, type : Types, size : Nat]

LEMMA TypeInit == Init => TypeInv
  <1> SUFFICES ASSUME Init PROVE TypeInv
    OBVIOUS
  <1>1. configurations \in Seq(Seq(Descriptors))
    BY DevicesAssumption DEF Init
  <1>2. PendingTyped
    BY DevicesAssumption DEF Init, PendingTyped
  <1>3. /\ usbToSerial \in [Addresses -> Addresses \union {0}]
        /\ serialToUsb \in [Addresses -> Addresses \union {0}]
    BY DEF Init
  <1>4. endpoints \in Seq([number : Addresses, type : Types, size : Nat])
    BY DEF Init
  <1>5. Len(configurations) \in Nat
    BY <1>1
  <1>6. TypeOK
    <2>1. configurationIndex \in 1..(Len(configurations) + 1) /\ endpointIndex \in Nat
      BY <1>5 DEF Init
    <2>2. configurationIndex <= Len(configurations) =>
              endpointIndex <= Len(Current) + 1
      <3> HAVE configurationIndex <= Len(configurations)
      <3>1. Current \in Seq(Descriptors)
        BY <1>1, <2>1 DEF Current
      <3> QED
        BY <3>1 DEF Init
    <2>3. renumber \in BOOLEAN /\ endpointNumber \in Nat
      BY DEF Init
    <2> QED
      BY <1>1, <1>3, <1>4, <2>1, <2>2, <2>3 DEF TypeOK
  <1> QED
    BY <1>2, <1>6 DEF TypeInv

\* What one iteration finds and makes.
found == Current[endpointIndex]
number == IF renumber THEN endpointNumber + 1 ELSE endpointNumber
fixed == IF renumber THEN [found EXCEPT !.address = Direction(@) + number] ELSE found

LEMMA FixEndpointSteps ==
    FixEndpoint <=>
        /\ configurationIndex <= Len(configurations)
        /\ endpointIndex \in DOMAIN Current
        /\ StoreDescriptor(fixed)
        /\ endpointNumber' = number
        /\ IF Configured(configurationIndex, found, number)
           THEN AddEndpoint(found.address, fixed)
           ELSE UNCHANGED tables
        /\ endpointIndex' = endpointIndex + 1
        /\ UNCHANGED <<configurationIndex, renumber>>
  BY DEF FixEndpoint, found, number, fixed

LEMMA FoundTyped ==
    ASSUME TypeInv, configurationIndex <= Len(configurations),
           endpointIndex \in DOMAIN Current
    PROVE  /\ configurationIndex \in DOMAIN configurations
           /\ Current \in Seq(Descriptors)
           /\ found \in Descriptors
           /\ found.address \in Addresses
           /\ number \in Nat
           /\ fixed \in Descriptors
           /\ fixed.type = found.type
           /\ fixed.size = found.size
           /\ ~renumber => fixed = found
           /\ renumber => fixed.address = Direction(found.address) + number
  <1>1. configurationIndex \in DOMAIN configurations /\ Current \in Seq(Descriptors)
    BY DEF TypeInv, TypeOK, Current
  <1>2. found \in Descriptors
    BY <1>1 DEF found
  <1>3. found.address \in Addresses
    BY <1>1, <1>2 DEF TypeInv, TypeOK, PendingTyped, Pending, Current, found
  <1>4. number \in Nat
    BY DEF TypeInv, TypeOK, number
  <1>5. Direction(found.address) \in Nat
    BY <1>3, AddressParts DEF ToDevice, ToHost
  <1>6. fixed \in Descriptors /\ fixed.type = found.type /\ fixed.size = found.size
    BY <1>2, <1>4, <1>5 DEF fixed, Descriptors
  <1>7. renumber => fixed.address = Direction(found.address) + number
    BY <1>2 DEF fixed, Descriptors
  <1>8. ~renumber => fixed = found
    BY DEF fixed
  <1> QED
    BY <1>1, <1>2, <1>3, <1>4, <1>6, <1>7, <1>8

\* The address of an endpoint that goes into the tables.
LEMMA FixedAddress ==
    ASSUME TypeInv, configurationIndex <= Len(configurations),
           endpointIndex \in DOMAIN Current,
           Configured(configurationIndex, found, number)
    PROVE  /\ fixed.address \in Addresses
           /\ renumber => Number(fixed.address) = number
  <1>1. CASE renumber
    <2>1. number \in Numbers
      BY <1>1, SizesAssumption DEF TypeInv, TypeOK, number, Numbers, Configured
    <2> QED
      BY <1>1, <2>1, FoundTyped, AddressParts, AddressMade
  <1>2. CASE ~renumber
    BY <1>2, FoundTyped
  <1> QED
    BY <1>1, <1>2

\* A descriptor is stored where the iteration is, and nowhere else.
LEMMA Stored ==
    ASSUME TypeInv, configurationIndex <= Len(configurations),
           endpointIndex \in DOMAIN Current, StoreDescriptor(fixed)
    PROVE  /\ configurations' \in Seq(Seq(Descriptors))
           /\ Len(configurations') = Len(configurations)
           /\ \A c \in DOMAIN configurations :
                 /\ Len(configurations'[c]) = Len(configurations[c])
                 /\ \A i \in DOMAIN configurations[c] :
                       configurations'[c][i] =
                           IF c = configurationIndex /\ i = endpointIndex
                           THEN fixed ELSE configurations[c][i]
  <1> DEFINE stored == [Current EXCEPT ![endpointIndex] = fixed]
  <1>1. configurationIndex \in DOMAIN configurations
    BY FoundTyped
  <1>2. Current \in Seq(Descriptors) /\ fixed \in Descriptors
    BY FoundTyped
  <1>3. /\ stored \in Seq(Descriptors)
        /\ Len(stored) = Len(Current)
        /\ \A i \in DOMAIN Current :
              stored[i] = IF i = endpointIndex THEN fixed ELSE Current[i]
    BY <1>2
  <1>4. configurations' = [configurations EXCEPT ![configurationIndex] = stored]
    BY DEF StoreDescriptor, Current
  <1>5. configurations \in Seq(Seq(Descriptors))
    BY DEF TypeInv, TypeOK
  <1> HIDE DEF stored
  <1>6. /\ configurations' \in Seq(Seq(Descriptors))
        /\ Len(configurations') = Len(configurations)
        /\ \A c \in DOMAIN configurations : configurations'[c] =
              IF c = configurationIndex THEN stored ELSE configurations[c]
    BY <1>1, <1>3, <1>4, <1>5
  <1> QED
    BY <1>3, <1>6 DEF Current

\* Where the endpoints are not renumbered, the descriptors stay as they are.
LEMMA KeptDescriptors ==
    ASSUME TypeInv, configurationIndex <= Len(configurations),
           endpointIndex \in DOMAIN Current, StoreDescriptor(fixed), ~renumber,
           configurationIndex' = configurationIndex
    PROVE  Current' = Current
  <1>1. /\ configurations' \in Seq(Seq(Descriptors))
        /\ configurations \in Seq(Seq(Descriptors))
        /\ configurationIndex \in DOMAIN configurations
        /\ configurationIndex \in DOMAIN configurations'
    BY Stored, FoundTyped DEF TypeInv, TypeOK
  <1>2. /\ configurations'[configurationIndex] \in Seq(Descriptors)
        /\ configurations[configurationIndex] \in Seq(Descriptors)
    BY <1>1
  <1>3. \A i \in DOMAIN configurations[configurationIndex] :
            configurations'[configurationIndex][i] = configurations[configurationIndex][i]
    BY <1>1, Stored, FoundTyped DEF found, Current
  <1>4. Len(configurations'[configurationIndex]) = Len(configurations[configurationIndex])
    BY <1>1, Stored
  <1>5. configurations'[configurationIndex] = configurations[configurationIndex]
    BY <1>2, <1>3, <1>4
  <1> QED
    BY <1>5 DEF Current

LEMMA TypeStep == TypeInv /\ [Next]_vars => TypeInv'
  <1> SUFFICES ASSUME TypeInv, [Next]_vars PROVE TypeInv'
    OBVIOUS
  <1> USE DEF TypeInv
  <1>1. CASE CompareProperties
    <2>1. TypeOK'
      BY <1>1 DEF CompareProperties, TypeOK, Current, tables
    <2>2. PendingTyped'
      BY <1>1 DEF CompareProperties, TypeOK, PendingTyped, Pending, Current
    <2> QED
      BY <2>1, <2>2
  <1>2. CASE FixEndpoint
    <2>1. /\ configurationIndex <= Len(configurations)
          /\ endpointIndex \in DOMAIN Current
          /\ StoreDescriptor(fixed)
          /\ endpointNumber' = number
          /\ endpointIndex' = endpointIndex + 1
          /\ configurationIndex' = configurationIndex
          /\ renumber' = renumber
      BY <1>2, FixEndpointSteps
    <2>2. /\ configurations' \in Seq(Seq(Descriptors))
          /\ Len(configurations') = Len(configurations)
          /\ Len(configurations'[configurationIndex]) = Len(Current)
      BY <2>1, Stored, FoundTyped DEF Current
    <2>3. /\ endpoints' \in Seq(Entries)
          /\ usbToSerial' \in [Addresses -> Addresses \union {0}]
          /\ serialToUsb' \in [Addresses -> Addresses \union {0}]
      <3>1. CASE Configured(configurationIndex, found, number)
        <4>1. AddEndpoint(found.address, fixed)
          BY <1>2, <3>1, FixEndpointSteps
        <4>2. fixed.address \in Addresses /\ found.address \in Addresses
          BY <2>1, <3>1, FixedAddress, FoundTyped
        <4>3. [number |-> fixed.address, type |-> fixed.type, size |-> fixed.size]
                  \in Entries
          BY <2>1, <4>2, FoundTyped DEF Entries, Descriptors
        <4> QED
          BY <4>1, <4>2, <4>3 DEF AddEndpoint, TypeOK, Entries
      <3>2. CASE ~Configured(configurationIndex, found, number)
        BY <1>2, <3>2, FixEndpointSteps DEF tables, TypeOK, Entries
      <3> QED
        BY <3>1, <3>2
    <2>4. TypeOK'
      BY <2>1, <2>2, <2>3, FoundTyped DEF TypeOK, Current, Entries
    <2>5. PendingTyped'
      <3> SUFFICES ASSUME NEW c \in DOMAIN configurations',
                          NEW i \in DOMAIN configurations'[c], Pending(c, i)'
                   PROVE  configurations'[c][i].address \in Addresses
        BY DEF PendingTyped
      <3>1. c \in DOMAIN configurations /\ i \in DOMAIN configurations[c]
        <4>1. c \in DOMAIN configurations
          BY <2>2 DEF TypeOK
        <4>2. /\ configurations[c] \in Seq(Descriptors)
              /\ configurations'[c] \in Seq(Descriptors)
              /\ Len(configurations'[c]) = Len(configurations[c])
          BY <2>1, <2>2, <4>1, Stored DEF TypeOK
        <4> QED
          BY <4>1, <4>2
      <3>2. CASE c = configurationIndex /\ i = endpointIndex
        <4>1. ~renumber
          BY <2>1, <3>2 DEF Pending, TypeOK
        <4> QED
          BY <2>1, <3>1, <3>2, <4>1, Stored, FoundTyped
      <3>3. CASE ~(c = configurationIndex /\ i = endpointIndex)
        <4>1. Pending(c, i)
          BY <2>1, <3>1, <3>3 DEF Pending, TypeOK
        <4>2. configurations'[c][i] = configurations[c][i]
          BY <2>1, <3>1, <3>3, Stored
        <4> QED
          BY <3>1, <4>1, <4>2 DEF PendingTyped
      <3> QED
        BY <3>2, <3>3
    <2> QED
      BY <2>4, <2>5
  <1>3. CASE NextConfiguration
    <2>1. TypeOK'
      BY <1>3 DEF NextConfiguration, TypeOK, Current, tables
    <2>2. PendingTyped'
      BY <1>3 DEF NextConfiguration, TypeOK, PendingTyped, Pending
    <2> QED
      BY <2>1, <2>2
  <1>4. CASE UNCHANGED vars
    BY <1>4 DEF vars, tables, TypeOK, PendingTyped, Pending, Current
  <1> QED
    BY <1>1, <1>2, <1>3, <1>4 DEF Next

\* The tables hold addresses of endpoints, and the loops of fix_endpoints stay
\* within each configuration, for every device.
THEOREM FixTypeCorrect == Spec => []TypeOK
  <1>1. TypeInv => TypeOK
    BY DEF TypeInv
  <1> QED
    BY <1>1, TypeInit, TypeStep, PTL DEF Spec

(***************************************************************************)
(* The tables.  They change in the first configuration only.  There, an    *)
(* endpoint still to be read has no entry yet; entries have numbers up to  *)
(* endpointNumber when endpoints are renumbered, and are endpoints already *)
(* read of a configuration that suits the chip when they are not.          *)
(***************************************************************************)
EntriesOnChip ==
    /\ \A i \in DOMAIN endpoints :
          /\ Number(endpoints[i].number) \in 1..MaxEndpoints
          /\ endpoints[i].type = "interrupt"
          /\ endpoints[i].size <= MaxPayloadSize

NumbersDiffer ==
    \A i, j \in DOMAIN endpoints :
        Number(endpoints[i].number) = Number(endpoints[j].number) => i = j

FirstRead == configurationIndex = 1 /\ configurationIndex <= Len(configurations)

Unread ==
    FirstRead =>
        \A i \in DOMAIN Current : i >= endpointIndex =>
            /\ usbToSerial[Current[i].address] = 0
            /\ \A j \in DOMAIN Current :
                  j >= endpointIndex /\ Current[j].address = Current[i].address => i = j

NothingYet == FirstRead /\ endpointIndex = 0 => endpoints = << >>

Renumbered ==
    FirstRead /\ renumber =>
        \A i \in DOMAIN endpoints : Number(endpoints[i].number) <= endpointNumber

Kept ==
    FirstRead /\ ~renumber /\ endpointIndex > 0 =>
        /\ Compatible(Current)
        /\ NoneRepeated(Current)
        /\ \A i \in DOMAIN endpoints : \E j \in DOMAIN Current :
              j < endpointIndex /\ endpoints[i].number = Current[j].address

TablesInv ==
    /\ TypeInv
    /\ EntriesOnChip
    /\ NumbersDiffer
    /\ TablesInverse
    /\ Unread
    /\ NothingYet
    /\ Renumbered
    /\ Kept

LEMMA SameConfiguration ==
    Current' = Current =>
        /\ Compatible(Current)' <=> Compatible(Current)
        /\ NoneRepeated(Current)' <=> NoneRepeated(Current)
  <1> SUFFICES ASSUME Current' = Current
               PROVE  /\ Compatible(Current') <=> Compatible(Current)
                      /\ NoneRepeated(Current') <=> NoneRepeated(Current)
    BY DEF Compatible, SourceProperties, NoneRepeated
  <1> QED
    OBVIOUS

LEMMA TablesInit == ASSUME DevicesRepeatNone PROVE Init => TablesInv
  <1> SUFFICES ASSUME Init PROVE TablesInv
    OBVIOUS
  <1>1. TypeInv
    BY TypeInit
  <1>2. endpoints = << >> /\ usbToSerial = [a \in Addresses |-> 0]
    BY DEF Init
  <1>3. EntriesOnChip /\ NumbersDiffer /\ TablesInverse /\ NothingYet /\ Renumbered
    BY <1>2 DEF EntriesOnChip, NumbersDiffer, TablesInverse, NothingYet, Renumbered
  <1>4. Unread
    <2> SUFFICES ASSUME FirstRead, NEW i \in DOMAIN Current
                 PROVE  /\ usbToSerial[Current[i].address] = 0
                        /\ \A j \in DOMAIN Current :
                              Current[j].address = Current[i].address => i = j
      BY DEF Unread
    <2>1. configurationIndex \in DOMAIN configurations
      BY <1>1 DEF FirstRead, TypeInv, TypeOK
    <2>2. Current[i].address \in Addresses
      BY <2>1, DevicesAssumption DEF Init, Current
    <2>3. NoneRepeated(Current)
      BY <2>1, DevicesRepeatNone DEF Init, Current, DevicesRepeatNone
    <2> QED
      BY <1>2, <2>2, <2>3 DEF NoneRepeated
  <1>5. Kept
    BY DEF Init, Kept
  <1> QED
    BY <1>1, <1>3, <1>4, <1>5 DEF TablesInv

\* In a configuration that suits the chip, no number is used twice, since its
\* two directions are not.
LEMMA CompatibleNumbers ==
    ASSUME NEW c, Compatible(c), NoneRepeated(c),
           NEW i \in DOMAIN c, NEW j \in DOMAIN c,
           c[i].address \in Addresses, c[j].address \in Addresses,
           Number(c[i].address) = Number(c[j].address)
    PROVE  i = j
  <1> DEFINE n == Number(c[i].address)
             used == {k \in DOMAIN c : Number(c[k].address) = n}
  <1>1. PICK direction \in {ToDevice, ToHost} :
            SourceProperties(c, n).directions = {direction}
    BY DEF Compatible
  <1>2. SourceProperties(c, n).directions = {Direction(c[k].address) : k \in used}
    BY DEF SourceProperties
  <1>3. i \in used /\ j \in used
    OBVIOUS
  <1>4. Direction(c[i].address) = direction /\ Direction(c[j].address) = direction
    BY <1>1, <1>2, <1>3
  <1>5. c[i].address = c[j].address
    BY <1>4, AddressParts
  <1> QED
    BY <1>5 DEF NoneRepeated

\* The number of a new entry is the number of no other entry.
LEMMA NumberIsNew ==
    ASSUME TablesInv, FirstRead, endpointIndex \in DOMAIN Current,
           Configured(configurationIndex, found, number)
    PROVE  /\ Number(fixed.address) \in 1..MaxEndpoints
           /\ \A i \in DOMAIN endpoints :
                 Number(endpoints[i].number) # Number(fixed.address)
  <1>1. /\ configurationIndex <= Len(configurations)
        /\ TypeInv
        /\ endpointIndex \in Nat \ {0}
        /\ Len(Current) \in Nat
    <2>1. TypeInv /\ configurationIndex <= Len(configurations)
      BY DEF TablesInv, FirstRead
    <2>2. Current \in Seq(Descriptors)
      BY <2>1, FoundTyped
    <2> QED
      BY <2>1, <2>2
  <1>2. fixed.address \in Addresses
    BY <1>1, FixedAddress
  <1>3. \A i \in DOMAIN endpoints : endpoints[i].number \in Addresses
    <2>1. endpoints \in Seq(Entries)
      BY <1>1 DEF TypeInv, TypeOK, Entries
    <2>2. \A i \in DOMAIN endpoints : endpoints[i] \in Entries
      BY <2>1
    <2> QED
      BY <2>2 DEF Entries
  <1>4. CASE renumber
    <2>1. Number(fixed.address) = endpointNumber + 1
      BY <1>1, <1>4, FixedAddress DEF number
    <2>2. \A i \in DOMAIN endpoints : Number(endpoints[i].number) <= endpointNumber
      BY <1>4 DEF TablesInv, Renumbered
    <2>3. endpointNumber \in Nat
      BY <1>1 DEF TypeInv, TypeOK
    <2>4. endpointNumber + 1 <= MaxEndpoints
      BY <1>4 DEF Configured, number
    <2>5. \A i \in DOMAIN endpoints : Number(endpoints[i].number) \in Numbers
      BY <1>3, AddressParts
    <2> QED
      BY <2>1, <2>2, <2>3, <2>4, <2>5, SizesAssumption DEF Numbers
  <1>5. CASE ~renumber
    <2>1. fixed = Current[endpointIndex]
      BY <1>1, <1>5, FoundTyped DEF found
    <2>2. /\ Compatible(Current)
          /\ NoneRepeated(Current)
          /\ \A i \in DOMAIN endpoints : \E j \in DOMAIN Current :
                j < endpointIndex /\ endpoints[i].number = Current[j].address
      BY <1>1, <1>5 DEF TablesInv, Kept
    <2>3. Number(fixed.address) <= MaxEndpoints
      BY <2>1, <2>2 DEF Compatible
    <2>4. Number(fixed.address) \in Numbers
      BY <1>2, AddressParts
    <2>5. ASSUME NEW i \in DOMAIN endpoints,
                 Number(endpoints[i].number) = Number(fixed.address)
          PROVE  FALSE
      <3>1. PICK j \in DOMAIN Current :
                j < endpointIndex /\ endpoints[i].number = Current[j].address
        BY <2>2
      <3>2. j = endpointIndex
        BY <1>2, <1>3, <2>1, <2>2, <2>5, <3>1, CompatibleNumbers
      <3> QED
        BY <1>1, <3>1, <3>2
    <2> QED
      BY <2>3, <2>4, <2>5, SizesAssumption DEF Numbers
  <1> QED
    BY <1>4, <1>5

\* An iteration that adds an entry.
LEMMA EntryAdded ==
    ASSUME TablesInv, FirstRead, FixEndpoint, TypeInv',
           Configured(configurationIndex, found, number)
    PROVE  EntriesOnChip' /\ NumbersDiffer' /\ TablesInverse'
  <1> DEFINE entry == [number |-> fixed.address, type |-> fixed.type, size |-> fixed.size]
             n == Len(endpoints)
  <1>1. /\ TypeInv
        /\ configurationIndex <= Len(configurations)
        /\ endpointIndex \in DOMAIN Current
        /\ AddEndpoint(found.address, fixed)
    BY FixEndpointSteps DEF TablesInv, FirstRead
  <1>2. /\ fixed.address \in Addresses
        /\ found.address \in Addresses
        /\ fixed.type = found.type
        /\ fixed.size = found.size
    BY <1>1, FixedAddress, FoundTyped
  <1>3. /\ endpoints \in Seq(Entries)
        /\ entry \in Entries
        /\ usbToSerial \in [Addresses -> Addresses \union {0}]
        /\ serialToUsb \in [Addresses -> Addresses \union {0}]
    BY <1>1, <1>2, FoundTyped DEF TypeInv, TypeOK, Entries, Descriptors
  <1>4. /\ endpoints' = Append(endpoints, entry)
        /\ usbToSerial' = [usbToSerial EXCEPT ![found.address] = fixed.address]
        /\ serialToUsb' = [serialToUsb EXCEPT ![fixed.address] = found.address]
    BY <1>1 DEF AddEndpoint
  <1>5. /\ entry.number = fixed.address
        /\ entry.type = "interrupt"
        /\ entry.size <= MaxPayloadSize
    BY <1>2 DEF Configured
  <1> HIDE DEF entry
  <1>6. /\ n \in Nat
        /\ DOMAIN endpoints = 1..n
        /\ DOMAIN endpoints' = 1..(n + 1)
        /\ endpoints'[n + 1] = entry
        /\ \A i \in 1..n : endpoints'[i] = endpoints[i] /\ endpoints[i] \in Entries
    BY <1>3, <1>4
  <1>7. /\ Number(fixed.address) \in 1..MaxEndpoints
        /\ \A i \in 1..n : Number(endpoints[i].number) # Number(fixed.address)
    BY <1>1, <1>6, NumberIsNew
  <1>8. EntriesOnChip'
    <2> SUFFICES ASSUME NEW i \in 1..(n + 1)
                 PROVE  /\ Number(endpoints'[i].number) \in 1..MaxEndpoints
                        /\ endpoints'[i].type = "interrupt"
                        /\ endpoints'[i].size <= MaxPayloadSize
      BY <1>6 DEF EntriesOnChip
    <2>1. CASE i = n + 1
      BY <1>5, <1>6, <1>7, <2>1
    <2>2. CASE i \in 1..n
      BY <1>6, <2>2 DEF TablesInv, EntriesOnChip
    <2> QED
      BY <1>6, <2>1, <2>2
  <1>9. NumbersDiffer'
    <2> SUFFICES ASSUME NEW i \in 1..(n + 1), NEW j \in 1..(n + 1),
                        Number(endpoints'[i].number) = Number(endpoints'[j].number)
                 PROVE  i = j
      BY <1>6 DEF NumbersDiffer
    <2>1. CASE i \in 1..n /\ j \in 1..n
      BY <1>6, <2>1 DEF TablesInv, NumbersDiffer
    <2>2. CASE i = n + 1 \/ j = n + 1
      BY <1>5, <1>6, <1>7, <2>2
    <2> QED
      BY <1>6, <2>1, <2>2
  <1>10. TablesInverse'
    <2>1. usbToSerial[found.address] = 0
      <3>1. endpointIndex \in Nat
        BY <1>1 DEF TypeInv, TypeOK
      <3> QED
        BY <1>1, <3>1 DEF TablesInv, Unread, found
    <2>2. fixed.address # 0
      BY <1>2, AddressParts
    <2>3. \A i \in 1..n : endpoints[i].number \in Addresses
                          /\ endpoints[i].number # fixed.address
      BY <1>6, <1>7 DEF Entries
    <2>4. ASSUME NEW i \in 1..(n + 1)
          PROVE  /\ serialToUsb'[endpoints'[i].number] # 0
                 /\ usbToSerial'[serialToUsb'[endpoints'[i].number]] = endpoints'[i].number
      <3>1. CASE i = n + 1
        <4>1. serialToUsb'[fixed.address] = found.address /\ found.address # 0
          BY <1>2, <1>3, <1>4, AddressParts
        <4> QED
          BY <1>2, <1>3, <1>4, <1>5, <1>6, <3>1, <4>1
      <3>2. CASE i \in 1..n
        <4> DEFINE a == endpoints[i].number
                   e == serialToUsb[a]
        <4>1. e # 0 /\ usbToSerial[e] = a
          BY <1>6, <3>2 DEF TablesInv, TablesInverse
        <4>2. a \in Addresses /\ a # fixed.address /\ a # 0
          BY <2>3, <3>2, AddressParts
        <4>3. serialToUsb'[a] = e /\ e \in Addresses
          BY <1>2, <1>3, <1>4, <4>1, <4>2
        <4>4. e # found.address
          BY <2>1, <4>1, <4>2
        <4> QED
          BY <1>2, <1>3, <1>4, <1>6, <3>2, <4>1, <4>3, <4>4
      <3> QED
        BY <1>6, <3>1, <3>2
    <2>5. ASSUME NEW a \in Addresses, usbToSerial'[a] # 0
          PROVE  /\ serialToUsb'[usbToSerial'[a]] = a
                 /\ \E i \in 1..(n + 1) : endpoints'[i].number = usbToSerial'[a]
      <3>1. CASE a = found.address
        <4>1. usbToSerial'[a] = fixed.address
          BY <1>2, <1>3, <1>4, <3>1
        <4>2. endpoints'[n + 1].number = usbToSerial'[a] /\ n + 1 \in 1..(n + 1)
          BY <1>5, <1>6, <4>1
        <4> QED
          BY <1>2, <1>3, <1>4, <3>1, <4>1, <4>2
      <3>2. CASE a # found.address
        <4>1. usbToSerial'[a] = usbToSerial[a]
          BY <1>2, <1>3, <1>4, <3>2
        <4>2. /\ serialToUsb[usbToSerial[a]] = a
              /\ \E i \in 1..n : endpoints[i].number = usbToSerial[a]
          BY <1>6, <2>5, <4>1 DEF TablesInv, TablesInverse
        <4>3. PICK i \in 1..n : endpoints[i].number = usbToSerial[a]
          BY <4>2
        <4>4. serialToUsb'[usbToSerial[a]] = serialToUsb[usbToSerial[a]]
          BY <1>2, <1>3, <1>4, <2>3, <4>3
        <4>5. i \in 1..(n + 1) /\ endpoints'[i].number = usbToSerial[a]
          BY <1>6, <4>3
        <4> QED
          BY <4>1, <4>2, <4>4, <4>5
      <3> QED
        BY <3>1, <3>2
    <2> QED
      BY <1>6, <2>4, <2>5 DEF TablesInverse
  <1> QED
    BY <1>8, <1>9, <1>10

LEMMA TablesFixEndpoint == TablesInv /\ FixEndpoint /\ TypeInv' => TablesInv'
  <1> SUFFICES ASSUME TablesInv, FixEndpoint, TypeInv' PROVE TablesInv'
    OBVIOUS
  <1>1. /\ TypeInv
        /\ configurationIndex <= Len(configurations)
        /\ endpointIndex \in DOMAIN Current
        /\ StoreDescriptor(fixed)
        /\ endpointNumber' = number
        /\ endpointIndex' = endpointIndex + 1
        /\ configurationIndex' = configurationIndex
        /\ renumber' = renumber
    BY FixEndpointSteps DEF TablesInv
  <1>2. /\ endpointIndex \in Nat \ {0}
        /\ Current \in Seq(Descriptors)
        /\ endpointNumber \in Nat
        /\ FirstRead' <=> FirstRead
        /\ Len(Current') = Len(Current)
        /\ DOMAIN Current' = DOMAIN Current
        /\ \A i \in DOMAIN Current :
              Current'[i] = IF i = endpointIndex THEN fixed ELSE Current[i]
    <2>1. Current \in Seq(Descriptors) /\ endpointNumber \in Nat
      BY <1>1, FoundTyped DEF TypeInv, TypeOK
    <2>2. endpointIndex \in Nat \ {0}
      BY <1>1, <2>1
    <2>3. /\ Len(configurations') = Len(configurations)
          /\ configurationIndex \in DOMAIN configurations
          /\ configurations' \in Seq(Seq(Descriptors))
      BY <1>1, Stored, FoundTyped
    <2>4. Current' = configurations'[configurationIndex]
      BY <1>1 DEF Current
    <2>5. Current' \in Seq(Descriptors)
      BY <2>3, <2>4
    <2>6. /\ Len(Current') = Len(Current)
          /\ \A i \in DOMAIN Current :
                Current'[i] = IF i = endpointIndex THEN fixed ELSE Current[i]
      BY <1>1, <2>3, <2>4, Stored DEF Current
    <2>7. FirstRead' <=> FirstRead
      BY <1>1, <2>3 DEF FirstRead
    <2> QED
      BY <2>1, <2>2, <2>5, <2>6, <2>7
  <1>3. CASE ~Configured(configurationIndex, found, number)
    <2>1. UNCHANGED tables
      BY <1>3, FixEndpointSteps
    <2>2. EntriesOnChip' /\ NumbersDiffer' /\ TablesInverse'
      BY <2>1 DEF tables, TablesInv, EntriesOnChip, NumbersDiffer, TablesInverse
    <2>3. Unread'
      BY <1>1, <1>2, <2>1 DEF tables, TablesInv, Unread
    <2>4. NothingYet'
      BY <1>1, <1>2 DEF NothingYet
    <2>5. Renumbered'
      <3> SUFFICES ASSUME FirstRead, renumber, NEW i \in DOMAIN endpoints
                   PROVE  Number(endpoints[i].number) <= number
        BY <1>1, <1>2, <2>1 DEF tables, Renumbered
      <3>1. Number(endpoints[i].number) <= endpointNumber
        BY DEF TablesInv, Renumbered
      <3>2. endpoints[i].number \in Addresses
        <4>1. endpoints \in Seq(Entries)
          BY <1>1 DEF TypeInv, TypeOK, Entries
        <4>2. endpoints[i] \in Entries
          BY <4>1
        <4> QED
          BY <4>2 DEF Entries
      <3>3. Number(endpoints[i].number) \in Nat
        BY <3>2, AddressParts DEF Numbers
      <3> QED
        BY <1>2, <3>1, <3>3 DEF number
    <2>6. Kept'
      <3> SUFFICES ASSUME FirstRead, ~renumber
                   PROVE  /\ Compatible(Current)'
                          /\ NoneRepeated(Current)'
                          /\ \A i \in DOMAIN endpoints : \E j \in DOMAIN Current :
                                /\ j < endpointIndex + 1
                                /\ endpoints[i].number = Current'[j].address
        BY <1>1, <1>2, <2>1 DEF tables, Kept
      <3>1. Current' = Current
        BY <1>1, KeptDescriptors
      <3>2. /\ Compatible(Current)
            /\ NoneRepeated(Current)
            /\ \A i \in DOMAIN endpoints : \E j \in DOMAIN Current :
                  j < endpointIndex /\ endpoints[i].number = Current[j].address
        BY <1>2 DEF TablesInv, Kept
      <3>3. \A j \in DOMAIN Current : j < endpointIndex => j < endpointIndex + 1
        BY <1>2
      <3> QED
        BY <3>1, <3>2, <3>3, SameConfiguration
    <2> QED
      BY <2>2, <2>3, <2>4, <2>5, <2>6 DEF TablesInv
  <1>4. CASE Configured(configurationIndex, found, number)
    <2>1. FirstRead
      BY <1>1, <1>4 DEF Configured, FirstRead
    <2>2. EntriesOnChip' /\ NumbersDiffer' /\ TablesInverse'
      BY <1>4, <2>1, EntryAdded
    <2>3. /\ fixed.address \in Addresses
          /\ found.address \in Addresses
          /\ renumber => Number(fixed.address) = number
          /\ ~renumber => fixed = found
      BY <1>1, <1>4, FixedAddress, FoundTyped
    <2>4. /\ usbToSerial' = [usbToSerial EXCEPT ![found.address] = fixed.address]
          /\ endpoints' = Append(endpoints, [number |-> fixed.address,
                                             type |-> fixed.type,
                                             size |-> fixed.size])
      BY <1>4, FixEndpointSteps DEF AddEndpoint
    <2>5. /\ endpoints \in Seq(Entries)
          /\ usbToSerial \in [Addresses -> Addresses \union {0}]
      BY <1>1 DEF TypeInv, TypeOK, Entries
    <2>6. /\ DOMAIN endpoints' = 1..(Len(endpoints) + 1)
          /\ endpoints'[Len(endpoints) + 1].number = fixed.address
          /\ \A i \in 1..Len(endpoints) :
                endpoints'[i] = endpoints[i] /\ endpoints[i] \in Entries
      BY <2>4, <2>5
    <2>7. Unread'
      <3> SUFFICES ASSUME NEW i \in DOMAIN Current, i >= endpointIndex + 1
                   PROVE  /\ usbToSerial'[Current'[i].address] = 0
                          /\ \A j \in DOMAIN Current :
                                j >= endpointIndex + 1
                                /\ Current'[j].address = Current'[i].address => i = j
        BY <1>1, <1>2 DEF Unread
      <3>1. Current'[i] = Current[i] /\ i # endpointIndex /\ i >= endpointIndex
        BY <1>2
      <3>2. /\ usbToSerial[Current[i].address] = 0
            /\ \A j \in DOMAIN Current :
                  j >= endpointIndex /\ Current[j].address = Current[i].address => i = j
        BY <2>1, <3>1 DEF TablesInv, Unread
      <3>3. Current[i].address # found.address
        BY <1>1, <1>2, <3>1, <3>2 DEF found
      <3>4. usbToSerial'[Current[i].address] = usbToSerial[Current[i].address]
        BY <2>3, <2>4, <2>5, <3>3
      <3>5. \A j \in DOMAIN Current : j >= endpointIndex + 1 =>
                Current'[j] = Current[j] /\ j >= endpointIndex
        BY <1>2
      <3> QED
        BY <3>1, <3>2, <3>4, <3>5
    <2>8. NothingYet'
      BY <1>1, <1>2 DEF NothingYet
    <2>9. Renumbered'
      <3> SUFFICES ASSUME renumber, NEW i \in 1..(Len(endpoints) + 1)
                   PROVE  Number(endpoints'[i].number) <= endpointNumber + 1
        BY <1>1, <1>2, <2>6 DEF Renumbered, number
      <3>1. CASE i = Len(endpoints) + 1
        BY <1>2, <2>3, <2>6, <3>1 DEF number
      <3>2. CASE i \in 1..Len(endpoints)
        <4>1. Number(endpoints[i].number) <= endpointNumber
          BY <2>1, <2>5, <3>2 DEF TablesInv, Renumbered
        <4>2. endpoints[i].number \in Addresses
          BY <2>6, <3>2 DEF Entries
        <4>3. Number(endpoints[i].number) \in Nat
          BY <4>2, AddressParts DEF Numbers
        <4> QED
          BY <1>2, <2>6, <3>2, <4>1, <4>3
      <3> QED
        BY <2>5, <3>1, <3>2
    <2>10. Kept'
      <3> SUFFICES ASSUME ~renumber
                   PROVE  /\ Compatible(Current)'
                          /\ NoneRepeated(Current)'
                          /\ \A i \in 1..(Len(endpoints) + 1) : \E j \in DOMAIN Current :
                                /\ j < endpointIndex + 1
                                /\ endpoints'[i].number = Current'[j].address
        BY <1>1, <1>2, <2>6 DEF Kept
      <3>1. Current' = Current
        BY <1>1, KeptDescriptors
      <3>2. /\ Compatible(Current)
            /\ NoneRepeated(Current)
            /\ \A i \in 1..Len(endpoints) : \E j \in DOMAIN Current :
                  j < endpointIndex /\ endpoints[i].number = Current[j].address
        BY <1>2, <2>1, <2>5 DEF TablesInv, Kept
      <3>3. \A j \in DOMAIN Current : j < endpointIndex => j < endpointIndex + 1
        BY <1>2
      <3>4. endpoints'[Len(endpoints) + 1].number = Current[endpointIndex].address
        BY <2>3, <2>6 DEF found
      <3>5. \A i \in 1..(Len(endpoints) + 1) :
                i \in 1..Len(endpoints) \/ i = Len(endpoints) + 1
        BY <2>5
      <3>6. \A i \in 1..(Len(endpoints) + 1) : \E j \in DOMAIN Current :
                j < endpointIndex + 1 /\ endpoints'[i].number = Current[j].address
        BY <1>1, <1>2, <2>6, <3>2, <3>3, <3>4, <3>5
      <3> QED
        BY <3>1, <3>2, <3>6, SameConfiguration
    <2> QED
      BY <2>2, <2>7, <2>8, <2>9, <2>10 DEF TablesInv
  <1> QED
    BY <1>3, <1>4

LEMMA TablesStep == TablesInv /\ [Next]_vars => TablesInv'
  <1> SUFFICES ASSUME TablesInv, [Next]_vars PROVE TablesInv'
    OBVIOUS
  <1>1. TypeInv /\ TypeInv'
    BY TypeStep DEF TablesInv
  <1>2. CASE CompareProperties
    <2>1. /\ Current' = Current
          /\ endpointIndex = 0 /\ endpointIndex' = 1 /\ endpointNumber' = 0
          /\ renumber' = ~Compatible(Current)
          /\ UNCHANGED <<configurations, configurationIndex>>
          /\ UNCHANGED <<endpoints, usbToSerial, serialToUsb>>
      BY <1>2 DEF CompareProperties, Current, tables
    <2>2. FirstRead' <=> FirstRead
      BY <2>1 DEF FirstRead
    <2>3. EntriesOnChip' /\ NumbersDiffer' /\ TablesInverse'
      BY <2>1 DEF TablesInv, EntriesOnChip, NumbersDiffer, TablesInverse
    <2>4. configurationIndex \in DOMAIN configurations /\ Current \in Seq(Descriptors)
      BY <1>1, <1>2 DEF CompareProperties, TypeInv, TypeOK, Current
    <2>5. \A i \in DOMAIN Current : i >= 1 /\ i >= 0
      BY <2>4
    <2>6. FirstRead => endpoints = << >> /\ NoneRepeated(Current)
      BY <2>1, <2>5 DEF TablesInv, NothingYet, Unread, NoneRepeated
    <2>7. Unread'
      <3> SUFFICES ASSUME FirstRead, NEW i \in DOMAIN Current
                   PROVE  /\ usbToSerial[Current[i].address] = 0
                          /\ \A j \in DOMAIN Current :
                                Current[j].address = Current[i].address => i = j
        BY <2>1, <2>2 DEF Unread
      <3> QED
        BY <2>1, <2>5 DEF TablesInv, Unread
    <2>8. NothingYet' /\ Renumbered' /\ Kept'
      <3>1. NothingYet'
        BY <2>1 DEF NothingYet
      <3>2. Renumbered'
        BY <2>1, <2>2, <2>6 DEF Renumbered
      <3>3. FirstRead /\ ~renumber' => /\ Compatible(Current)'
                                       /\ NoneRepeated(Current)'
                                       /\ endpoints' = << >>
        BY <2>1, <2>6, SameConfiguration
      <3>4. Kept'
        BY <2>2, <3>3 DEF Kept
      <3> QED
        BY <3>1, <3>2, <3>4
    <2> QED
      BY <1>1, <2>3, <2>7, <2>8 DEF TablesInv
  <1>3. CASE FixEndpoint
    BY <1>1, <1>3, TablesFixEndpoint
  <1>4. CASE NextConfiguration
    <2>1. ~FirstRead'
      BY <1>1, <1>4 DEF NextConfiguration, FirstRead, TypeInv, TypeOK
    <2>2. UNCHANGED <<endpoints, usbToSerial, serialToUsb>>
      BY <1>4 DEF NextConfiguration, tables
    <2>3. EntriesOnChip' /\ NumbersDiffer' /\ TablesInverse'
      BY <2>2 DEF TablesInv, EntriesOnChip, NumbersDiffer, TablesInverse
    <2>4. Unread' /\ NothingYet' /\ Renumbered' /\ Kept'
      BY <2>1 DEF Unread, NothingYet, Renumbered, Kept
    <2> QED
      BY <1>1, <2>3, <2>4 DEF TablesInv
  <1>5. CASE UNCHANGED vars
    <2>1. Current' = Current /\ (FirstRead' <=> FirstRead)
      BY <1>5 DEF vars, Current, FirstRead
    <2>2. EntriesOnChip' /\ NumbersDiffer' /\ TablesInverse'
      BY <1>5 DEF vars, tables, TablesInv, EntriesOnChip, NumbersDiffer, TablesInverse
    <2>3. Unread' /\ NothingYet' /\ Renumbered'
      BY <1>5, <2>1 DEF vars, tables, TablesInv, Unread, NothingYet, Renumbered
    <2>4. Kept'
      BY <1>5, <2>1, SameConfiguration DEF vars, tables, TablesInv, Kept
    <2> QED
      BY <1>1, <2>2, <2>3, <2>4 DEF TablesInv
  <1> QED
    BY <1>2, <1>3, <1>4, <1>5 DEF Next

\* Entries with different numbers of 1..MaxEndpoints are no more than that.
LEMMA Pigeonhole == TablesInv => TableFits
  <1> SUFFICES ASSUME TablesInv PROVE TableFits
    OBVIOUS
  <1> DEFINE S == 1..Len(endpoints)
             T == 1..MaxEndpoints
             f == [i \in S |-> Number(endpoints[i].number)]
  <1>1. endpoints \in Seq(Entries) /\ Len(endpoints) \in Nat /\ DOMAIN endpoints = S
    <2>1. endpoints \in Seq(Entries)
      BY DEF TablesInv, TypeInv, TypeOK, Entries
    <2> QED
      BY <2>1
  <1>2. f \in [S -> T]
    BY <1>1 DEF TablesInv, EntriesOnChip
  <1>3. \A i, j \in S : f[i] = f[j] => i = j
    BY <1>1 DEF TablesInv, NumbersDiffer
  <1>4. f \in Injection(S, T)
    BY <1>2, <1>3, Zenon DEF Injection, IsInjective
  <1>5. MaxEndpoints \in Nat
    BY SizesAssumption DEF Numbers
  <1>6. IsFiniteSet(T) /\ Cardinality(T) = MaxEndpoints
    BY <1>5, FS_Interval
  <1>7. Cardinality(S) = Len(endpoints)
    BY <1>1, FS_Interval
  <1>8. Cardinality(S) <= Cardinality(T)
    BY <1>4, <1>6, FS_Injection
  <1> QED
    BY <1>6, <1>7, <1>8 DEF TableFits

THEOREM AlwaysTables == ASSUME DevicesRepeatNone PROVE Spec => []TablesInv
  <1>1. Init => TablesInv
    BY DevicesRepeatNone, TablesInit
  <1> QED
    BY <1>1, TablesStep, PTL DEF Spec

\* For devices that list no endpoint twice every endpoint that the firmware is told
\* to configure is one that the atmega32u4 has, and none is configured twice.
THEOREM TableOnChip == ASSUME DevicesRepeatNone PROVE Spec => []EmulatedOnChip
  <1>1. TablesInv => EmulatedOnChip
    BY DEF TablesInv, EntriesOnChip, NumbersDiffer, EmulatedOnChip
  <1> QED
    BY <1>1, DevicesRepeatNone, AlwaysTables, PTL

\* For devices that list no endpoint twice, the premise of TableFits, the endpoint
\* table is never written beyond its MAX_ENDPOINTS places, whether or not the
\* endpoints are renumbered.
THEOREM TableWithinArray == Spec => []TableFits
  <1>1. CASE DevicesRepeatNone
    BY <1>1, Pigeonhole, AlwaysTables, PTL
  <1>2. CASE ~DevicesRepeatNone
    <2>1. TableFits
      BY <1>2 DEF TableFits
    <2> QED
      BY <2>1, PTL
  <1> QED
    BY <1>1, <1>2

\* For devices that list no endpoint twice the translation tables are inverse to
\* each other, as Endpoints assumes.
THEOREM TranslationsInverse == ASSUME DevicesRepeatNone PROVE Spec => []TablesInverse
  <1>1. TablesInv => TablesInverse
    BY DEF TablesInv
  <1> QED
    BY <1>1, DevicesRepeatNone, AlwaysTables, PTL

(***************************************************************************)
(* The descriptors.  Those of the first configuration that have been read  *)
(* bear the number of their position when endpoints are renumbered, which  *)
(* is less than ToHost, so that no number runs into the direction bit.     *)
(***************************************************************************)
First == configurations[1]
Read(j) == configurationIndex > 1 \/ j < endpointIndex

Bounded == \A c \in DOMAIN configurations : Len(configurations[c]) < ToHost

Counted ==
    FirstRead /\ endpointIndex > 0 =>
        endpointNumber = IF renumber THEN endpointIndex - 1 ELSE 0

Proxied ==
    1 \in DOMAIN configurations /\ Len(First) <= MaxEndpoints =>
        \A j \in DOMAIN First :
            Read(j) /\ First[j].type = "interrupt" /\ First[j].size <= MaxPayloadSize =>
                \E i \in DOMAIN endpoints : endpoints[i].number = First[j].address

ProxiedInv == TypeInv /\ Bounded /\ Counted /\ Proxied

LEMMA LoopsWithin ==
    ASSUME TypeInv
    PROVE  /\ configurations \in Seq(Seq(Descriptors))
           /\ Len(configurations) \in Nat
           /\ DOMAIN configurations = 1..Len(configurations)
           /\ configurationIndex \in 1..(Len(configurations) + 1)
           /\ endpointIndex \in Nat /\ endpointNumber \in Nat /\ renumber \in BOOLEAN
           /\ \A c \in DOMAIN configurations :
                 /\ configurations[c] \in Seq(Descriptors)
                 /\ Len(configurations[c]) \in Nat
                 /\ DOMAIN configurations[c] = 1..Len(configurations[c])
           /\ endpoints \in Seq(Entries) /\ DOMAIN endpoints = 1..Len(endpoints)
           /\ Len(endpoints) \in Nat
  <1>1. configurations \in Seq(Seq(Descriptors)) /\ endpoints \in Seq(Entries)
    BY DEF TypeInv, TypeOK, Entries
  <1>2. \A c \in DOMAIN configurations : configurations[c] \in Seq(Descriptors)
    BY <1>1
  <1> QED
    BY <1>1, <1>2 DEF TypeInv, TypeOK

\* The new entry, if there is one.
LEMMA EntryFacts ==
    ASSUME TypeInv, FixEndpoint
    PROVE  /\ endpoints' = endpoints
              \/ /\ Configured(configurationIndex, found, number)
                 /\ endpoints' = Append(endpoints, [number |-> fixed.address,
                                                    type |-> fixed.type,
                                                    size |-> fixed.size])
           /\ DOMAIN endpoints \subseteq DOMAIN endpoints'
           /\ \A i \in DOMAIN endpoints : endpoints'[i] = endpoints[i]
           /\ Configured(configurationIndex, found, number) =>
                 \E i \in DOMAIN endpoints' : endpoints'[i].number = fixed.address
  <1> DEFINE entry == [number |-> fixed.address, type |-> fixed.type, size |-> fixed.size]
  <1>1. endpoints \in Seq(Entries) /\ Len(endpoints) \in Nat
    BY LoopsWithin
  <1>2. CASE Configured(configurationIndex, found, number)
    <2>1. endpoints' = Append(endpoints, entry)
      BY <1>2, FixEndpointSteps DEF AddEndpoint
    <2>2. entry.number = fixed.address
      OBVIOUS
    <2> HIDE DEF entry
    <2>3. /\ DOMAIN endpoints \subseteq DOMAIN endpoints'
          /\ \A i \in DOMAIN endpoints : endpoints'[i] = endpoints[i]
          /\ Len(endpoints) + 1 \in DOMAIN endpoints'
          /\ endpoints'[Len(endpoints) + 1] = entry
      BY <1>1, <2>1
    <2> QED
      BY <1>2, <2>1, <2>2, <2>3 DEF entry
  <1>3. CASE ~Configured(configurationIndex, found, number)
    BY <1>3, FixEndpointSteps DEF tables
  <1> QED
    BY <1>2, <1>3

LEMMA ProxiedInit == Init => ProxiedInv
  <1> SUFFICES ASSUME Init PROVE ProxiedInv
    OBVIOUS
  <1>1. TypeInv
    BY TypeInit
  <1>2. Bounded
    BY DevicesAssumption DEF Init, Bounded
  <1>3. Counted
    BY DEF Init, Counted
  <1>4. Proxied
    BY <1>1, LoopsWithin DEF Init, Proxied, Read, First
  <1> QED
    BY <1>1, <1>2, <1>3, <1>4 DEF ProxiedInv

LEMMA ProxiedFixEndpoint == ProxiedInv /\ FixEndpoint /\ TypeInv' => ProxiedInv'
  <1> SUFFICES ASSUME ProxiedInv, FixEndpoint, TypeInv' PROVE ProxiedInv'
    OBVIOUS
  <1>1. /\ TypeInv
        /\ configurationIndex <= Len(configurations)
        /\ endpointIndex \in DOMAIN Current
        /\ StoreDescriptor(fixed)
        /\ endpointNumber' = number
        /\ endpointIndex' = endpointIndex + 1
        /\ configurationIndex' = configurationIndex
        /\ renumber' = renumber
    BY FixEndpointSteps DEF ProxiedInv
  <1>2. /\ endpointIndex \in Nat \ {0}
        /\ configurationIndex \in DOMAIN configurations
        /\ DOMAIN configurations' = DOMAIN configurations
        /\ Len(configurations') = Len(configurations)
    BY <1>1, LoopsWithin, FoundTyped, Stored DEF Current
  <1>3. \A c \in DOMAIN configurations :
            /\ Len(configurations'[c]) = Len(configurations[c])
            /\ DOMAIN configurations'[c] = DOMAIN configurations[c]
            /\ \A i \in DOMAIN configurations[c] :
                  configurations'[c][i] =
                      IF c = configurationIndex /\ i = endpointIndex
                      THEN fixed ELSE configurations[c][i]
    <2>1. configurations' \in Seq(Seq(Descriptors)) /\ configurations \in Seq(Seq(Descriptors))
      BY <1>1, Stored, LoopsWithin
    <2>2. \A c \in DOMAIN configurations :
              configurations'[c] \in Seq(Descriptors) /\ configurations[c] \in Seq(Descriptors)
      BY <1>2, <2>1
    <2> QED
      BY <1>1, <2>2, Stored
  <1>4. Bounded'
    BY <1>2, <1>3 DEF ProxiedInv, Bounded
  <1>5. Counted'
    BY <1>1, <1>2 DEF ProxiedInv, Counted, FirstRead, number
  <1>6. Proxied'
    <2> SUFFICES ASSUME 1 \in DOMAIN configurations, Len(First) <= MaxEndpoints,
                        NEW j \in DOMAIN First, Read(j)',
                        First'[j].type = "interrupt", First'[j].size <= MaxPayloadSize
                 PROVE  \E i \in DOMAIN endpoints' : endpoints'[i].number = First'[j].address
      BY <1>2, <1>3 DEF Proxied, First
    <2>1. CASE configurationIndex = 1 /\ j = endpointIndex
      <3>1. First'[j] = fixed
        BY <1>3, <2>1 DEF First
      <3>2. number <= MaxEndpoints
        <4>1. number \in {0, endpointIndex}
          BY <1>1, <1>2, <2>1 DEF ProxiedInv, Counted, FirstRead, number
        <4>2. endpointIndex <= Len(First) /\ Len(First) \in Nat
          BY <1>1, <2>1, LoopsWithin DEF First
        <4> QED
          BY <1>2, <4>1, <4>2, SizesAssumption DEF Numbers
      <3>3. Configured(configurationIndex, found, number)
        BY <1>1, <2>1, <3>1, <3>2, FoundTyped DEF Configured
      <3> QED
        BY <1>1, <3>1, <3>3, EntryFacts
    <2>2. CASE ~(configurationIndex = 1 /\ j = endpointIndex)
      <3>1. First'[j] = First[j]
        BY <1>3, <2>2 DEF First
      <3>2. Read(j)
        <4>1. j \in Nat
          BY <1>1, LoopsWithin DEF First
        <4> QED
          BY <1>1, <1>2, <2>2, <4>1, LoopsWithin DEF Read
      <3>3. PICK i \in DOMAIN endpoints : endpoints[i].number = First[j].address
        BY <3>1, <3>2 DEF ProxiedInv, Proxied
      <3> QED
        BY <1>1, <3>1, <3>3, EntryFacts
    <2> QED
      BY <2>1, <2>2
  <1> QED
    BY <1>4, <1>5, <1>6 DEF ProxiedInv

LEMMA ProxiedStep == ProxiedInv /\ [Next]_vars => ProxiedInv'
  <1> SUFFICES ASSUME ProxiedInv, [Next]_vars PROVE ProxiedInv'
    OBVIOUS
  <1>1. TypeInv /\ TypeInv'
    BY TypeStep DEF ProxiedInv
  <1>2. CASE CompareProperties
    <2>1. /\ UNCHANGED <<configurations, configurationIndex, endpoints>>
          /\ endpointIndex = 0 /\ endpointIndex' = 1 /\ endpointNumber' = 0
          /\ renumber' \in BOOLEAN
      BY <1>1, <1>2 DEF CompareProperties, tables, TypeInv, TypeOK
    <2>2. Bounded' /\ Counted'
      BY <2>1 DEF ProxiedInv, Bounded, Counted
    <2>3. \A j \in Nat \ {0} : Read(j)' => Read(j)
      BY <2>1 DEF Read
    <2>4. Proxied'
      <3> SUFFICES ASSUME 1 \in DOMAIN configurations
                   PROVE  \A j \in DOMAIN First : Read(j)' => Read(j)
        BY <2>1 DEF ProxiedInv, Proxied, First
      <3>1. DOMAIN First = 1..Len(First) /\ Len(First) \in Nat
        BY <1>1, LoopsWithin DEF First
      <3> QED
        BY <2>3, <3>1
    <2> QED
      BY <1>1, <2>2, <2>4 DEF ProxiedInv
  <1>3. CASE FixEndpoint
    BY <1>1, <1>3, ProxiedFixEndpoint
  <1>4. CASE NextConfiguration
    <2>1. /\ UNCHANGED <<configurations, endpoints>>
          /\ configurationIndex' = configurationIndex + 1 /\ endpointIndex' = 0
          /\ configurationIndex <= Len(configurations)
          /\ endpointIndex > Len(configurations[configurationIndex])
      BY <1>4 DEF NextConfiguration, tables, Current
    <2>2. Bounded' /\ Counted'
      BY <2>1 DEF ProxiedInv, Bounded, Counted
    <2>3. Proxied'
      <3> SUFFICES ASSUME 1 \in DOMAIN configurations
                   PROVE  \A j \in DOMAIN First : Read(j)
        BY <2>1 DEF ProxiedInv, Proxied, First
      <3> QED
        BY <1>1, <2>1, LoopsWithin DEF First, Read
    <2> QED
      BY <1>1, <2>2, <2>3 DEF ProxiedInv
  <1>5. CASE UNCHANGED vars
    BY <1>1, <1>5
       DEF vars, tables, ProxiedInv, Bounded, Counted, Proxied, FirstRead, Read, First
  <1> QED
    BY <1>2, <1>3, <1>4, <1>5 DEF Next

\* A configuration that has no more endpoints than the chip keeps all those
\* that the protocol can carry, whatever the device lists, also twice.
THEOREM NothingLeftOut == Spec => []AllProxied
  <1>1. ProxiedInv => AllProxied
    <2> SUFFICES ASSUME ProxiedInv, configurationIndex > 1
                 PROVE  1 \in DOMAIN configurations
      BY DEF ProxiedInv, Proxied, AllProxied, Read, First
    <2> QED
      BY LoopsWithin DEF ProxiedInv
  <1> QED
    BY <1>1, ProxiedInit, ProxiedStep, PTL DEF Spec

(***************************************************************************)
(* What the host is told.  Until the first configuration has been gone     *)
(* through, the descriptors that were read differ in their numbers, or are *)
(* those of a device that lists none twice.                                *)
(***************************************************************************)
Numbered ==
    FirstRead /\ renumber =>
        \A j \in DOMAIN First : j < endpointIndex => Number(First[j].address) = j

EntriesListed ==
    \A i \in DOMAIN endpoints :
        1 \in DOMAIN configurations /\ \E j \in DOMAIN First :
            /\ Read(j)
            /\ First[j] = [address |-> endpoints[i].number,
                           type |-> endpoints[i].type,
                           size |-> endpoints[i].size]

FirstDistinct == configurationIndex > 1 => NoneRepeated(First)

HostInv == TablesInv /\ ProxiedInv /\ Numbered /\ EntriesListed /\ FirstDistinct

LEMMA NumberMade ==
    ASSUME NEW d \in {ToDevice, ToHost}, NEW n \in Nat, n < ToHost
    PROVE  Number(d + n) = n
  BY DEF Number, Direction, ToDevice, ToHost

LEMMA HostInit == ASSUME DevicesRepeatNone PROVE Init => HostInv
  <1> SUFFICES ASSUME Init PROVE HostInv
    OBVIOUS
  <1>1. TablesInv /\ ProxiedInv /\ TypeInv
    BY DevicesRepeatNone, TablesInit, ProxiedInit, TypeInit
  <1>2. Numbered /\ EntriesListed /\ FirstDistinct
    BY <1>1, LoopsWithin DEF Init, Numbered, EntriesListed, FirstDistinct
  <1> QED
    BY <1>1, <1>2 DEF HostInv

LEMMA HostFixEndpoint ==
    ASSUME HostInv, FixEndpoint, TablesInv', ProxiedInv'
    PROVE  HostInv'
  <1>1. /\ TypeInv
        /\ configurationIndex <= Len(configurations)
        /\ endpointIndex \in DOMAIN Current
        /\ StoreDescriptor(fixed)
        /\ endpointIndex' = endpointIndex + 1
        /\ configurationIndex' = configurationIndex
        /\ renumber' = renumber
    BY FixEndpointSteps DEF HostInv, ProxiedInv
  <1>2. /\ endpointIndex \in Nat \ {0}
        /\ configurationIndex \in DOMAIN configurations
        /\ DOMAIN configurations' = DOMAIN configurations
        /\ Len(configurations') = Len(configurations)
        /\ configurationIndex \in Nat \ {0}
    BY <1>1, LoopsWithin, FoundTyped, Stored DEF Current
  <1>3. ASSUME 1 \in DOMAIN configurations
        PROVE  /\ DOMAIN First' = DOMAIN First
               /\ First \in Seq(Descriptors) /\ First' \in Seq(Descriptors)
               /\ Len(First) \in Nat /\ DOMAIN First = 1..Len(First)
               /\ \A j \in DOMAIN First :
                     First'[j] = IF configurationIndex = 1 /\ j = endpointIndex
                                 THEN fixed ELSE First[j]
    <2>1. /\ configurations' \in Seq(Seq(Descriptors))
          /\ Len(configurations'[1]) = Len(configurations[1])
      BY <1>1, <1>3, Stored
    <2>2. configurations'[1] \in Seq(Descriptors) /\ configurations[1] \in Seq(Descriptors)
      BY <1>1, <1>2, <1>3, <2>1, LoopsWithin
    <2> QED
      BY <1>1, <1>3, <2>1, <2>2, Stored DEF First
  <1>4. Numbered'
    <2> SUFFICES ASSUME FirstRead', renumber, NEW j \in DOMAIN First', j < endpointIndex + 1
                 PROVE  Number(First'[j].address) = j
      BY <1>1 DEF Numbered
    <2>1. FirstRead /\ 1 \in DOMAIN configurations /\ Current = First
      BY <1>1, <1>2 DEF FirstRead, Current, First
    <2>2. CASE j = endpointIndex
      <3>1. /\ First'[j] = fixed
            /\ fixed.address = Direction(found.address) + number
            /\ Direction(found.address) \in {ToDevice, ToHost}
        BY <1>1, <1>3, <2>1, <2>2, FoundTyped, AddressParts DEF FirstRead
      <3>2. number = endpointIndex
        BY <1>2, <2>1, LoopsWithin DEF HostInv, ProxiedInv, Counted, number
      <3>3. endpointIndex < ToHost
        <4>1. Len(First) < ToHost
          BY <2>1 DEF HostInv, ProxiedInv, Bounded, First
        <4>2. endpointIndex <= Len(First) /\ Len(First) \in Nat
          BY <1>1, <1>3, <2>1
        <4> QED
          BY <1>2, <4>1, <4>2 DEF ToHost
      <3> QED
        BY <1>2, <2>2, <3>1, <3>2, <3>3, NumberMade
    <2>3. CASE j # endpointIndex
      <3>1. j \in DOMAIN First /\ j \in Nat /\ j < endpointIndex
        BY <1>2, <1>3, <2>1, <2>3
      <3>2. First'[j] = First[j]
        BY <1>3, <2>1, <2>3, <3>1
      <3> QED
        BY <2>1, <3>1, <3>2 DEF HostInv, Numbered
    <2> QED
      BY <2>2, <2>3
  <1>5. EntriesListed'
    <2> SUFFICES ASSUME NEW i \in DOMAIN endpoints'
                 PROVE  1 \in DOMAIN configurations /\ \E j \in DOMAIN First :
                            /\ Read(j)'
                            /\ First'[j] = [address |-> endpoints'[i].number,
                                            type |-> endpoints'[i].type,
                                            size |-> endpoints'[i].size]
      BY <1>2, <1>3 DEF EntriesListed
    <2>1. CASE i \in DOMAIN endpoints
      <3>1. endpoints'[i] = endpoints[i] /\ 1 \in DOMAIN configurations
        BY <1>1, <2>1, EntryFacts DEF HostInv, EntriesListed
      <3>2. PICK j \in DOMAIN First :
                /\ Read(j)
                /\ First[j] = [address |-> endpoints[i].number,
                               type |-> endpoints[i].type,
                               size |-> endpoints[i].size]
        BY <2>1 DEF HostInv, EntriesListed
      <3>3. j \in Nat /\ (configurationIndex > 1 \/ j < endpointIndex)
        BY <1>3, <3>1, <3>2 DEF Read
      <3>4. First'[j] = First[j]
        BY <1>2, <1>3, <3>1, <3>3
      <3>5. Read(j)'
        BY <1>1, <1>2, <3>3 DEF Read
      <3> QED
        BY <3>1, <3>2, <3>4, <3>5
    <2>2. CASE i \notin DOMAIN endpoints
      <3>1. /\ Configured(configurationIndex, found, number)
            /\ endpoints' = Append(endpoints, [number |-> fixed.address,
                                               type |-> fixed.type,
                                               size |-> fixed.size])
        BY <1>1, <2>2, EntryFacts
      <3>2. configurationIndex = 1 /\ Current = First /\ 1 \in DOMAIN configurations
        BY <1>2, <3>1 DEF Configured, Current, First
      <3>3. /\ endpoints'[i].number = fixed.address
            /\ endpoints'[i].type = fixed.type
            /\ endpoints'[i].size = fixed.size
        <4>1. endpoints \in Seq(Entries)
          BY <1>1, LoopsWithin
        <4>2. i = Len(endpoints) + 1
          BY <2>2, <3>1, <4>1
        <4> QED
          BY <3>1, <4>1, <4>2
      <3>4. First'[endpointIndex] = fixed /\ fixed \in Descriptors
        BY <1>1, <1>3, <3>2, FoundTyped
      <3>5. fixed = [address |-> fixed.address, type |-> fixed.type, size |-> fixed.size]
        BY <3>4 DEF Descriptors
      <3>6. \A j \in DOMAIN First : j = endpointIndex => Read(j)'
        BY <1>1, <1>2 DEF Read
      <3> QED
        BY <1>1, <3>2, <3>3, <3>4, <3>5, <3>6
    <2> QED
      BY <2>1, <2>2
  <1>6. FirstDistinct'
    <2> SUFFICES ASSUME configurationIndex > 1
                 PROVE  NoneRepeated(First')
      BY <1>1 DEF FirstDistinct, NoneRepeated
    <2>1. 1 \in DOMAIN configurations
      BY <1>1, <1>2, LoopsWithin
    <2>2. \A j \in DOMAIN First : First'[j] = First[j]
      BY <1>3, <2>1
    <2> QED
      BY <1>3, <2>1, <2>2 DEF HostInv, FirstDistinct, NoneRepeated
  <1> QED
    BY <1>4, <1>5, <1>6 DEF HostInv

LEMMA HostStep == HostInv /\ [Next]_vars => HostInv'
  <1> SUFFICES ASSUME HostInv, [Next]_vars PROVE HostInv'
    OBVIOUS
  <1>1. TablesInv' /\ ProxiedInv' /\ TypeInv
    BY TablesStep, ProxiedStep DEF HostInv, TablesInv
  <1>2. CASE CompareProperties
    <2>1. /\ UNCHANGED <<configurations, configurationIndex, endpoints>>
          /\ endpointIndex = 0 /\ endpointIndex' = 1
          /\ configurationIndex <= Len(configurations)
      BY <1>2 DEF CompareProperties, tables
    <2>2. 1 \in DOMAIN configurations /\ DOMAIN First = 1..Len(First) /\ Len(First) \in Nat
      BY <1>1, <2>1, LoopsWithin DEF First
    <2>3. Numbered'
      BY <2>1, <2>2 DEF Numbered, First
    <2>4. \A j \in DOMAIN First : Read(j) => Read(j)'
      BY <2>1, <2>2 DEF Read
    <2>5. EntriesListed' /\ FirstDistinct'
      BY <2>1, <2>4 DEF HostInv, EntriesListed, FirstDistinct, NoneRepeated, First
    <2> QED
      BY <1>1, <2>3, <2>5 DEF HostInv
  <1>3. CASE FixEndpoint
    BY <1>1, <1>3, HostFixEndpoint
  <1>4. CASE NextConfiguration
    <2>1. /\ UNCHANGED <<configurations, endpoints>>
          /\ configurationIndex' = configurationIndex + 1
          /\ configurationIndex <= Len(configurations)
          /\ endpointIndex > Len(Current)
          /\ renumber' = renumber
      BY <1>4 DEF NextConfiguration, tables
    <2>2. /\ 1 \in DOMAIN configurations /\ DOMAIN First = 1..Len(First)
          /\ Len(First) \in Nat /\ configurationIndex \in Nat \ {0}
          /\ endpointIndex \in Nat /\ configurationIndex' > 1
      BY <1>1, <2>1, LoopsWithin DEF First
    <2>3. Numbered'
      BY <2>1, <2>2 DEF Numbered, FirstRead
    <2>4. EntriesListed'
      BY <2>1, <2>2 DEF HostInv, EntriesListed, Read, First
    <2>5. FirstDistinct'
      <3> SUFFICES NoneRepeated(First)
        BY <2>1 DEF FirstDistinct, NoneRepeated, First
      <3>1. CASE configurationIndex > 1
        BY <3>1 DEF HostInv, FirstDistinct
      <3>2. CASE configurationIndex = 1
        <4>1. FirstRead /\ Current = First /\ endpointIndex > 0
          BY <2>1, <2>2, <3>2 DEF FirstRead, Current, First
        <4>2. CASE renumber
          <5>1. \A j \in DOMAIN First : Number(First[j].address) = j
            BY <2>1, <2>2, <4>1, <4>2 DEF HostInv, Numbered
          <5> QED
            BY <5>1 DEF NoneRepeated
        <4>3. CASE ~renumber
          BY <4>1, <4>3 DEF HostInv, TablesInv, Kept
        <4> QED
          BY <4>2, <4>3
      <3> QED
        BY <2>2, <3>1, <3>2
    <2> QED
      BY <1>1, <2>3, <2>4, <2>5 DEF HostInv
  <1>5. CASE UNCHANGED vars
    BY <1>1, <1>5
       DEF vars, tables, HostInv, Numbered, EntriesListed, FirstDistinct, FirstRead, Read,
           First, NoneRepeated
  <1> QED
    BY <1>2, <1>3, <1>4, <1>5 DEF Next

\* The endpoints that the firmware configures are those of which the rewritten
\* descriptors tell the host, each listed once and with its type and size.
THEOREM HostTold == ASSUME DevicesRepeatNone PROVE Spec => []HostSeesTable
  <1>1. HostInv => HostSeesTable
    <2> SUFFICES ASSUME HostInv, configurationIndex > 1, NEW i \in DOMAIN endpoints
                 PROVE  /\ Cardinality({j \in DOMAIN First :
                               First[j].address = endpoints[i].number}) = 1
                        /\ \E j \in DOMAIN First :
                               First[j] = [address |-> endpoints[i].number,
                                           type |-> endpoints[i].type,
                                           size |-> endpoints[i].size]
      BY DEF HostSeesTable, First
    <2>1. PICK j \in DOMAIN First :
              First[j] = [address |-> endpoints[i].number,
                          type |-> endpoints[i].type,
                          size |-> endpoints[i].size]
      BY DEF HostInv, EntriesListed
    <2>2. NoneRepeated(First) /\ First[j].address = endpoints[i].number
      BY <2>1 DEF HostInv, FirstDistinct
    <2>3. {k \in DOMAIN First : First[k].address = endpoints[i].number} = {j}
      BY <2>1, <2>2 DEF NoneRepeated
    <2>4. Cardinality({j}) = 1
      BY FS_Singleton
    <2> QED
      BY <2>1, <2>3, <2>4
  <1>2. Init => HostInv
    BY DevicesRepeatNone, HostInit
  <1> QED
    BY <1>1, <1>2, HostStep, PTL DEF Spec

(***************************************************************************)
(* What the tables are for: Endpoints takes for granted that they are as   *)
(* this module makes them.  An address and its new one have the same       *)
(* direction, and the OUT entries of the table are a sequence of their     *)
(* own, which the firmware makes of them.                                  *)
(***************************************************************************)
SameDirection ==
    \A a \in Addresses :
        usbToSerial[a] # 0 => Direction(usbToSerial[a]) = Direction(a)

OutListed == \E table \in Seq(Addresses) : OutEntries(table)

MeetsInv == TablesInv /\ SameDirection /\ OutListed

LEMMA DirectionMade ==
    ASSUME NEW d \in {ToDevice, ToHost}, NEW n \in Numbers
    PROVE  Direction(d + n) = d
  BY DEF Numbers, Direction, ToDevice, ToHost

LEMMA FixedDirection ==
    ASSUME TypeInv, configurationIndex <= Len(configurations),
           endpointIndex \in DOMAIN Current,
           Configured(configurationIndex, found, number)
    PROVE  Direction(fixed.address) = Direction(found.address)
  <1>1. CASE renumber
    <2>1. number \in Numbers
      BY <1>1, SizesAssumption DEF TypeInv, TypeOK, number, Numbers, Configured
    <2> QED
      BY <1>1, <2>1, FoundTyped, AddressParts, DirectionMade
  <1>2. CASE ~renumber
    BY <1>2, FoundTyped
  <1> QED
    BY <1>1, <1>2

LEMMA OutKept ==
    ASSUME OutListed, endpoints' = endpoints
    PROVE  OutListed'
  BY DEF OutListed, OutEntries

\* One more entry of the table is one more OUT entry, or none.
LEMMA OutAdded ==
    ASSUME OutListed, endpoints \in Seq(Entries), NEW entry \in Entries,
           endpoints' = Append(endpoints, entry)
    PROVE  OutListed'
  <1> DEFINE n == Len(endpoints)
             OutPlaces == {j \in DOMAIN endpoints : Direction(endpoints[j].number) = ToDevice}
  <1>1. PICK table \in Seq(Addresses) : OutEntries(table)
    BY DEF OutListed
  <1>2. PICK place \in [DOMAIN table -> DOMAIN endpoints] :
            /\ \A i, j \in DOMAIN table : i < j => place[i] < place[j]
            /\ \A i \in DOMAIN table : table[i] = endpoints[place[i]].number
            /\ {place[i] : i \in DOMAIN table} = OutPlaces
    BY <1>1 DEF OutEntries
  <1>3. /\ n \in Nat /\ DOMAIN endpoints = 1..n /\ DOMAIN endpoints' = 1..n + 1
        /\ \A i \in 1..n : endpoints'[i] = endpoints[i]
        /\ endpoints'[n + 1] = entry
    OBVIOUS
  <1>4. \A i \in DOMAIN table : place[i] \in 1..n /\ endpoints'[place[i]] = endpoints[place[i]]
    BY <1>2, <1>3
  <1> HIDE DEF n
  <1>5. CASE Direction(entry.number) # ToDevice
    <2>1. place \in [DOMAIN table -> DOMAIN endpoints']
      BY <1>2, <1>3
    <2>2. {j \in DOMAIN endpoints' : Direction(endpoints'[j].number) = ToDevice} = OutPlaces
      <3>1. \A j \in DOMAIN endpoints' : j \in DOMAIN endpoints \/ j = n + 1
        BY <1>3
      <3> QED
        BY <1>3, <1>5, <3>1
    <2>3. \A i \in DOMAIN table : table[i] = endpoints'[place[i]].number
      BY <1>2, <1>4
    <2>4. OutEntries(table)'
      BY <1>2, <2>1, <2>2, <2>3 DEF OutEntries
    <2> QED
      BY <2>4 DEF OutListed
  <1>6. CASE Direction(entry.number) = ToDevice
    <2> DEFINE longer == Append(table, entry.number)
               k == Len(table) + 1
               there == [i \in DOMAIN longer |-> IF i = k THEN n + 1 ELSE place[i]]
    <2>1. entry.number \in Addresses
      BY DEF Entries
    <2>2. longer \in Seq(Addresses)
      BY <2>1
    <2>3. /\ k \in Nat /\ DOMAIN table = 1..k - 1 /\ DOMAIN longer = 1..k
          /\ \A i \in 1..k - 1 : longer[i] = table[i]
          /\ longer[k] = entry.number
      OBVIOUS
    <2> HIDE DEF longer, k
    <2>4. \A i \in 1..k : i = k \/ (i \in DOMAIN table /\ i # k)
      <3>1. \A i \in 1..k : i = k \/ (i \in 1..k - 1 /\ i # k)
        BY <2>3
      <3> QED
        BY <2>3, <3>1
    <2>5. k \in 1..k
      <3>1. k >= 1
        BY DEF k
      <3> QED
        BY <2>3, <3>1
    <2>6. /\ there[k] = n + 1
          /\ \A i \in DOMAIN table : there[i] = place[i] /\ i \in 1..k /\ i < k
      BY <2>3, <2>5
    <2>7. there \in [DOMAIN longer -> DOMAIN endpoints']
      BY <1>3, <1>4, <2>3, <2>4
    <2> HIDE DEF there
    <2>8. \A i, j \in DOMAIN longer : i < j => there[i] < there[j]
      <3> SUFFICES ASSUME NEW i \in 1..k, NEW j \in 1..k, i < j
                   PROVE  there[i] < there[j]
        BY <2>3
      <3>1. i \in DOMAIN table /\ there[i] = place[i] /\ place[i] \in 1..n
        BY <1>4, <2>3, <2>6
      <3>2. CASE j = k
        BY <1>3, <2>6, <3>1, <3>2
      <3>3. CASE j # k
        BY <1>2, <2>4, <2>6, <3>1, <3>3
      <3> QED
        BY <3>2, <3>3
    <2>9. \A i \in DOMAIN longer : longer[i] = endpoints'[there[i]].number
      <3> SUFFICES ASSUME NEW i \in 1..k
                   PROVE  longer[i] = endpoints'[there[i]].number
        BY <2>3
      <3>1. CASE i = k
        BY <1>3, <2>3, <2>6, <3>1
      <3>2. CASE i \in DOMAIN table
        BY <1>2, <1>4, <2>3, <2>6, <3>2
      <3> QED
        BY <2>4, <3>1, <3>2
    <2>10. {there[i] : i \in DOMAIN longer} =
              {j \in DOMAIN endpoints' : Direction(endpoints'[j].number) = ToDevice}
      <3>1. \A i \in DOMAIN longer :
               /\ there[i] \in DOMAIN endpoints'
               /\ Direction(endpoints'[there[i]].number) = ToDevice
        <4> SUFFICES ASSUME NEW i \in 1..k
                     PROVE  /\ there[i] \in DOMAIN endpoints'
                            /\ Direction(endpoints'[there[i]].number) = ToDevice
          BY <2>3
        <4>1. CASE i = k
          BY <1>3, <1>6, <2>6, <4>1
        <4>2. CASE i \in DOMAIN table
          <5>1. place[i] \in OutPlaces
            BY <1>2, <4>2
          <5> QED
            BY <1>3, <1>4, <2>6, <4>2, <5>1
        <4> QED
          BY <2>4, <4>1, <4>2
      <3>2. ASSUME NEW j \in DOMAIN endpoints', Direction(endpoints'[j].number) = ToDevice
            PROVE  \E i \in DOMAIN longer : there[i] = j
        <4>1. CASE j = n + 1
          BY <2>3, <2>5, <2>6, <4>1
        <4>2. CASE j # n + 1
          <5>1. j \in OutPlaces
            BY <1>3, <3>2, <4>2
          <5>2. PICK i \in DOMAIN table : place[i] = j
            BY <1>2, <5>1
          <5> QED
            BY <2>3, <2>6, <5>2
        <4> QED
          BY <4>1, <4>2
      <3> QED
        BY <3>1, <3>2
    <2>11. OutEntries(longer)'
      <3>1. longer' = longer
        BY DEF longer
      <3> QED
        BY <2>7, <2>8, <2>9, <2>10 DEF OutEntries
    <2> QED
      BY <2>2, <2>11 DEF OutListed
  <1> QED
    BY <1>5, <1>6

LEMMA MeetsInit == ASSUME DevicesRepeatNone PROVE Init => MeetsInv
  <1> SUFFICES ASSUME Init PROVE MeetsInv
    OBVIOUS
  <1>1. endpoints = << >> /\ usbToSerial = [a \in Addresses |-> 0]
    BY DEF Init
  <1>2. TablesInv /\ SameDirection
    BY <1>1, DevicesRepeatNone, TablesInit DEF SameDirection
  <1>3. OutEntries(<< >>)
    <2>1. DOMAIN << >> = {}
      OBVIOUS
    <2>2. << >> \in [DOMAIN << >> -> DOMAIN endpoints]
      BY <1>1
    <2>3. {j \in DOMAIN endpoints : Direction(endpoints[j].number) = ToDevice} = {}
      BY <1>1, <2>1
    <2>4. {<< >>[i] : i \in DOMAIN << >>} = {}
      BY <2>1
    <2> QED
      BY <2>1, <2>2, <2>3, <2>4 DEF OutEntries
  <1>4. << >> \in Seq(Addresses)
    OBVIOUS
  <1> QED
    BY <1>2, <1>3, <1>4 DEF MeetsInv, OutListed

LEMMA MeetsStep == MeetsInv /\ [Next]_vars => MeetsInv'
  <1> SUFFICES ASSUME MeetsInv, [Next]_vars PROVE MeetsInv'
    OBVIOUS
  <1>1. TablesInv /\ TablesInv' /\ SameDirection /\ OutListed
    BY TablesStep DEF MeetsInv
  <1>2. CASE UNCHANGED tables
    <2>1. SameDirection' /\ OutListed'
      BY <1>1, <1>2, OutKept DEF SameDirection, tables
    <2> QED
      BY <1>1, <2>1 DEF MeetsInv
  <1>3. CASE FixEndpoint /\ Configured(configurationIndex, found, number)
    <2>1. /\ TypeInv /\ configurationIndex <= Len(configurations)
          /\ endpointIndex \in DOMAIN Current
          /\ AddEndpoint(found.address, fixed)
      BY <1>1, <1>3, FixEndpointSteps DEF TablesInv
    <2>2. /\ fixed.address \in Addresses /\ found.address \in Addresses
          /\ fixed \in Descriptors
          /\ Direction(fixed.address) = Direction(found.address)
      BY <1>3, <2>1, FixedAddress, FixedDirection, FoundTyped
    <2>3. SameDirection'
      <3>1. /\ usbToSerial' = [usbToSerial EXCEPT ![found.address] = fixed.address]
            /\ usbToSerial \in [Addresses -> Addresses \union {0}]
        BY <2>1 DEF AddEndpoint, TypeInv, TypeOK
      <3> QED
        BY <1>1, <2>2, <3>1 DEF SameDirection
    <2>4. OutListed'
      <3> DEFINE entry == [number |-> fixed.address, type |-> fixed.type, size |-> fixed.size]
      <3>1. endpoints' = Append(endpoints, entry)
        BY <2>1 DEF AddEndpoint
      <3>2. entry \in Entries
        BY <2>2 DEF Entries, Descriptors
      <3>3. endpoints \in Seq(Entries)
        BY <2>1 DEF TypeInv, TypeOK, Entries
      <3> HIDE DEF entry
      <3> QED
        BY <1>1, <3>1, <3>2, <3>3, OutAdded
    <2> QED
      BY <1>1, <2>3, <2>4 DEF MeetsInv
  <1> QED
    BY <1>2, <1>3, FixEndpointSteps
       DEF Next, CompareProperties, NextConfiguration, vars

\* An endpoint of the table, as the tables translate it.
LEMMA TableTranslated ==
    ASSUME MeetsInv, NEW i \in DOMAIN endpoints
    PROVE  /\ endpoints[i].number \in Addresses
           /\ \E a \in Addresses : /\ usbToSerial[a] = endpoints[i].number
                                   /\ Direction(a) = Direction(endpoints[i].number)
  <1>1. TablesInverse /\ SameDirection /\ TypeOK
    BY DEF MeetsInv, TablesInv, TypeInv
  <1>2. endpoints[i] \in Entries
    <2>1. endpoints \in Seq(Entries)
      BY <1>1 DEF TypeOK, Entries
    <2> QED
      BY <2>1
  <1>3. endpoints[i].number \in Addresses
    BY <1>2 DEF Entries
  <1>4. /\ serialToUsb[endpoints[i].number] \in Addresses
        /\ usbToSerial[serialToUsb[endpoints[i].number]] = endpoints[i].number
    BY <1>1, <1>3 DEF TypeOK, TablesInverse
  <1>5. endpoints[i].number # 0
    BY <1>3, AddressParts
  <1> QED
    BY <1>1, <1>3, <1>4, <1>5 DEF SameDirection

LEMMA ProxiedFacts ==
    ASSUME MeetsInv, NEW direction \in {ToDevice, ToHost}
    PROVE  /\ ProxiedTo(direction) \subseteq Addresses
           /\ IsFiniteSet(ProxiedTo(direction))
           /\ Cardinality(ProxiedTo(direction)) <= MaxEndpoints
           /\ \A a \in ProxiedTo(direction) : usbToSerial[a] \in Nat \ {0}
  <1> DEFINE S == ProxiedTo(direction)
             T == 1..MaxEndpoints
             f == [a \in S |-> Number(usbToSerial[a])]
  <1>1. TablesInverse /\ TypeOK /\ EntriesOnChip /\ NumbersDiffer
    BY DEF MeetsInv, TablesInv, TypeInv
  <1>2. S \subseteq Addresses
    BY DEF ProxiedTo
  <1>3. \A a \in S : usbToSerial[a] \in Addresses
    BY <1>1 DEF ProxiedTo, TypeOK
  <1>4. \A a \in S : \E i \in DOMAIN endpoints : endpoints[i].number = usbToSerial[a]
    BY <1>1 DEF ProxiedTo, TablesInverse
  <1>5. f \in [S -> T]
    BY <1>1, <1>4 DEF EntriesOnChip
  <1>6. ASSUME NEW a \in S, NEW b \in S, f[a] = f[b]
        PROVE  a = b
    <2>1. PICK i \in DOMAIN endpoints : endpoints[i].number = usbToSerial[a]
      BY <1>4
    <2>2. PICK j \in DOMAIN endpoints : endpoints[j].number = usbToSerial[b]
      BY <1>4
    <2>3. usbToSerial[a] = usbToSerial[b]
      BY <1>1, <1>6, <2>1, <2>2 DEF NumbersDiffer
    <2>4. serialToUsb[usbToSerial[a]] = a /\ serialToUsb[usbToSerial[b]] = b
      BY <1>1 DEF ProxiedTo, TablesInverse
    <2> QED
      BY <2>3, <2>4
  <1>7. f \in Injection(S, T)
    BY <1>5, <1>6, Zenon DEF Injection, IsInjective
  <1>8. IsFiniteSet(T) /\ Cardinality(T) = MaxEndpoints
    <2>1. MaxEndpoints \in Nat
      BY SizesAssumption DEF Numbers
    <2> QED
      BY <2>1, FS_Interval
  <1>9. IsFiniteSet(S) /\ Cardinality(S) <= MaxEndpoints
    BY <1>7, <1>8, FS_Injection
  <1>10. \A a \in S : usbToSerial[a] \in Nat \ {0}
    BY <1>3, AddressParts
  <1> QED
    BY <1>2, <1>9, <1>10

LEMMA MeetsAssumptions ==
    ASSUME MeetsInv, NEW table \in Seq(Addresses), OutEntries(table)
    PROVE  /\ Tables(table)!EndpointsOK
           /\ Tables(table)!RenumberingOK
           /\ Tables(table)!CapacityOK
           /\ Tables(table)!OutTableOK
  <1> DEFINE In == ProxiedTo(ToHost)
             Out == ProxiedTo(ToDevice)
             U2S == [a \in In \union Out |-> usbToSerial[a]]
  <1>1. /\ In \subseteq Addresses /\ Out \subseteq Addresses
        /\ IsFiniteSet(In) /\ IsFiniteSet(Out) /\ Cardinality(In) <= MaxEndpoints
        /\ \A a \in In \union Out : usbToSerial[a] \in Nat \ {0}
    BY ProxiedFacts
  <1>2. Tables(table)!EndpointsOK
    <2>1. In \subseteq Nat \ {0} /\ Out \subseteq Nat \ {0}
      BY <1>1, AddressParts
    <2>2. In \intersect Out = {}
      BY DEF ProxiedTo, ToHost, ToDevice
    <2>3. Tables(table)!IsFiniteSet(In) /\ Tables(table)!IsFiniteSet(Out)
      BY <1>1 DEF IsFiniteSet, Tables!IsFiniteSet
    <2> QED
      BY <2>1, <2>2, <2>3 DEF Tables!EndpointsOK
  <1>3. Tables(table)!RenumberingOK
    <2>1. U2S \in [In \union Out -> Nat \ {0}]
      BY <1>1
    <2>2. \A e, f \in In \union Out : U2S[e] = U2S[f] => e = f
      <3>1. \A e \in In \union Out : serialToUsb[usbToSerial[e]] = e
        BY DEF ProxiedTo, MeetsInv, TablesInv, TablesInverse
      <3> QED
        BY <3>1
    <2> QED
      BY <2>1, <2>2 DEF Tables!RenumberingOK, Tables!UsbEps
  <1>4. Tables(table)!CapacityOK
    <2>1. Tables(table)!Cardinality(In) = Cardinality(In)
      BY DEF Cardinality, Tables!Cardinality
    <2>2. MaxEndpoints \in Nat
      BY SizesAssumption DEF Numbers
    <2> QED
      BY <1>1, <2>1, <2>2 DEF Tables!CapacityOK
  <1>5. Tables(table)!OutTableOK
    <2> DEFINE EmuOut == {U2S[e] : e \in Out}
    <2>1. PICK place \in [DOMAIN table -> DOMAIN endpoints] :
              /\ \A i \in DOMAIN table : table[i] = endpoints[place[i]].number
              /\ {place[i] : i \in DOMAIN table} =
                    {j \in DOMAIN endpoints : Direction(endpoints[j].number) = ToDevice}
      BY DEF OutEntries
    <2>2. \A n : n \in EmuOut <=> \E e \in Out : n = usbToSerial[e]
      OBVIOUS
    <2>3. ASSUME NEW i \in DOMAIN table
          PROVE  table[i] \in EmuOut
      <3>1. /\ place[i] \in DOMAIN endpoints /\ table[i] = endpoints[place[i]].number
            /\ Direction(table[i]) = ToDevice
        BY <2>1
      <3>2. PICK a \in Addresses : usbToSerial[a] = table[i] /\ Direction(a) = ToDevice
        BY <3>1, TableTranslated
      <3>3. table[i] # 0
        BY <3>1, TableTranslated, AddressParts
      <3>4. a \in Out
        BY <3>2, <3>3 DEF ProxiedTo
      <3> QED
        BY <2>2, <3>2, <3>4
    <2>4. ASSUME NEW n \in EmuOut
          PROVE  \E i \in DOMAIN table : table[i] = n
      <3>1. PICK e \in Out : n = usbToSerial[e]
        BY <2>2
      <3>2. PICK j \in DOMAIN endpoints : endpoints[j].number = n
        BY <3>1 DEF ProxiedTo, MeetsInv, TablesInv, TablesInverse
      <3>3. Direction(n) = ToDevice
        BY <3>1 DEF ProxiedTo, MeetsInv, SameDirection
      <3>4. PICK i \in DOMAIN table : place[i] = j
        BY <2>1, <3>2, <3>3
      <3> QED
        BY <2>1, <3>2, <3>4
    <2> HIDE DEF EmuOut
    <2>5. table \in Seq(EmuOut)
      BY <2>3
    <2>6. Tables(table)!EmuOut = EmuOut
      BY DEF Tables!EmuOut, EmuOut
    <2> QED
      BY <2>4, <2>5, <2>6 DEF Tables!OutTableOK
  <1> QED
    BY <1>2, <1>3, <1>4, <1>5

\* The tables that fix_endpoints fills meet all that Endpoints assumes of them:
\* what is proved of the proxy and the firmware for any endpoints holds for
\* the endpoints of any device that lists none of them twice.  The last part is
\* that there is such a sequence of OUT entries, to which the first one applies.
THEOREM EndpointsMet ==
    ASSUME DevicesRepeatNone
    PROVE  Spec => [](MeetsEndpoints /\ \E table \in Seq(Addresses) : OutEntries(table))
  <1>1. MeetsInv => MeetsEndpoints /\ \E table \in Seq(Addresses) : OutEntries(table)
    BY MeetsAssumptions DEF MeetsEndpoints, MeetsInv, OutListed
  <1>2. Init => MeetsInv
    BY DevicesRepeatNone, MeetsInit
  <1> QED
    BY <1>1, <1>2, MeetsStep, PTL DEF Spec
=============================================================================
