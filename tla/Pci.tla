-------------------------------- MODULE Pci --------------------------------
(***************************************************************************)
(* The scan of the PCI bus (kernel/drivers/pci/pci.c).  Configuration      *)
(* space is reached through two ports: an address that packs bus, slot,    *)
(* function and offset into one word, and the data.  The scan is the loop  *)
(* of pci_initialize, one function of a slot at a time.                    *)
(***************************************************************************)
EXTENDS Naturals, Sequences, SequencesExt, FiniteSets

CONSTANTS
    Buses, Slots,       \* how many there are: 256 and 32
    MaxDevices          \* PCI_MAX_DEVICES

Functions == 8          \* of a slot with the multifunction bit

VARIABLES
    present,            \* the functions of the machine: <<bus, slot, function>>
    many,               \* the slots whose header has the multifunction bit
    bus, slot, function, functions,
    devices,            \* the list, in the order of discovery
    pc

vars == <<present, many, bus, slot, function, functions, devices, pc>>

\* Mutant: the slot is shifted by one bit too few.
AddressShort(b, s, f) == b * 256 + s * 4 + f

\* The address word without its offset: 8 bits of bus, 5 of slot and 3 of function.
Address(b, s, f) == b * 256 + s * 8 + f

\* config_read: what answers is the function whose place the word names.
config_read(b, s, f) ==
    LET word == Address(b, s, f)
        at == <<word \div 256, (word \div 8) % 32, word % 8>>
    IN IF at \in present THEN at ELSE <<>>

Full == Len(devices) >= MaxDevices

\* The next slot, the next bus or the end, when the functions of a slot are done.
NextSlot ==
    IF Full \/ (slot = Slots - 1 /\ bus = Buses - 1) THEN pc' = "done" /\ UNCHANGED <<bus, slot>>
    ELSE /\ pc' = "slot"
         /\ slot' = (slot + 1) % Slots
         /\ bus' = IF slot = Slots - 1 THEN bus + 1 ELSE bus

Slot ==
    /\ pc = "slot"
    /\ IF config_read(bus, slot, 0) = <<>> THEN NextSlot /\ UNCHANGED <<function, functions>>
       ELSE /\ functions' = IF <<bus, slot>> \in many THEN Functions ELSE 1
            /\ function' = 0 /\ pc' = "function" /\ UNCHANGED <<bus, slot>>
    /\ UNCHANGED <<present, many, devices>>

Function ==
    /\ pc = "function"
    /\ IF function < functions /\ ~Full
       THEN LET id == config_read(bus, slot, function)
            IN /\ devices' = IF id = <<>> THEN devices ELSE Append(devices, id)
               /\ function' = function + 1 /\ UNCHANGED <<bus, slot, pc>>
       ELSE NextSlot /\ UNCHANGED <<function, devices>>
    /\ UNCHANGED <<present, many, functions>>

\* pci_initialize may be called again: count starts at zero.
pci_initialize ==
    /\ pc = "done" /\ pc' = "slot"
    /\ bus' = 0 /\ slot' = 0 /\ devices' = <<>>
    /\ UNCHANGED <<present, many, function, functions>>

-----------------------------------------------------------------------------
\* A machine: every slot in use has its function 0, and more only with the multifunction bit.
Init ==
    /\ present \in SUBSET {<<b, s, f>> : b \in 0..Buses - 1, s \in 0..Slots - 1, f \in {0, 7}}
    /\ many = {<<d[1], d[2]>> : d \in {e \in present : e[3] > 0}}
    /\ \A d \in present : <<d[1], d[2], 0>> \in present
    /\ bus = 0 /\ slot = 0 /\ function = 0 /\ functions = 0 /\ devices = <<>> /\ pc = "slot"

Next == Slot \/ Function \/ pci_initialize

Spec == Init /\ [][Next]_vars

-----------------------------------------------------------------------------
(* Properties                                                              *)

Before(d, e) == d[1] * 1000 + d[2] * 10 + d[3] < e[1] * 1000 + e[2] * 10 + e[3]

\* When the scan is over the list has every function of the machine, once and in the order of
\* their places, or, if there are more, the first MaxDevices of them.
DevicesFound ==
    pc = "done" =>
        /\ ToSet(devices) \subseteq present
        /\ \A i, j \in DOMAIN devices : i < j => Before(devices[i], devices[j])
        /\ Len(devices) = IF Cardinality(present) < MaxDevices THEN Cardinality(present) ELSE MaxDevices
        /\ \A d \in present \ ToSet(devices) : \A i \in DOMAIN devices : Before(devices[i], d)
=============================================================================
