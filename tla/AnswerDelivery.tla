--------------------------- MODULE AnswerDelivery ---------------------------
(***************************************************************************)
(* What MelsecSerialClient promises about data: the answer of a request    *)
(* puts the value of every item asked for into its own cell of the buffer  *)
(* that was passed with that request; nothing else is ever written, and a  *)
(* request that does not succeed may only have touched its own buffer.     *)
(***************************************************************************)
EXTENDS Naturals, Sequences

CONSTANTS
  Storages,  \* the output buffers of the program
  Cells,     \* the cells of each
  NoValue    \* a cell to which nothing was written

VARIABLES
  asked,       \* the request in flight, as the program made it
  memory,      \* what the buffers hold: the device whose value it is
  registered,  \* the monitor lists the program may rely on, <<>> if none
  outcome      \* of the last request, "none" while one is in flight

deliveryVars == <<asked, memory, registered, outcome>>

Registrations == {"RegisterMonitor", "RegisterExtendedFileRegisterMonitor"}
MonitorReads == {"ReadMonitor", "ReadExtendedFileRegisterMonitor"}

\* The registration whose list a monitor read goes through.
ListOf(kind) ==
  IF kind = "ReadMonitor" THEN "RegisterMonitor" ELSE "RegisterExtendedFileRegisterMonitor"

Reads ==
  MonitorReads \union
  {"BatchReadWords", "ReadExtendedFileRegisterWords", "DirectReadExtendedFileRegisterWords",
   "ExtendedBatchReadWords", "BatchReadBits", "RandomRead", "MultiBlockRead",
   "ReadHostBuffer", "ReadModuleBuffer", "Loopback"}

NoStorage == "no storage"
NoRequest == [kind |-> "None", items |-> <<>>, storage |-> NoStorage]

OthersUntouched == \A s \in Storages \ {asked.storage} : memory'[s] = memory[s]

\* The terminator and a longer echo of a loopback go beyond what was asked.
BeyondUntouched ==
  asked.kind \in Reads \ {"Loopback"} =>
    \A c \in Cells \ DOMAIN asked.items :
      memory'[asked.storage][c] = memory[asked.storage][c]

Delivered ==
  \A c \in DOMAIN asked.items : memory'[asked.storage][c] = asked.items[c].device

Ends(code) == asked' = NoRequest /\ outcome' = code

DeliveryInit ==
  /\ asked = NoRequest /\ outcome = "none"
  /\ memory = [s \in Storages |-> [c \in Cells |-> NoValue]]
  /\ registered = [m \in Registrations |-> <<>>]

\* A new registration gives up the one before it.
Ask ==
  /\ asked.kind = "None" /\ asked'.kind # "None"
  /\ asked'.kind \in MonitorReads => asked'.items = registered[ListOf(asked'.kind)]
  /\ asked'.kind \in Reads => asked'.storage \in Storages
  /\ memory' = [s \in Storages |-> [c \in Cells |-> NoValue]]
  /\ registered' = [m \in Registrations |-> IF m = asked'.kind THEN <<>> ELSE registered[m]]
  /\ outcome' = "none"

Deliver ==
  /\ asked.kind \in Reads
  /\ Delivered /\ OthersUntouched /\ BeyondUntouched
  /\ UNCHANGED registered
  /\ Ends("Ok")

Confirm ==
  /\ asked.kind # "None" /\ asked.kind \notin Reads
  /\ registered' = [m \in Registrations |-> IF m = asked.kind THEN asked.items ELSE registered[m]]
  /\ UNCHANGED memory
  /\ Ends("Ok")

Fail ==
  /\ asked.kind # "None"
  /\ OthersUntouched /\ BeyondUntouched
  /\ UNCHANGED registered
  /\ Ends("Failed")

Reconfigure ==
  /\ asked.kind = "None"
  /\ registered' = [m \in Registrations |-> <<>>]
  /\ UNCHANGED <<asked, memory, outcome>>

DeliveryNext == Ask \/ Deliver \/ Confirm \/ Fail \/ Reconfigure

DeliverySpec == DeliveryInit /\ [][DeliveryNext]_deliveryVars
=============================================================================
