---------------------------- MODULE FactoryParam ----------------------------
(***************************************************************************)
(* The identity a device is given in production: AT+CF... commands that    *)
(* rewrite the factory sector (atcmd/at_fiCmd.c), the single flash sector  *)
(* itself (mgmt/mgmt.c) and what hnt_mgmt_factory_init makes of it at the  *)
(* next boot.  All commands run in user_uart_task, one at a time; power    *)
(* may fail between and inside the two flash operations of a save.         *)
(***************************************************************************)
EXTENDS Naturals, Sequences

CONSTANTS
  Order,     \* the fields of hnt_mgmt_factory_param, in their order in the
             \* struct, which is also the order factory_init checks them in
  JidField,  \* xmpp_jid, which at_CfdeviceinfoInternal derives
  IdField,   \* ... from device_id
  Values,    \* what a command can store in a field
  Erased,    \* a field whose first byte is 0xFF
  Garbage,   \* a field an interrupted erase has left in no known state
  MaxSaves   \* bound: saves in a run

Fields == {Order[i] : i \in 1..Len(Order)}

ASSUME FactoryAssumption ==
  /\ Order \in Seq(Fields)
  /\ \A i, j \in 1..Len(Order) : Order[i] = Order[j] => i = j
  /\ JidField \in Fields /\ IdField \in Fields
  /\ Erased \notin Values /\ Garbage \notin Values /\ Erased # Garbage
  /\ MaxSaves \in Nat

VARIABLES
  sector,   \* sector ESP_PARAM_FACTORY
  ram,      \* g_hnt_factory_param; Erased stands for a field not set
  pc,       \* flash operation user_uart_task performs next, or "idle"
  copy,     \* tmp_factory_param of the running command
  given     \* history: the contents that commands have set out to save

vars == <<sector, ram, pc, copy, given>>

Content == [Fields -> Values \cup {Erased, Garbage}]
Empty  == [f \in Fields |-> Erased]
Ruined == [f \in Fields |-> Garbage]

\* The first n fields of a content, the rest erased.
Prefix(content, n) == [f \in Fields |->
                         IF \E i \in 1..n : Order[i] = f THEN content[f] ELSE Erased]

\* Mutant: a field that is not set becomes an empty string.
InitEmpty(content) ==
  [f \in Fields |-> IF content[f] # Erased THEN content[f] ELSE ""]

\* hnt_mgmt_factory_init: fields are taken over up to the first that is erased,
\* where it returns -1, which its caller ignores.
FactoryInit(content) ==
  [f \in Fields |-> IF \E k \in 1..Len(Order) :
                         /\ Order[k] = f
                         /\ \A i \in 1..k : content[Order[i]] # Erased
                    THEN content[f] ELSE Erased]

\* Programming a field that is not erased spoils it.
Program(old, new) == [f \in Fields |-> IF old[f] = Erased THEN new[f] ELSE Garbage]

-----------------------------------------------------------------------------
\* hnt_mgmt_save_factory_param is entered with this content.
Save(content) == /\ pc = "idle"
                 /\ Len(given) < MaxSaves
                 /\ pc' = "erase"
                 /\ copy' = content
                 /\ given' = Append(given, content)
                 /\ UNCHANGED <<sector, ram>>

\* AT+CFDEVICETYPE, AT+CFDEVICEID, ...: load, change one field, save.  The
\* running program keeps the identity it booted with.
SetField == \E f \in Fields, v \in Values : Save([sector EXCEPT ![f] = v])

\* AT+CFDEVICEINFO: every field at once.
SetDeviceInfo == \E new \in [Fields -> Values] :
                   /\ new[JidField] = new[IdField]
                   /\ Save(new)

\* Mutant: programs the sector without erasing it.
SkipErase == /\ pc = "erase"
             /\ pc' = "write"
             /\ UNCHANGED <<sector, ram, copy, given>>

Erase == /\ pc = "erase"
         /\ pc' = "write"
         /\ sector' = Empty
         /\ UNCHANGED <<ram, copy, given>>

Write == /\ pc = "write"
         /\ pc' = "idle"
         /\ sector' = Program(sector, copy)
         /\ UNCHANGED <<ram, copy, given>>

\* AT+ERASEF: at_exeCmdEraseF erases the sector and replies.
EraseFactory == /\ pc = "idle"
                /\ pc' = "wipe"
                /\ UNCHANGED <<sector, ram, copy, given>>

Wipe == /\ pc = "wipe"
        /\ pc' = "wiped"
        /\ sector' = Empty
        /\ UNCHANGED <<ram, copy, given>>

Reply == /\ pc = "wiped"
         /\ pc' = "idle"
         /\ UNCHANGED <<sector, ram, copy, given>>

\* user_init calls hnt_mgmt_factory_init(NULL).
BootFrom(content) == /\ pc' = "idle"
                     /\ sector' = content
                     /\ ram' = FactoryInit(content)
                     /\ UNCHANGED <<copy, given>>

\* AT+RST
Restart == pc = "idle" /\ BootFrom(sector)

\* Power fails: between two operations, inside an erase, or inside the
\* programming, which goes through the struct from its first field on and may
\* stop in the middle of one.
PowerLoss == \/ BootFrom(sector)
             \/ pc \in {"erase", "wipe"} /\ BootFrom(Ruined)
             \/ /\ pc = "write"
                /\ \E n \in 1..Len(Order) : \E last \in {copy[Order[n]], Garbage} :
                     BootFrom(Program(sector, [Prefix(copy, n) EXCEPT ![Order[n]] = last]))

-----------------------------------------------------------------------------
Init == /\ sector = Empty /\ ram = Empty
        /\ pc = "idle" /\ copy = Empty /\ given = <<>>

Next == \/ SetField \/ SetDeviceInfo \/ Erase \/ Write
        \/ EraseFactory \/ Wipe \/ Reply
        \/ Restart \/ PowerLoss

Spec == Init /\ [][Next]_vars

-----------------------------------------------------------------------------
\* Type invariant of the sector, its copies and the running command.
TypeOK == /\ sector \in Content /\ ram \in Content /\ copy \in Content
          /\ pc \in {"idle", "erase", "write", "wipe", "wiped"}
          /\ given \in Seq(Content)

\* A device never boots with an identity pieced together from two commands
\* (hnt_mgmt_save_factory_param, hnt_mgmt_factory_init): the fields it has taken
\* over, but for the last one, which a power loss may have cut in two, all come
\* from one content that was being saved; or an erase was cut short.
OneIdentity ==
  \/ ram = Ruined
  \/ \A k \in 1..Len(Order) - 1 : ram[Order[k + 1]] = Erased
  \/ \E i \in 1..Len(given) : \A k \in 1..Len(Order) - 1 :
        ram[Order[k + 1]] # Erased => ram[Order[k]] = given[i][Order[k]]

\* "load parameter from flash, toggle use two sector by flag value" (mgmt.c:70):
\* what such a store promises is PowerSafeStore, in which a save replaces the
\* old content in one step.
Store == INSTANCE PowerSafeStore
           WITH Params <- [Fields -> Values \cup {Erased, Garbage}],
                Blank <- Empty, Garbage <- Ruined,
                stored <- sector,
                request <- IF pc \in {"erase", "write"} THEN {copy} ELSE {},
                resetting <- pc \in {"wipe", "wiped"}
SaveIsAtomic == Store!Spec
=============================================================================
