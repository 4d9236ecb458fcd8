-------------------------- MODULE FactoryParamProofs --------------------------
(***************************************************************************)
(* Proofs about FactoryParam, for any number of fields in any order: the   *)
(* identity a device boots with, and what alone can tear it.               *)
(***************************************************************************)
EXTENDS FactoryParam, TLAPS

Last == Len(Order)

LEMMA OrderType ==
  /\ Last \in Nat
  /\ \A k \in 1..Last : Order[k] \in Fields
  /\ \A f \in Fields : \E k \in 1..Last : Order[k] = f
  /\ \A j, k \in 1..Last : Order[j] = Order[k] => j = k
<1>1. Last \in Nat
  BY FactoryAssumption DEF Last
<1>2. /\ \A k \in 1..Last : Order[k] \in Fields
      /\ \A f \in Fields : \E k \in 1..Last : Order[k] = f
  BY DEF Last, Fields
<1>3. \A j, k \in 1..Last : Order[j] = Order[k] => j = k
  BY FactoryAssumption DEF Last
<1> QED BY <1>1, <1>2, <1>3

LEMMA ContentTypes ==
  /\ Empty \in Content /\ Ruined \in Content
  /\ \A c \in Content : FactoryInit(c) \in Content
  /\ \A c \in Content, f \in Fields, v \in Values \cup {Erased, Garbage} :
       [c EXCEPT ![f] = v] \in Content
  /\ \A c \in Content, n \in Nat : Prefix(c, n) \in Content
  /\ \A c, d \in Content : Program(c, d) \in Content
  /\ \A c \in [Fields -> Values] : c \in Content
<1>1. Empty \in Content /\ Ruined \in Content
  BY DEF Empty, Ruined, Content
<1>2. \A c \in Content : FactoryInit(c) \in Content
  BY DEF FactoryInit, Content
<1>3. \A c \in Content, f \in Fields, v \in Values \cup {Erased, Garbage} :
       [c EXCEPT ![f] = v] \in Content
  BY DEF Content
<1>4. \A c \in Content, n \in Nat : Prefix(c, n) \in Content
  BY DEF Prefix, Content
<1>5. \A c, d \in Content : Program(c, d) \in Content
  BY DEF Program, Content
<1>6. \A c \in [Fields -> Values] : c \in Content
  BY DEF Content
<1> QED BY <1>1, <1>2, <1>3, <1>4, <1>5, <1>6

\* The sector holds nothing, no known content, or one content that was being saved, as
\* far as the programming got.
Cut(content, whole, n) ==
  \A k \in 1..Last : /\ k < n => content[Order[k]] = whole[Order[k]]
                     /\ k > n => content[Order[k]] = Erased

FromOne(content) == \E i \in 1..Len(given), n \in 1..Last : Cut(content, given[i], n)

Sector == sector = Empty \/ sector = Ruined \/ FromOne(sector)

Saving ==
  /\ pc \in {"erase", "write"} => \E i \in 1..Len(given) : copy = given[i]
  /\ pc = "write" => sector = Empty

Inv == TypeOK /\ Sector /\ Saving /\ OneIdentity

LEMMA InitInv == Init => Inv
<1> SUFFICES ASSUME Init PROVE Inv
  OBVIOUS
<1>1. TypeOK
  BY ContentTypes DEF Init, TypeOK
<1>2. \A k \in 1..(Len(Order) - 1) : ram[Order[k + 1]] = Erased
  <2> SUFFICES ASSUME NEW k \in 1..(Len(Order) - 1) PROVE ram[Order[k + 1]] = Erased
    OBVIOUS
  <2>1. Order[k + 1] \in Fields
    BY OrderType DEF Last
  <2> QED
    BY <2>1 DEF Init, Empty
<1>3. OneIdentity
  BY <1>2 DEF OneIdentity
<1> QED
  BY <1>1, <1>3 DEF Init, Inv, Sector, Saving

\* What the device boots with is one identity if the sector holds one.
LEMMA BootsWithOne ==
  ASSUME NEW content \in Content,
         content = Empty \/ content = Ruined \/ FromOne(content),
         ram' = FactoryInit(content), given' = given
  PROVE  OneIdentity'
<1>0. \A k \in 1..Last : ram'[Order[k]] # Erased =>
         /\ ram'[Order[k]] = content[Order[k]]
         /\ \A i \in 1..k : content[Order[i]] # Erased
  <2> SUFFICES ASSUME NEW k \in 1..Last, ram'[Order[k]] # Erased
               PROVE  /\ ram'[Order[k]] = content[Order[k]]
                      /\ \A i \in 1..k : content[Order[i]] # Erased
    OBVIOUS
  <2> QED
    BY OrderType DEF FactoryInit, Last
<1>1. CASE content = Empty
  <2>1. \A k \in 1..(Len(Order) - 1) : ram'[Order[k + 1]] = Erased
    BY <1>0, <1>1, OrderType DEF Empty, Last
  <2> QED
    BY <2>1 DEF OneIdentity
<1>2. CASE content = Ruined
  <2>1. FactoryInit(Ruined) = Ruined
    BY OrderType, FactoryAssumption DEF FactoryInit, Ruined, Last
  <2> QED
    BY <1>2, <2>1 DEF OneIdentity
<1>3. CASE FromOne(content)
  <2>1. PICK i \in 1..Len(given), n \in 1..Last : Cut(content, given[i], n)
    BY <1>3 DEF FromOne
  <2>2. ASSUME NEW k \in 1..(Len(Order) - 1), ram'[Order[k + 1]] # Erased
        PROVE  ram'[Order[k]] = given[i][Order[k]]
    <3>1. k \in 1..Last /\ k + 1 \in 1..Last
      BY OrderType DEF Last
    <3>2. content[Order[k]] # Erased /\ content[Order[k + 1]] # Erased
          /\ \A j \in 1..k : content[Order[j]] # Erased
      BY <1>0, <2>2, <3>1
    <3>3. ram'[Order[k]] = content[Order[k]]
      BY <3>1, <3>2, OrderType DEF FactoryInit, Last
    <3>4. k < n
      BY <2>1, <3>1, <3>2, OrderType DEF Cut
    <3> QED
      BY <2>1, <3>1, <3>3, <3>4 DEF Cut
  <2> QED
    BY <2>1, <2>2 DEF OneIdentity
<1> QED BY <1>1, <1>2, <1>3

LEMMA BootInv ==
  ASSUME Inv, NEW content \in Content, BootFrom(content),
         content = Empty \/ content = Ruined \/ FromOne(content)
  PROVE  Inv'
<1>1. given' = given /\ copy' = copy /\ sector' = content /\ pc' = "idle"
      /\ ram' = FactoryInit(content)
  BY DEF BootFrom
<1>2. TypeOK'
  BY <1>1, ContentTypes DEF Inv, TypeOK
<1>3. Sector'
  BY <1>1 DEF Sector, FromOne
<1>4. Saving'
  BY <1>1 DEF Saving
<1> QED
  BY <1>1, <1>2, <1>3, <1>4, BootsWithOne DEF Inv

\* What a save, whole or cut short, leaves in an erased sector.
LEMMA Programmed ==
  ASSUME NEW whole \in Content, NEW n \in 1..Last, NEW last
  PROVE  /\ Cut(Program(Empty, whole), whole, Last)
         /\ Cut(Program(Empty, [Prefix(whole, n) EXCEPT ![Order[n]] = last]), whole, n)
<1>1. Cut(Program(Empty, whole), whole, Last)
  BY OrderType DEF Cut, Program, Empty
<1>2. ASSUME NEW k \in 1..Last, k # n
      PROVE  Program(Empty, [Prefix(whole, n) EXCEPT ![Order[n]] = last])[Order[k]]
               = IF k < n THEN whole[Order[k]] ELSE Erased
  <2>1. Order[k] \in Fields /\ Order[k] # Order[n]
    BY <1>2, OrderType
  <2>2. (\E i \in 1..n : Order[i] = Order[k]) <=> k < n
    BY <1>2, OrderType
  <2>3. Prefix(whole, n)[Order[k]] = IF k < n THEN whole[Order[k]] ELSE Erased
    BY <2>1, <2>2 DEF Prefix
  <2> QED
    BY <2>1, <2>3 DEF Program, Empty, Prefix
<1>3. Cut(Program(Empty, [Prefix(whole, n) EXCEPT ![Order[n]] = last]), whole, n)
  <2> DEFINE content == Program(Empty, [Prefix(whole, n) EXCEPT ![Order[n]] = last])
  <2>1. \A k \in 1..Last : k # n => content[Order[k]] = IF k < n THEN whole[Order[k]] ELSE Erased
    BY <1>2
  <2> HIDE DEF content
  <2>2. Cut(content, whole, n)
    BY <2>1, OrderType DEF Cut
  <2> QED BY <2>2 DEF content
<1> QED BY <1>1, <1>3

\* A step that leaves the parameters in RAM alone, and gives the device no identity or
\* one more, keeps OneIdentity.
LEMMA IdentityKept ==
  ASSUME OneIdentity, ram' = ram, Len(given) \in Nat, Len(given') \in Nat,
         Len(given) <= Len(given'), \A i \in 1..Len(given) : given'[i] = given[i]
  PROVE  OneIdentity'
<1>1. CASE \E i \in 1..Len(given) : \A k \in 1..(Len(Order) - 1) :
             ram[Order[k + 1]] # Erased => ram[Order[k]] = given[i][Order[k]]
  <2>1. PICK i \in 1..Len(given) : \A k \in 1..(Len(Order) - 1) :
          ram[Order[k + 1]] # Erased => ram[Order[k]] = given[i][Order[k]]
    BY <1>1
  <2>2. i \in 1..Len(given') /\ given'[i] = given[i]
    BY <2>1
  <2>3. \A k \in 1..(Len(Order) - 1) :
          ram'[Order[k + 1]] # Erased => ram'[Order[k]] = given'[i][Order[k]]
    BY <2>1, <2>2
  <2> QED
    BY <2>2, <2>3 DEF OneIdentity
<1>2. CASE ram = Ruined \/ \A k \in 1..(Len(Order) - 1) : ram[Order[k + 1]] = Erased
  BY <1>2 DEF OneIdentity
<1> QED
  BY <1>1, <1>2 DEF OneIdentity

LEMMA StepInv ==
  ASSUME Inv, [Next]_vars
  PROVE  Inv'
<1> USE DEF Inv
<1>0. Len(given) \in Nat /\ (given' = given => Len(given') \in Nat)
  BY DEF TypeOK
<1>1. ASSUME NEW content \in Content, Save(content)
      PROVE  Inv'
  <2>1. /\ given' = Append(given, content) /\ given \in Seq(Content)
        /\ given' \in Seq(Content)
        /\ Len(given') = Len(given) + 1 /\ given'[Len(given')] = content
        /\ \A i \in 1..Len(given) : i \in 1..Len(given') /\ given'[i] = given[i]
    BY <1>1 DEF Save, TypeOK
  <2>2. TypeOK'
    BY <1>1, <2>1 DEF Save, TypeOK
  <2>3. Sector'
    <3>1. sector' = sector
      BY <1>1 DEF Save
    <3>2. CASE FromOne(sector)
      <4>1. PICK i \in 1..Len(given), n \in 1..Last : Cut(sector, given[i], n)
        BY <3>2 DEF FromOne
      <4>2. i \in 1..Len(given') /\ Cut(sector', given'[i], n)
        BY <2>1, <3>1, <4>1
      <4> QED
        BY <4>2 DEF Sector, FromOne
    <3> QED
      BY <3>1, <3>2 DEF Sector
  <2>4. Saving'
    BY <1>1, <2>1 DEF Save, Saving
  <2>5. OneIdentity'
    <3>1. ram' = ram
      BY <1>1 DEF Save
    <3>2. Len(given) \in Nat /\ Len(given') \in Nat /\ Len(given) <= Len(given')
      BY <2>1
    <3> QED
      BY <2>1, <3>1, <3>2, IdentityKept
  <2> QED BY <2>2, <2>3, <2>4, <2>5
<1>2. CASE SetField \/ SetDeviceInfo
  BY <1>1, <1>2, ContentTypes DEF SetField, SetDeviceInfo, TypeOK
<1>3. CASE Erase \/ Wipe
  <2>1. sector' = Empty /\ UNCHANGED <<ram, copy, given>>
    BY <1>3 DEF Erase, Wipe
  <2>2. TypeOK'
    BY <1>3, <2>1, ContentTypes DEF Erase, Wipe, TypeOK
  <2>3. Sector'
    BY <2>1 DEF Sector
  <2>4. Saving'
    BY <1>3, <2>1 DEF Erase, Wipe, Saving
  <2>5. OneIdentity'
    BY <1>0, <2>1, IdentityKept
  <2> QED BY <2>2, <2>3, <2>4, <2>5
<1>4. CASE Write
  <2>1. PICK i \in 1..Len(given) : copy = given[i]
    BY <1>4 DEF Write, Saving
  <2>2. sector' = Program(Empty, copy) /\ UNCHANGED <<ram, copy, given>> /\ pc' = "idle"
    BY <1>4 DEF Write, Saving
  <2>3. Last \in 1..Last
    BY OrderType, FactoryAssumption
  <2>4. Cut(sector', given[i], Last)
    BY <2>1, <2>2, <2>3, Programmed DEF TypeOK
  <2>5. Sector'
    BY <2>1, <2>2, <2>3, <2>4 DEF Sector, FromOne
  <2>6. TypeOK'
    BY <2>2, ContentTypes DEF TypeOK
  <2>7. Saving'
    BY <2>2 DEF Saving
  <2>8. OneIdentity'
    BY <1>0, <2>2, IdentityKept
  <2> QED BY <2>5, <2>6, <2>7, <2>8
<1>5. CASE EraseFactory \/ Reply \/ UNCHANGED vars
  <2>1. UNCHANGED <<sector, ram, copy, given>>
    BY <1>5 DEF EraseFactory, Reply, vars
  <2>2. TypeOK'
    BY <1>5, <2>1 DEF EraseFactory, Reply, vars, TypeOK
  <2>3. Sector'
    BY <2>1 DEF Sector, FromOne
  <2>4. Saving'
    BY <1>5, <2>1 DEF EraseFactory, Reply, vars, Saving
  <2>5. OneIdentity'
    BY <1>0, <2>1, IdentityKept
  <2> QED BY <2>2, <2>3, <2>4, <2>5
<1>6. CASE Restart \/ BootFrom(sector) \/ BootFrom(Ruined)
  BY <1>6, BootInv, ContentTypes DEF Restart, TypeOK, Sector
<1>7. ASSUME pc = "write", NEW n \in 1..Last, NEW last \in {copy[Order[n]], Garbage},
             BootFrom(Program(sector, [Prefix(copy, n) EXCEPT ![Order[n]] = last]))
      PROVE  Inv'
  <2> DEFINE content == Program(sector, [Prefix(copy, n) EXCEPT ![Order[n]] = last])
  <2>1. PICK i \in 1..Len(given) : copy = given[i]
    BY <1>7 DEF Saving
  <2>2. content \in Content
    <3>1. last \in Values \cup {Erased, Garbage} /\ Order[n] \in Fields /\ n \in Nat
      BY OrderType DEF TypeOK, Content
    <3> QED
      BY <3>1, ContentTypes DEF TypeOK
  <2>3. Cut(content, given[i], n)
    BY <1>7, <2>1, Programmed DEF Saving, TypeOK
  <2>4. FromOne(content)
    BY <2>1, <2>3 DEF FromOne
  <2> HIDE DEF content
  <2> QED
    BY <1>7, <2>2, <2>4, BootInv DEF content
<1> QED
  BY <1>2, <1>3, <1>4, <1>5, <1>6, <1>7 DEF Next, PowerLoss, Last

\* Every variable keeps its type.
THEOREM FactoryTyped == Spec => []TypeOK
<1>1. Inv => TypeOK
  BY DEF Inv
<1> QED
  BY <1>1, InitInv, StepInv, PTL DEF Spec

\* However often power fails, a device boots with an identity that one command gave
\* it, but for the last field it takes over; or an erase was cut short.
THEOREM IdentityWhole == Spec => []OneIdentity
<1>1. Inv => OneIdentity
  BY DEF Inv
<1> QED
  BY <1>1, InitInv, StepInv, PTL DEF Spec

-----------------------------------------------------------------------------
(* SaveIsAtomic does not hold: there is only one sector.  What holds is    *)
(* that power loss alone tears a content.                                  *)

\* Whatever the sector held before, a command leaves it alone, erases it or brings in
\* exactly the content it set out to save; only a power loss leaves anything else
\* (hnt_mgmt_save_factory_param, hnt_mgmt_erase_factory_param).
THEOREM OnlyPowerLossTears ==
  Spec => [][\/ sector' \in {sector, Empty}
             \/ Write /\ \E i \in 1..Len(given) : sector' = given[i]
             \/ PowerLoss]_vars
<1>1. ASSUME Inv, Write
      PROVE  \E i \in 1..Len(given) : sector' = given[i]
  <2>1. PICK i \in 1..Len(given) : copy = given[i]
    BY <1>1 DEF Inv, Saving, Write
  <2>2. copy \in Content /\ sector' = Program(Empty, copy)
    BY <1>1 DEF Inv, TypeOK, Saving, Write
  <2>3. Program(Empty, copy) = copy
    BY <2>2 DEF Program, Empty, Content
  <2> QED
    BY <2>1, <2>2, <2>3
<1>2. Inv /\ [Next]_vars
        => [\/ sector' \in {sector, Empty}
            \/ Write /\ \E i \in 1..Len(given) : sector' = given[i]
            \/ PowerLoss]_vars
  BY <1>1 DEF Next, vars, SetField, SetDeviceInfo, Save, Erase, EraseFactory, Wipe, Reply,
     Restart, BootFrom
<1> QED
  BY <1>2, InitInv, StepInv, PTL DEF Spec
=============================================================================
