----------------------------- MODULE DriverProofs -----------------------------
(***************************************************************************)
(* Proofs about Driver, for any number of lines, devices, files, processes *)
(* and binds, and any steps of init that may fail.                         *)
(*                                                                         *)
(* The inductive invariant follows init and cleanup through their loops:   *)
(* which lines are held and which devices exist at each index (LinesInv,   *)
(* DevicesInv), that files need their device and calls their file          *)
(* (FilesInv), and what the static pointers are worth (PointersInv): they  *)
(* are true of this bind unless it failed and was not the first one.       *)
(***************************************************************************)
EXTENDS Driver, TLAPS

InitPC == {"gpio", "class", "device", "file"}
RemovePC == {"remove", "destroy"}
CleanupPC == {"cleanup", "remove", "destroy", "classDestroy"}
BarePC == {"unbound", "gpio", "class", "classDestroy", "free"}

AllHeld == \A g \in Gpio : desc[g] = "held"

LinesInv ==
  /\ pc = "gpio" => next \in Gpio /\ \A g \in Gpio : g < next => desc[g] = "held"
  /\ pc \in {"class", "device", "file", "ready"} => AllHeld
  /\ pc = "unbound" => \A g \in Gpio : desc[g] # "held"

DevicesInv ==
  /\ pc \in {"device", "file", "remove", "destroy"} => next \in Device
  /\ pc \in BarePC => devices = <<>>
  /\ pc = "device" => Len(devices) = next - 1
  /\ pc = "file" => Len(devices) = next
  /\ pc = "ready" => Len(devices) = Devices
  /\ pc = "cleanup" => Len(devices) <= Devices
  /\ pc \in RemovePC => Len(devices) <= Devices - next + 1
  /\ pc \notin RemovePC => \A i \in 1 .. Len(devices) : devices[i] = i
  /\ pc \in RemovePC => \A i \in 1 .. Len(devices) : devices[i] = next - 1 + i

FilesInv ==
  /\ \A f \in files : Alive(f[1])
  /\ files # {} => AllHeld
  /\ \A p \in Process : call[p] # NoCall => call[p] \in files

UndoneInv ==
  /\ pc \in {"unbound", "remove", "destroy", "classDestroy", "free"} => ~i2c
  /\ pc \in {"unbound", "gpio", "class", "free"} => ~class
  /\ class => pDeviceClass = "set"

ClientInv ==
  /\ client => binds > 0
  /\ (client /\ ~clientData) =>
       \/ pc \in {"unbound", "remove", "destroy", "classDestroy", "free"}
       \/ unprobed /\ binds > 1

\* The pointers are those of this bind.
Current == binds <= 1 \/ ~failed

PointersInv ==
  /\ pc # "unbound" => binds > 0
  /\ (pc = "unbound" /\ binds = 0) => pDeviceClass = "null" /\ \A d \in Device : pDevice[d] = "null"
  /\ (pc \in {"gpio", "class"} /\ binds <= 1) => pDeviceClass = "null"
  /\ pc \in {"device", "file", "ready"} => class /\ pDeviceClass = "set"
  /\ (pc \in CleanupPC /\ Current) => (pDeviceClass = "set" => class)
  /\ (pc \in CleanupPC /\ ~failed) => pDeviceClass = "set"
  /\ ((pc \in InitPC /\ binds <= 1) \/ (pc = "cleanup" /\ Current)) =>
       \A d \in Device : pDevice[d] = "set" => d <= Len(devices)
  /\ (pc \in RemovePC /\ Current) =>
       \A d \in Device : (pDevice[d] = "set" /\ d >= next) => d < next + Len(devices)

MisuseInv ==
  /\ pc \in InitPC \cup {"ready"} => ~failed /\ ~misused
  /\ CleanupValid

IInv ==
  TypeOK /\ LinesInv /\ DevicesInv /\ FilesInv /\ UndoneInv /\ ClientInv /\ PointersInv /\ MisuseInv

Actions ==
  \/ Bind \/ Exit
  \/ GpioInit \/ GpioInitFails \/ ClassCreate \/ ClassCreateFails
  \/ DeviceCreate \/ DeviceCreateFails \/ DeviceCreateFile \/ DeviceCreateFileFails
  \/ DelDriver \/ DeviceRemoveFile \/ NoFiles \/ DeviceDestroy \/ ClassDestroy \/ GpioFree

-----------------------------------------------------------------------------
LEMMA First ==
  /\ 1 \in Gpio /\ 1 \in Device /\ 1 \in File
  /\ \A g \in Gpio : g # Gpios => g + 1 \in Gpio
  /\ \A d \in Device : d # Devices => d + 1 \in Device
  /\ \A f \in File : f # Files => f + 1 \in File
BY DriverAssumption DEF Gpio, Device, File

LEMMA InitInv ==
  ASSUME Init
  PROVE  IInv
<1>1. TypeOK
  <2>1. devices \in Seq(Device) /\ binds \in 0 .. MaxBinds
    BY DriverAssumption DEF Init
  <2> QED
    BY <2>1, First DEF Init, TypeOK, PC
<1>2. LinesInv /\ UndoneInv /\ ClientInv /\ PointersInv
  BY DEF Init, LinesInv, UndoneInv, ClientInv, PointersInv, InitPC, RemovePC, CleanupPC
<1>3. DevicesInv /\ FilesInv
  BY DEF Init, DevicesInv, FilesInv, BarePC, RemovePC
<1>4. MisuseInv
  BY DEF Init, MisuseInv, CleanupValid, InitPC
<1> QED
  BY <1>1, <1>2, <1>3, <1>4 DEF IInv

\* A process that enters or leaves a file changes nothing else.
LEMMA CallStep ==
  ASSUME IInv, NEW p \in Process, Open(p) \/ Return(p)
  PROVE  IInv'
<1> USE DriverAssumption
<1>1. /\ UNCHANGED <<pc, next, file, desc, pDeviceClass, pDevice, class, devices, files>>
      /\ UNCHANGED <<i2c, client, clientData, binds, failed, unprobed, misused>>
  BY DEF Open, Return, pointers, kernel, chip, history
<1>2. /\ call' \in [Process -> (Device \X File) \cup {NoCall}]
      /\ \A q \in Process : call'[q] # NoCall => call'[q] \in files
  <2>1. call \in [Process -> (Device \X File) \cup {NoCall}] /\ files \subseteq Device \X File
    BY DEF IInv, TypeOK
  <2>2. CASE Open(p)
    BY <2>1, <2>2 DEF Open, IInv, FilesInv
  <2>3. CASE Return(p)
    BY <2>1, <2>3 DEF Return, IInv, FilesInv
  <2> QED
    BY <2>2, <2>3
<1>3. TypeOK'
  BY <1>1, <1>2 DEF IInv, TypeOK
<1>4. LinesInv' /\ UndoneInv' /\ ClientInv' /\ PointersInv'
  BY <1>1 DEF IInv, LinesInv, AllHeld, UndoneInv, ClientInv, PointersInv, Current
<1>5. DevicesInv' /\ MisuseInv'
  BY <1>1 DEF IInv, DevicesInv, MisuseInv, CleanupValid
<1>6. FilesInv'
  BY <1>1, <1>2 DEF IInv, FilesInv, Alive, AllHeld
<1> QED
  BY <1>3, <1>4, <1>5, <1>6 DEF IInv

LEMMA TypeStep ==
  ASSUME IInv, Actions
  PROVE  TypeOK'
<1> USE First
<1>1. TypeOK /\ (pc = "gpio" => next \in Gpio) /\ (pc \in {"device", "file", "remove", "destroy"} => next \in Device)
  BY DEF IInv, LinesInv, DevicesInv
<1>2. pc' \in PC /\ next' \in Gpio \cup Device /\ file' \in File
  <2>1. CASE Bind \/ Exit
    BY <1>1, <2>1 DEF Bind, Exit, Goto, TypeOK, PC
  <2>2. CASE GpioInit \/ GpioInitFails
    BY <1>1, <2>2 DEF GpioInit, GpioInitFails, Fail, Goto, TypeOK, PC
  <2>3. CASE ClassCreate \/ ClassCreateFails \/ DeviceCreate \/ DeviceCreateFails
    BY <1>1, <2>3 DEF ClassCreate, ClassCreateFails, DeviceCreate, DeviceCreateFails, Fail, Goto, TypeOK, PC
  <2>4. CASE DeviceCreateFile \/ DeviceCreateFileFails
    BY <1>1, <2>4 DEF DeviceCreateFile, DeviceCreateFileFails, LastFile, Fail, Goto, TypeOK, PC, Device
  <2>5. CASE DelDriver \/ ClassDestroy \/ GpioFree
    BY <1>1, <2>5 DEF DelDriver, ClassDestroy, GpioFree, Goto, TypeOK, PC
  <2>6. CASE DeviceRemoveFile \/ NoFiles
    BY <1>1, <2>6 DEF DeviceRemoveFile, NoFiles, TypeOK, PC
  <2>7. CASE DeviceDestroy
    BY <1>1, <2>7 DEF DeviceDestroy, Goto, TypeOK, PC
  <2> QED
    BY <2>1, <2>2, <2>3, <2>4, <2>5, <2>6, <2>7 DEF Actions
<1>3. /\ desc' \in [Gpio -> {"null", "held", "err"}]
      /\ pDeviceClass' \in {"null", "set", "err"} /\ pDevice' \in [Device -> {"null", "set", "err"}]
  <2>1. CASE GpioInit \/ GpioInitFails \/ GpioFree
    BY <1>1, <2>1 DEF GpioInit, GpioInitFails, GpioFree, TypeOK
  <2>2. CASE ClassCreate \/ ClassCreateFails \/ DeviceCreate \/ DeviceCreateFails
    BY <1>1, <2>2 DEF ClassCreate, ClassCreateFails, DeviceCreate, DeviceCreateFails, TypeOK
  <2>3. CASE UNCHANGED pointers
    BY <1>1, <2>3 DEF pointers, TypeOK
  <2>4. CASE Bind \/ Exit \/ DeviceCreateFile \/ DeviceCreateFileFails
    BY <2>3, <2>4 DEF Bind, Exit, DeviceCreateFile, DeviceCreateFileFails
  <2>5. CASE DelDriver \/ DeviceRemoveFile \/ NoFiles \/ DeviceDestroy \/ ClassDestroy
    BY <2>3, <2>5 DEF DelDriver, DeviceRemoveFile, NoFiles, DeviceDestroy, ClassDestroy
  <2> QED
    BY <2>1, <2>2, <2>4, <2>5 DEF Actions
<1>4. devices' \in Seq(Device)
  <2>1. CASE DeviceCreate
    BY <1>1, <2>1 DEF DeviceCreate, TypeOK
  <2>2. CASE DeviceDestroy
    BY <1>1, <2>2, SMTT(30) DEF DeviceDestroy, TypeOK
  <2>3. CASE UNCHANGED devices
    BY <1>1, <2>3 DEF TypeOK
  <2>4. CASE ~DeviceCreate /\ ~DeviceDestroy
    BY <2>3, <2>4 DEF Actions, Bind, Exit, GpioInit, GpioInitFails, ClassCreate, ClassCreateFails, DeviceCreateFails,
       DeviceCreateFile, DeviceCreateFileFails, Fail, DelDriver, DeviceRemoveFile, NoFiles, ClassDestroy, GpioFree, kernel
  <2> QED
    BY <2>1, <2>2, <2>4
<1>5. class' \in BOOLEAN /\ files' \subseteq Device \X File
  <2>1. CASE ClassCreate \/ ClassDestroy
    BY <1>1, <2>1 DEF ClassCreate, ClassDestroy, TypeOK
  <2>2. CASE DeviceCreateFile \/ DeviceRemoveFile \/ DeviceDestroy
    <3>1. UNCHANGED class
      BY <2>2 DEF DeviceCreateFile, DeviceRemoveFile, DeviceDestroy
    <3>2. files' \subseteq Device \X File
      BY <1>1, <2>2 DEF DeviceCreateFile, DeviceRemoveFile, DeviceDestroy, TypeOK
    <3> QED
      BY <1>1, <3>1, <3>2 DEF TypeOK
  <2>3. CASE DeviceCreate
    BY <1>1, <2>3 DEF DeviceCreate, TypeOK
  <2>4. CASE UNCHANGED kernel
    BY <1>1, <2>4 DEF kernel, TypeOK
  <2>5. CASE Bind \/ Exit \/ GpioInit \/ GpioInitFails \/ ClassCreateFails \/ DeviceCreateFails \/ DeviceCreateFileFails
             \/ DelDriver \/ NoFiles \/ GpioFree
    BY <2>4, <2>5 DEF Bind, Exit, GpioInit, GpioInitFails, ClassCreateFails, DeviceCreateFails, DeviceCreateFileFails,
       Fail, DelDriver, NoFiles, GpioFree
  <2> QED
    BY <2>1, <2>2, <2>3, <2>5 DEF Actions
<1>6. /\ i2c' \in BOOLEAN /\ client' \in BOOLEAN /\ clientData' \in BOOLEAN
      /\ call' \in [Process -> (Device \X File) \cup {NoCall}]
      /\ binds' \in 0 .. MaxBinds /\ failed' \in BOOLEAN /\ unprobed' \in BOOLEAN /\ misused' \in BOOLEAN
  <2>1. CASE Bind
    <3>1. i2c' \in BOOLEAN /\ client' \in BOOLEAN /\ clientData' \in BOOLEAN /\ failed' \in BOOLEAN /\ unprobed' \in BOOLEAN
      BY <1>1, <2>1 DEF Bind, Probed, TypeOK
    <3>2. binds' \in 0 .. MaxBinds
      BY <1>1, <2>1, DriverAssumption DEF Bind, TypeOK
    <3>3. UNCHANGED <<call, misused>>
      BY <2>1 DEF Bind
    <3> QED
      BY <1>1, <3>1, <3>2, <3>3 DEF TypeOK
  <2>2. CASE DelDriver
    BY <1>1, <2>2 DEF DelDriver, TypeOK
  <2>3. CASE GpioInitFails \/ ClassCreateFails \/ DeviceCreateFails \/ DeviceCreateFileFails
    BY <1>1, <2>3 DEF GpioInitFails, ClassCreateFails, DeviceCreateFails, DeviceCreateFileFails, Fail, chip, TypeOK
  <2>4. CASE DeviceRemoveFile \/ DeviceDestroy \/ ClassDestroy
    <3>1. UNCHANGED <<chip, call, binds, failed, unprobed>> /\ misused' \in BOOLEAN
      BY <1>1, <2>4 DEF DeviceRemoveFile, DeviceDestroy, ClassDestroy, Misuse, TypeOK
    <3> QED
      BY <1>1, <3>1 DEF chip, TypeOK
  <2>5. CASE UNCHANGED <<chip, call, history>>
    BY <1>1, <2>5 DEF chip, history, TypeOK
  <2>6. CASE Exit \/ GpioInit \/ ClassCreate \/ DeviceCreate \/ DeviceCreateFile \/ NoFiles \/ GpioFree
    BY <2>5, <2>6 DEF Exit, GpioInit, ClassCreate, DeviceCreate, DeviceCreateFile, NoFiles, GpioFree
  <2> QED
    BY <2>1, <2>2, <2>3, <2>4, <2>6 DEF Actions
<1> QED
  BY <1>2, <1>3, <1>4, <1>5, <1>6 DEF TypeOK

-----------------------------------------------------------------------------
\* The lines are taken one after the other, and given back at the end.
LEMMA LinesStep ==
  ASSUME IInv, Actions
  PROVE  LinesInv'
<1> USE First DEF AllHeld
<1>1. TypeOK /\ LinesInv
  BY DEF IInv
<1>2. CASE Bind
  BY <1>1, <1>2 DEF Bind, Goto, LinesInv, Gpio
<1>3. CASE GpioInit
  <2>1. pc = "gpio" /\ next \in Gpio /\ \A g \in Gpio : g < next => desc[g] = "held"
    BY <1>1, <1>3 DEF GpioInit, LinesInv
  <2>2. \A g \in Gpio : g < next + 1 => desc'[g] = "held"
    BY <1>1, <1>3, <2>1 DEF GpioInit, TypeOK, Gpio
  <2>3. CASE next = Gpios
    BY <1>3, <2>2, <2>3, DriverAssumption DEF GpioInit, Goto, LinesInv, Gpio
  <2>4. CASE next # Gpios
    BY <1>3, <2>1, <2>2, <2>4 DEF GpioInit, LinesInv
  <2> QED
    BY <2>3, <2>4
<1>4. CASE ClassCreate \/ DeviceCreate
  BY <1>1, <1>4 DEF ClassCreate, DeviceCreate, Goto, LinesInv
<1>5. CASE DeviceCreateFile \/ Exit
  BY <1>1, <1>5 DEF DeviceCreateFile, Exit, Goto, pointers, LinesInv
<1>6. CASE GpioInitFails \/ ClassCreateFails \/ DeviceCreateFails \/ DeviceCreateFileFails
  <2>1. pc' = "cleanup"
    BY <1>6 DEF GpioInitFails, ClassCreateFails, DeviceCreateFails, DeviceCreateFileFails, Fail, Goto
  <2> QED
    BY <2>1 DEF LinesInv
<1>7. CASE DelDriver \/ DeviceRemoveFile \/ NoFiles \/ DeviceDestroy \/ ClassDestroy
  <2>1. pc' \in {"remove", "destroy", "classDestroy", "free"}
    BY <1>7 DEF DelDriver, DeviceRemoveFile, NoFiles, DeviceDestroy, ClassDestroy, Goto
  <2> QED
    BY <2>1 DEF LinesInv
<1>8. CASE GpioFree
  BY <1>1, <1>8 DEF GpioFree, Goto, LinesInv, TypeOK
<1> QED
  BY <1>2, <1>3, <1>4, <1>5, <1>6, <1>7, <1>8 DEF Actions

\* The devices are created in the order of devices[] and destroyed from the
\* first: each round of cleanup takes one, so none is left after the last.
LEMMA DevicesStep ==
  ASSUME IInv, Actions
  PROVE  DevicesInv'
<1> USE First, DriverAssumption DEF BarePC, RemovePC
<1>1. TypeOK /\ DevicesInv /\ devices \in Seq(Device)
  BY DEF IInv, TypeOK
<1>2. CASE Bind
  BY <1>1, <1>2 DEF Bind, Goto, kernel, DevicesInv
<1>3. CASE GpioInit
  BY <1>1, <1>3 DEF GpioInit, Goto, kernel, DevicesInv
<1>4. CASE ClassCreate
  BY <1>1, <1>4 DEF ClassCreate, Goto, DevicesInv
<1>5. CASE DeviceCreate
  <2>1. next \in Device /\ Len(devices) = next - 1 /\ \A i \in 1 .. Len(devices) : devices[i] = i
    BY <1>1, <1>5 DEF DeviceCreate, DevicesInv
  <2>2. devices' = Append(devices, next) /\ pc' = "file" /\ next' = next
    BY <1>5 DEF DeviceCreate
  <2>3. Len(devices') = next /\ \A i \in 1 .. Len(devices') : devices'[i] = i
    BY <1>1, <2>1, <2>2 DEF Device
  <2> QED
    BY <2>1, <2>2, <2>3 DEF DevicesInv
<1>6. CASE DeviceCreateFile
  <2>1. pc = "file" /\ UNCHANGED devices /\ next \in Device /\ Len(devices) = next /\ \A i \in 1 .. Len(devices) : devices[i] = i
    BY <1>1, <1>6 DEF DeviceCreateFile, DevicesInv
  <2>2. \/ pc' = "file" /\ next' = next
        \/ pc' = "device" /\ next' = next + 1 /\ next < Devices
        \/ pc' = "ready" /\ next = Devices
    BY <1>6, <2>1 DEF DeviceCreateFile, Goto
  <2> QED
    BY <2>1, <2>2 DEF DevicesInv, Device
<1>7. CASE GpioInitFails \/ ClassCreateFails \/ DeviceCreateFails \/ DeviceCreateFileFails
  <2>1. pc' = "cleanup" /\ UNCHANGED devices /\ pc \in {"gpio", "class", "device", "file"}
    BY <1>7 DEF GpioInitFails, ClassCreateFails, DeviceCreateFails, DeviceCreateFileFails, Fail, Goto, kernel
  <2>2. Len(devices) <= Devices /\ \A i \in 1 .. Len(devices) : devices[i] = i
    BY <1>1, <2>1 DEF DevicesInv, Device
  <2> QED
    BY <2>1, <2>2 DEF DevicesInv
<1>8. CASE Exit
  BY <1>1, <1>8 DEF Exit, Goto, kernel, DevicesInv
<1>9. CASE DelDriver
  <2>1. pc' = "remove" /\ next' = 1 /\ UNCHANGED devices /\ pc = "cleanup"
    BY <1>9 DEF DelDriver, Goto, kernel
  <2> QED
    BY <1>1, <2>1 DEF DevicesInv, Device
<1>10. CASE DeviceRemoveFile \/ NoFiles
  <2>1. pc = "remove" /\ pc' \in {"remove", "destroy"} /\ UNCHANGED <<next, devices>>
    BY <1>10 DEF DeviceRemoveFile, NoFiles, kernel
  <2> QED
    BY <1>1, <2>1 DEF DevicesInv
<1>11. CASE DeviceDestroy
  <2>1. /\ pc = "destroy" /\ next \in Device /\ Len(devices) <= Devices - next + 1
        /\ \A i \in 1 .. Len(devices) : devices[i] = next - 1 + i
    BY <1>1, <1>11 DEF DeviceDestroy, DevicesInv
  <2>2. /\ Len(devices') <= Devices - next
        /\ \A i \in 1 .. Len(devices') : devices'[i] = next + i
    <3>1. CASE devices = <<>>
      BY <1>11, <2>1, <3>1 DEF DeviceDestroy, Device
    <3>2. CASE devices # <<>>
      <4>1. devices' = Tail(devices)
        BY <1>11, <3>2 DEF DeviceDestroy
      <4>2. Len(Tail(devices)) = Len(devices) - 1 /\ \A i \in 1 .. Len(devices) - 1 : Tail(devices)[i] = devices[i + 1]
        BY <1>1, <3>2
      <4> QED
        BY <1>1, <2>1, <4>1, <4>2 DEF Device
    <3> QED
      BY <3>1, <3>2
  <2>3. devices' \in Seq(Device)
    BY <1>1, <1>11 DEF DeviceDestroy
  <2>4. CASE next = Devices
    <3>1. devices' = <<>> /\ pc' = "classDestroy"
      BY <1>11, <2>2, <2>3, <2>4 DEF DeviceDestroy, Goto
    <3> QED
      BY <3>1 DEF DevicesInv
  <2>5. CASE next # Devices
    <3>1. pc' = "remove" /\ next' = next + 1
      BY <1>11, <2>5 DEF DeviceDestroy
    <3> QED
      BY <2>1, <2>2, <2>5, <3>1 DEF DevicesInv, Device
  <2> QED
    BY <2>4, <2>5
<1>12. CASE ClassDestroy \/ GpioFree
  BY <1>1, <1>12 DEF ClassDestroy, GpioFree, Goto, kernel, DevicesInv
<1> QED
  BY <1>2, <1>3, <1>4, <1>5, <1>6, <1>7, <1>8, <1>9, <1>10, <1>11, <1>12 DEF Actions

\* A file needs its device, a call its file; and while there is a file every
\* line is held.
LEMMA FilesStep ==
  ASSUME IInv, Actions
  PROVE  FilesInv'
<1> USE First DEF AllHeld
<1>1. TypeOK /\ FilesInv /\ LinesInv /\ DevicesInv /\ devices \in Seq(Device) /\ files \subseteq Device \X File
  BY DEF IInv, TypeOK
<1>2. (devices = <<>>) => (files = {})
  BY <1>1 DEF FilesInv, Alive
<1>3. CASE UNCHANGED <<devices, files, call>> /\ (files = {} \/ UNCHANGED desc)
  BY <1>1, <1>3 DEF FilesInv, Alive
<1>4. CASE GpioInit \/ GpioInitFails \/ GpioFree
  <2>1. UNCHANGED <<devices, files, call>> /\ pc \in {"gpio", "free"}
    BY <1>4 DEF GpioInit, GpioInitFails, GpioFree, Fail, kernel
  <2> QED
    BY <1>1, <1>2, <1>3, <2>1 DEF DevicesInv, BarePC
<1>5. CASE Bind \/ Exit \/ ClassCreate \/ ClassCreateFails \/ DeviceCreateFails \/ DeviceCreateFileFails
  BY <1>3, <1>5 DEF Bind, Exit, ClassCreate, ClassCreateFails, DeviceCreateFails, DeviceCreateFileFails, Fail, kernel, pointers
<1>6. CASE DelDriver \/ NoFiles \/ ClassDestroy
  BY <1>3, <1>6 DEF DelDriver, NoFiles, ClassDestroy, kernel, pointers
<1>7. CASE DeviceCreate
  <2>1. devices' = Append(devices, next) /\ UNCHANGED <<desc, files, call>> /\ next \in Device
    BY <1>1, <1>7 DEF DeviceCreate, DevicesInv
  <2>2. \A d \in Device : Alive(d) => Alive(d)'
    BY <1>1, <2>1 DEF Alive
  <2> QED
    BY <1>1, <2>1, <2>2 DEF FilesInv
<1>8. CASE DeviceCreateFile
  <2>1. /\ files' = files \cup {<<next, file>>} /\ UNCHANGED <<desc, devices, call>>
        /\ next \in Device /\ AllHeld
    BY <1>1, <1>8 DEF DeviceCreateFile, pointers, LinesInv, DevicesInv
  <2>2. Alive(next)
    BY <1>1, <1>8 DEF DeviceCreateFile, DevicesInv, RemovePC, Alive, Device
  <2> QED
    BY <1>1, <2>1, <2>2 DEF FilesInv, Alive
<1>9. CASE DeviceRemoveFile
  <2>1. /\ files' = files \ {<<next, file>>} /\ UNCHANGED <<desc, devices, call>>
        /\ \A p \in Process : call[p] # <<next, file>>
    BY <1>9 DEF DeviceRemoveFile, pointers
  <2> QED
    BY <1>1, <2>1 DEF FilesInv, Alive
<1>10. CASE DeviceDestroy
  <2>1. UNCHANGED <<desc, call>>
    BY <1>10 DEF DeviceDestroy, pointers
  <2>2. CASE devices = <<>>
    BY <1>3, <1>10, <2>1, <2>2 DEF DeviceDestroy
  <2>3. CASE devices # <<>>
    <3>1. /\ \A p \in Process : call[p][1] # Head(devices)
          /\ devices' = Tail(devices)
          /\ files' = {f \in files : f[1] # Head(devices)}
      BY <1>10, <2>3 DEF DeviceDestroy
    <3>2. \A d \in Device : Alive(d) /\ d # Head(devices) => Alive(d)'
      <4> TAKE d \in Device
      <4> HAVE Alive(d) /\ d # Head(devices)
      <4>1. PICK i \in 1 .. Len(devices) : devices[i] = d
        BY DEF Alive
      <4>2. i # 1 /\ Tail(devices)[i - 1] = devices[i] /\ Len(Tail(devices)) = Len(devices) - 1
        BY <1>1, <2>3, <4>1
      <4> QED
        BY <1>1, <3>1, <4>1, <4>2 DEF Alive
    <3>3. \A p \in Process : call[p] # NoCall => call[p] \in files'
      BY <1>1, <3>1 DEF FilesInv
    <3> QED
      BY <1>1, <2>1, <3>1, <3>2, <3>3 DEF FilesInv
  <2> QED
    BY <2>2, <2>3
<1> QED
  BY <1>4, <1>5, <1>6, <1>7, <1>8, <1>9, <1>10 DEF Actions

\* The I2C driver and the class.
LEMMA UndoneStep ==
  ASSUME IInv, Actions
  PROVE  UndoneInv'
<1>1. UndoneInv
  BY DEF IInv
<1>2. CASE Bind \/ Exit \/ GpioInit
  BY <1>1, <1>2 DEF Bind, Exit, GpioInit, Goto, pointers, kernel, chip, UndoneInv
<1>3. CASE GpioInitFails \/ ClassCreateFails \/ DeviceCreateFails \/ DeviceCreateFileFails
  <2>1. pc' = "cleanup" /\ UNCHANGED class
    BY <1>3 DEF GpioInitFails, ClassCreateFails, DeviceCreateFails, DeviceCreateFileFails, Fail, Goto, kernel
  <2>2. UNCHANGED pDeviceClass \/ pc = "class"
    BY <1>3 DEF GpioInitFails, ClassCreateFails, DeviceCreateFails, DeviceCreateFileFails, pointers
  <2> QED
    BY <1>1, <2>1, <2>2 DEF UndoneInv
<1>4. CASE ClassCreate \/ DeviceCreate \/ DeviceCreateFile
  BY <1>1, <1>4 DEF ClassCreate, DeviceCreate, DeviceCreateFile, Goto, pointers, chip, UndoneInv
<1>5. CASE DelDriver \/ GpioFree
  BY <1>1, <1>5 DEF DelDriver, GpioFree, Goto, pointers, kernel, chip, UndoneInv
<1>6. CASE DeviceRemoveFile \/ NoFiles \/ DeviceDestroy
  <2>1. pc \in {"remove", "destroy"} /\ pc' \in {"remove", "destroy", "classDestroy"} /\ UNCHANGED <<i2c, class, pDeviceClass>>
    BY <1>6 DEF DeviceRemoveFile, NoFiles, DeviceDestroy, Goto, pointers, kernel, chip
  <2> QED
    BY <1>1, <2>1 DEF UndoneInv
<1>7. CASE ClassDestroy
  BY <1>1, <1>7 DEF ClassDestroy, Goto, pointers, chip, UndoneInv
<1> QED
  BY <1>2, <1>3, <1>4, <1>5, <1>6, <1>7 DEF Actions

\* The client is without its data only from i2c_del_driver on, or when a bind
\* that probed nothing kept the client of another.
LEMMA ClientStep ==
  ASSUME IInv, Actions
  PROVE  ClientInv'
<1>1. ClientInv /\ binds \in Nat
  BY DriverAssumption DEF IInv, TypeOK
<1>2. CASE Bind
  BY <1>1, <1>2 DEF Bind, Probed, ClientInv
<1>3. CASE DelDriver
  BY <1>1, <1>3 DEF DelDriver, Goto, ClientInv
<1>4. CASE UNCHANGED <<client, clientData, binds, unprobed>> /\ pc \in InitPC \cup {"ready"}
  BY <1>1, <1>4 DEF ClientInv, InitPC
<1>5. CASE GpioInitFails \/ ClassCreateFails \/ DeviceCreateFails \/ DeviceCreateFileFails
  BY <1>4, <1>5 DEF GpioInitFails, ClassCreateFails, DeviceCreateFails, DeviceCreateFileFails, Fail, chip, InitPC
<1>6. CASE Exit \/ GpioInit \/ ClassCreate \/ DeviceCreate \/ DeviceCreateFile
  BY <1>4, <1>6 DEF Exit, GpioInit, ClassCreate, DeviceCreate, DeviceCreateFile, chip, history, InitPC
<1>7. CASE DeviceRemoveFile \/ NoFiles \/ DeviceDestroy \/ ClassDestroy \/ GpioFree
  <2>1. UNCHANGED <<client, clientData, binds, unprobed>>
    BY <1>7 DEF DeviceRemoveFile, NoFiles, DeviceDestroy, ClassDestroy, GpioFree, chip, history
  <2>2. pc' \in {"unbound", "remove", "destroy", "classDestroy", "free"}
    BY <1>7 DEF DeviceRemoveFile, NoFiles, DeviceDestroy, ClassDestroy, GpioFree, Goto
  <2> QED
    BY <1>1, <2>1, <2>2 DEF ClientInv
<1> QED
  BY <1>2, <1>3, <1>5, <1>6, <1>7 DEF Actions

\* What the pointers are worth in cleanup: those of an init that failed in the
\* first bind, or of one that did not fail, point to what there is.
LEMMA PointersStep ==
  ASSUME IInv, Actions
  PROVE  PointersInv'
<1> USE First DEF Current, InitPC, RemovePC, CleanupPC
<1>1. TypeOK /\ PointersInv /\ DevicesInv /\ UndoneInv /\ devices \in Seq(Device) /\ binds \in Nat
  BY DriverAssumption DEF IInv, TypeOK
<1>2. pc \in InitPC \cup {"ready"} => ~failed
  BY DEF IInv, MisuseInv
<1>3. CASE Bind
  BY <1>1, <1>3 DEF Bind, Goto, pointers, kernel, PointersInv
<1>4. CASE GpioInit
  BY <1>1, <1>4 DEF GpioInit, Goto, kernel, history, PointersInv
<1>5. CASE ClassCreate
  BY <1>1, <1>5 DEF ClassCreate, Goto, history, PointersInv
<1>6. CASE DeviceCreate
  <2>1. Len(devices) = next - 1 /\ next \in Device /\ Len(devices') = next
    BY <1>1, <1>6 DEF DeviceCreate, DevicesInv, Device
  <2>2. \A d \in Device : (binds <= 1 /\ pDevice'[d] = "set") => d <= next
    BY <1>1, <1>6, <2>1 DEF DeviceCreate, PointersInv, TypeOK, Device
  <2> QED
    BY <1>1, <1>6, <2>1, <2>2 DEF DeviceCreate, history, PointersInv
<1>7. CASE DeviceCreateFile
  <2>1. /\ pc = "file" /\ pc' \in {"file", "device", "ready"}
        /\ UNCHANGED <<pDeviceClass, pDevice, class, devices, binds, failed>>
    BY <1>7 DEF DeviceCreateFile, Goto, pointers, history
  <2> QED
    BY <1>1, <2>1 DEF PointersInv
<1>8. CASE GpioInitFails \/ ClassCreateFails \/ DeviceCreateFails \/ DeviceCreateFileFails
  <2>1. pc \in InitPC /\ pc' = "cleanup" /\ UNCHANGED <<class, devices, binds>> /\ failed' = TRUE
    BY <1>8 DEF GpioInitFails, ClassCreateFails, DeviceCreateFails, DeviceCreateFileFails, Fail, Goto, kernel
  <2>2. UNCHANGED pDeviceClass \/ pDeviceClass' = "err"
    BY <1>8 DEF GpioInitFails, ClassCreateFails, DeviceCreateFails, DeviceCreateFileFails, pointers
  <2>3. \A d \in Device : pDevice'[d] = "set" => pDevice[d] = "set"
    <3>1. CASE DeviceCreateFails
      BY <1>1, <3>1 DEF DeviceCreateFails, TypeOK
    <3>2. CASE GpioInitFails \/ ClassCreateFails \/ DeviceCreateFileFails
      BY <3>2 DEF GpioInitFails, ClassCreateFails, DeviceCreateFileFails, pointers
    <3> QED
      BY <1>8, <3>1, <3>2
  <2> QED
    BY <1>1, <2>1, <2>2, <2>3 DEF PointersInv
<1>9. CASE Exit
  BY <1>1, <1>2, <1>9 DEF Exit, Goto, pointers, kernel, history, PointersInv, DevicesInv, Device
<1>10. CASE DelDriver
  BY <1>1, <1>10 DEF DelDriver, Goto, pointers, kernel, PointersInv, Device
<1>11. CASE DeviceRemoveFile \/ NoFiles
  <2>1. /\ pc = "remove" /\ pc' \in {"remove", "destroy"}
        /\ UNCHANGED <<next, pDeviceClass, pDevice, class, devices, binds, failed>>
    BY <1>11 DEF DeviceRemoveFile, NoFiles, pointers, kernel, history
  <2> QED
    BY <1>1, <2>1 DEF PointersInv
<1>12. CASE DeviceDestroy
  <2>1. /\ pc = "destroy" /\ next \in Device
        /\ UNCHANGED <<pDeviceClass, pDevice, class, binds, failed>>
        /\ \/ pc' = "classDestroy"
           \/ pc' = "remove" /\ next' = next + 1
    BY <1>1, <1>12 DEF DeviceDestroy, Goto, pointers, DevicesInv
  <2>2. Len(devices') = IF devices = <<>> THEN 0 ELSE Len(devices) - 1
    BY <1>1, <1>12 DEF DeviceDestroy
  <2>3. Current => \A d \in Device : (pDevice[d] = "set" /\ d >= next + 1) => d < next + 1 + Len(devices')
    <3>1. Current => \A d \in Device : (pDevice[d] = "set" /\ d >= next) => d < next + Len(devices)
      BY <1>1, <2>1 DEF PointersInv
    <3>2. Len(devices) \in Nat /\ (Len(devices) = 0 \/ Len(devices') = Len(devices) - 1)
      <4>1. CASE devices = <<>>
        BY <4>1
      <4>2. CASE devices # <<>>
        BY <1>1, <2>2, <4>2
      <4> QED
        BY <4>1, <4>2
    <3>3. SUFFICES ASSUME Current, NEW d \in Device, pDevice[d] = "set", d >= next + 1
                   PROVE  d < next + 1 + Len(devices')
      OBVIOUS
    <3>4. d \in Int /\ next \in Int
      BY <2>1 DEF Device
    <3>5. d < next + Len(devices)
      BY <2>1, <3>1, <3>3, <3>4
    <3> QED
      BY <3>2, <3>3, <3>4, <3>5
  <2> QED
    BY <1>1, <2>1, <2>3 DEF PointersInv
<1>13. CASE ClassDestroy \/ GpioFree
  BY <1>1, <1>13 DEF ClassDestroy, GpioFree, Goto, pointers, history, PointersInv
<1> QED
  BY <1>3, <1>4, <1>5, <1>6, <1>7, <1>8, <1>9, <1>10, <1>11, <1>12, <1>13 DEF Actions

\* cleanup is given a pointer to nothing only as CleanupValid says.
LEMMA MisuseStep ==
  ASSUME IInv, Actions
  PROVE  MisuseInv'
<1> USE DEF InitPC, RemovePC, CleanupPC
<1>1. TypeOK /\ MisuseInv /\ PointersInv /\ DevicesInv /\ devices \in Seq(Device) /\ binds \in Nat
  BY DriverAssumption DEF IInv, TypeOK
<1>2. CASE Bind
  BY <1>2 DEF Bind, MisuseInv, CleanupValid
<1>3. CASE GpioInitFails \/ ClassCreateFails \/ DeviceCreateFails \/ DeviceCreateFileFails
  <2>1. pc' = "cleanup" /\ pc \in InitPC /\ UNCHANGED misused
    BY <1>3 DEF GpioInitFails, ClassCreateFails, DeviceCreateFails, DeviceCreateFileFails, Fail, Goto
  <2> QED
    BY <1>1, <2>1 DEF MisuseInv, CleanupValid
<1>4. CASE Exit \/ GpioInit \/ ClassCreate \/ DeviceCreate \/ DeviceCreateFile
  <2>1. pc \in InitPC \cup {"ready"} /\ UNCHANGED <<failed, misused>>
    BY <1>4 DEF Exit, GpioInit, ClassCreate, DeviceCreate, DeviceCreateFile, history
  <2> QED
    BY <1>1, <2>1 DEF MisuseInv, CleanupValid
<1>5. CASE /\ pc' \in CleanupPC \cup {"free", "unbound"} /\ UNCHANGED <<pDeviceClass, binds, failed>>
           /\ misused' => misused \/ (failed /\ (pDeviceClass = "err" \/ binds > 1))
  BY <1>1, <1>5 DEF MisuseInv, CleanupValid
<1>6. CASE DelDriver \/ NoFiles \/ GpioFree
  BY <1>5, <1>6 DEF DelDriver, NoFiles, GpioFree, Goto, pointers, history
<1>7. CASE DeviceRemoveFile
  <2>1. /\ pc = "remove" /\ pc' \in {"remove", "destroy"} /\ UNCHANGED <<pDeviceClass, binds, failed>>
        /\ misused' = (misused \/ ~Alive(next)) /\ pDevice[next] = "set"
    BY <1>7 DEF DeviceRemoveFile, Misuse, HasFiles, pointers
  <2>2. Current => Alive(next)
    <3>1. next \in Device /\ \A i \in 1 .. Len(devices) : devices[i] = next - 1 + i
      BY <1>1, <2>1 DEF DevicesInv
    <3>2. Current => Len(devices) > 0
      BY <1>1, <2>1, <3>1 DEF PointersInv, Device
    <3> QED
      BY <1>1, <3>1, <3>2 DEF Alive, Device
  <2>3. ~Alive(next) => failed /\ binds > 1
    BY <1>1, <2>2 DEF Current
  <2> QED
    BY <1>5, <2>1, <2>3
<1>8. CASE DeviceDestroy
  <2>1. /\ pc = "destroy" /\ pc' \in {"remove", "classDestroy"} /\ UNCHANGED <<pDeviceClass, binds, failed>>
        /\ misused' = (misused \/ pDeviceClass = "err" \/ (pDeviceClass = "set" /\ ~class))
    BY <1>8 DEF DeviceDestroy, Misuse, Goto, pointers
  <2>2. (pDeviceClass = "err" => failed) /\ (pDeviceClass = "set" /\ ~class => failed /\ binds > 1)
    BY <1>1, <2>1 DEF PointersInv, Current
  <2> QED
    BY <1>5, <2>1, <2>2
<1>9. CASE ClassDestroy
  <2>1. /\ pc = "classDestroy" /\ pc' = "free" /\ UNCHANGED <<pDeviceClass, binds, failed>>
        /\ misused' = (misused \/ (pDeviceClass = "set" /\ (~class \/ devices # <<>>)))
    BY <1>9 DEF ClassDestroy, Misuse, Goto, pointers
  <2>2. pDeviceClass = "set" /\ (~class \/ devices # <<>>) => failed /\ binds > 1
    BY <1>1, <2>1 DEF PointersInv, DevicesInv, BarePC, Current
  <2> QED
    BY <1>5, <2>1, <2>2
<1> QED
  BY <1>2, <1>3, <1>4, <1>6, <1>7, <1>8, <1>9 DEF Actions

\* A step that changes nothing
LEMMA Stutter ==
  ASSUME IInv, UNCHANGED vars
  PROVE  IInv'
<1>1. /\ UNCHANGED <<pc, next, file, desc, pDeviceClass, pDevice, class, devices, files, call>>
      /\ UNCHANGED <<i2c, client, clientData, binds, failed, unprobed, misused>>
  BY DEF vars, pointers, kernel, chip, history
<1>2. TypeOK'
  BY <1>1 DEF IInv, TypeOK
<1>3. LinesInv' /\ UndoneInv' /\ ClientInv' /\ PointersInv'
  BY <1>1 DEF IInv, LinesInv, AllHeld, UndoneInv, ClientInv, PointersInv, Current
<1>4. DevicesInv' /\ FilesInv' /\ MisuseInv'
  BY <1>1 DEF IInv, DevicesInv, FilesInv, Alive, AllHeld, MisuseInv, CleanupValid
<1> QED
  BY <1>2, <1>3, <1>4 DEF IInv

THEOREM Invariance == Spec => []IInv
<1>1. Init => IInv
  BY InitInv
<1>2. IInv /\ [Next]_vars => IInv'
  <2> SUFFICES ASSUME IInv, [Next]_vars PROVE IInv'
    OBVIOUS
  <2>1. CASE Actions
    BY <2>1, TypeStep, LinesStep, DevicesStep, FilesStep, UndoneStep, ClientStep, PointersStep, MisuseStep DEF IInv
  <2>2. CASE \E p \in Process : Open(p) \/ Return(p)
    BY <2>2, CallStep
  <2>3. CASE UNCHANGED vars
    BY <2>3, Stutter
  <2> QED
    BY <2>1, <2>2, <2>3 DEF Next, InitStep, Cleanup, Actions
<1> QED
  BY <1>1, <1>2, PTL DEF Spec

-----------------------------------------------------------------------------
\* Every variable keeps its type.
THEOREM TypeCorrect == Spec => []TypeOK
BY Invariance, PTL DEF IInv

\* Wherever ionopimax_init fails and however often the driver is bound,
\* cleanup leaves no line held, no class, device or file, no I2C driver and
\* nobody in a call.
THEOREM NothingIsLeft == Spec => []NothingLeft
<1>1. IInv => NothingLeft
  <2> SUFFICES ASSUME IInv, pc = "unbound" PROVE NothingLeft
    BY DEF NothingLeft
  <2>1. devices = <<>>
    BY DEF IInv, DevicesInv, BarePC
  <2>2. files = {} /\ \A p \in Process : call[p] = NoCall
    BY <2>1 DEF IInv, FilesInv, Alive
  <2> QED
    BY <2>1, <2>2 DEF IInv, LinesInv, UndoneInv, NothingLeft
<1> QED
  BY <1>1, Invariance, PTL

\* cleanup passes a pointer to nothing only after class_create has failed, or
\* when an init fails that is not the first.
THEOREM CleanupIsValid == Spec => []CleanupValid
<1>1. IInv => CleanupValid
  BY DEF IInv, MisuseInv
<1> QED
  BY <1>1, Invariance, PTL

\* A process in a show or store has its device and its line, from the first
\* file created until the last call has returned.
THEOREM FilesAreServed == Spec => []FilesServed
<1>1. IInv => FilesServed
  <2> SUFFICES ASSUME IInv, NEW p \in Process, call[p] # NoCall
               PROVE  /\ call[p] \in files /\ Alive(call[p][1])
                      /\ Uses[call[p]] # 0 => desc[Uses[call[p]]] = "held"
    BY DEF FilesServed
  <2>1. call[p] \in files /\ files \subseteq Device \X File
    BY DEF IInv, FilesInv, TypeOK
  <2>2. Uses[call[p]] \in {0} \cup Gpio
    BY <2>1, DriverAssumption
  <2> QED
    BY <2>1, <2>2 DEF IInv, FilesInv, AllHeld
<1> QED
  BY <1>1, Invariance, PTL

\* A process in a show or store finds the client whole, but while cleanup
\* removes the files and after a bind that probed nothing.
THEOREM ClientHasItsData == Spec => []ClientHasData
<1>1. IInv => ClientHasData
  <2> SUFFICES ASSUME IInv, client, ~clientData, NEW p \in Process, call[p] # NoCall
               PROVE  pc \in {"remove", "destroy"} \/ (unprobed /\ binds > 1)
    BY DEF ClientHasData
  <2>1. devices # <<>>
    BY DEF IInv, FilesInv, Alive
  <2> QED
    BY <2>1 DEF IInv, ClientInv, DevicesInv, BarePC
<1> QED
  BY <1>1, Invariance, PTL
=============================================================================
