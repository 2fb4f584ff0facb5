------------------------------- MODULE Driver -------------------------------
(***************************************************************************)
(* The life of the driver of src/module.c: ionopimax_init, which takes the *)
(* GPIO lines and creates the class, the devices and their files one after *)
(* the other, ionopimax_exit, and cleanup, which both exit and an init     *)
(* that fails at any of its steps go through.  Processes open the files as *)
(* soon as they exist.  The driver may be bound again; its static pointers *)
(* keep what the last bind left in them.                                   *)
(*                                                                         *)
(* The lines taken later, for the DT modes and Wiegand, are those of       *)
(* DtLines; what a call does on the I2C bus is in I2cBus.                  *)
(***************************************************************************)
EXTENDS Integers, Sequences

CONSTANTS
  Gpios,     \* how many GPIO lines init takes
  Devices,   \* how many entries devices[] has
  Files,     \* how many files each device has
  Uses,      \* [d, f |-> the line the file works on, 0 for none]
  Process,   \* processes that open files
  MayFail,   \* steps of init that may fail
  MaxBinds   \* how often the driver is bound

Gpio == 1 .. Gpios
Device == 1 .. Devices
File == 1 .. Files
NoCall == <<0, 0>>

ASSUME DriverAssumption ==
  /\ Gpios \in Nat \ {0} /\ Devices \in Nat \ {0} /\ Files \in Nat \ {0}
  /\ Uses \in [Device \X File -> {0} \cup Gpio]
  /\ MayFail \subseteq {"gpio", "irq", "class", "device", "file", "probe", "noprobe"}
  /\ MaxBinds \in Nat

VARIABLES
  pc,            \* where init or cleanup is
  next,          \* the line, or the entry of devices[], it is at
  file,          \* the file of that entry
  desc,          \* GpioBean.desc of each line: "null", "held" or "err"
  pDeviceClass,  \* "null", "set" or "err"
  pDevice,       \* of each entry: "null", "set" or "err"
  class,         \* there is a class
  devices,       \* its devices, in the order of creation
  files,         \* the files there are
  i2c,           \* the I2C driver is registered
  client,        \* ionopimax_i2c_client is set
  clientData,    \* and has its data, with the lock
  call,          \* the file each process is in
  binds,         \* history: binds so far
  failed,        \* history: the last one failed
  unprobed,      \* history: the last one found no chip to probe
  misused        \* history: cleanup was given a pointer to nothing

pointers == <<desc, pDeviceClass, pDevice>>
kernel == <<class, devices, files>>
chip == <<i2c, client, clientData>>
history == <<binds, failed, unprobed, misused>>
vars == <<pc, next, file, pointers, kernel, chip, call, history>>

Init ==
  /\ pc = "unbound" /\ next = 1 /\ file = 1
  /\ desc = [g \in Gpio |-> "null"]
  /\ pDeviceClass = "null" /\ pDevice = [d \in Device |-> "null"]
  /\ class = FALSE /\ devices = <<>> /\ files = {}
  /\ i2c = FALSE /\ client = FALSE /\ clientData = FALSE
  /\ call = [p \in Process |-> NoCall]
  /\ binds = 0 /\ failed = FALSE /\ unprobed = FALSE /\ misused = FALSE

Alive(d) == \E i \in 1 .. Len(devices) : devices[i] = d
Goto(label) == pc' = label /\ next' = 1 /\ file' = 1

-----------------------------------------------------------------------------
(* ionopimax_init                                                          *)

\* Mutant: a probe that fails leaves the client there.
ProbedAnyhow ==
  \/ client' = TRUE /\ clientData' = TRUE /\ unprobed' = FALSE
  \/ "probe" \in MayFail /\ client' = TRUE /\ clientData' = FALSE /\ unprobed' = FALSE
  \/ "noprobe" \in MayFail /\ clientData' = FALSE /\ unprobed' = TRUE /\ UNCHANGED client

\* i2c_add_driver has the chip probed: it answers or it does not, or there is
\* none to probe and ionopimax_i2c_client is what it was.
Probed ==
  \/ client' = TRUE /\ clientData' = TRUE /\ unprobed' = FALSE
  \/ "probe" \in MayFail /\ client' = FALSE /\ clientData' = FALSE /\ unprobed' = FALSE
  \/ "noprobe" \in MayFail /\ clientData' = FALSE /\ unprobed' = TRUE /\ UNCHANGED client

\* After a misuse there is no telling what follows.
Bind ==
  /\ pc = "unbound" /\ binds < MaxBinds /\ ~misused
  /\ Goto("gpio")
  /\ i2c' = TRUE /\ Probed
  /\ binds' = binds + 1 /\ failed' = FALSE
  /\ UNCHANGED <<pointers, kernel, call, misused>>

\* Mutant: init returns at once.
FailAtOnce(step) ==
  /\ step \in MayFail
  /\ Goto("unbound")
  /\ failed' = TRUE
  /\ UNCHANGED <<kernel, chip, call, binds, unprobed, misused>>

\* goto fail
Fail(step) ==
  /\ step \in MayFail
  /\ Goto("cleanup")
  /\ failed' = TRUE
  /\ UNCHANGED <<kernel, chip, call, binds, unprobed, misused>>

\* gpioInit or gpioInitDebounce of the next line
GpioInit ==
  /\ pc = "gpio"
  /\ desc' = [desc EXCEPT ![next] = "held"]
  /\ IF next = Gpios THEN Goto("class") ELSE next' = next + 1 /\ UNCHANGED <<pc, file>>
  /\ UNCHANGED <<pDeviceClass, pDevice, kernel, chip, call, history>>

\* The line is refused, or, for a debounced one, its interrupt.
GpioInitFails ==
  /\ pc = "gpio"
  /\ \/ Fail("gpio") /\ desc' = [desc EXCEPT ![next] = "err"]
     \/ Fail("irq") /\ desc' = [desc EXCEPT ![next] = "held"]
  /\ UNCHANGED <<pDeviceClass, pDevice>>

ClassCreate ==
  /\ pc = "class"
  /\ pDeviceClass' = "set" /\ class' = TRUE
  /\ Goto("device")
  /\ UNCHANGED <<desc, pDevice, devices, files, chip, call, history>>

ClassCreateFails ==
  /\ pc = "class"
  /\ Fail("class")
  /\ pDeviceClass' = "err"
  /\ UNCHANGED <<desc, pDevice>>

DeviceCreate ==
  /\ pc = "device"
  /\ pDevice' = [pDevice EXCEPT ![next] = "set"]
  /\ devices' = Append(devices, next)
  /\ pc' = "file" /\ file' = 1
  /\ UNCHANGED <<next, desc, pDeviceClass, class, files, chip, call, history>>

DeviceCreateFails ==
  /\ pc = "device"
  /\ Fail("device")
  /\ pDevice' = [pDevice EXCEPT ![next] = "err"]
  /\ UNCHANGED <<desc, pDeviceClass>>

\* Mutant: the terminator of the table is taken for a file.
LastFileLate == file > Files

LastFile == file = Files

DeviceCreateFile ==
  /\ pc = "file"
  /\ files' = files \cup {<<next, file>>}
  /\ \/ ~LastFile /\ file' = file + 1 /\ UNCHANGED <<pc, next>>
     \/ LastFile /\ next < Devices /\ pc' = "device" /\ next' = next + 1 /\ file' = 1
     \/ LastFile /\ next = Devices /\ Goto("ready")
  /\ UNCHANGED <<pointers, class, devices, chip, call, history>>

DeviceCreateFileFails ==
  /\ pc = "file"
  /\ Fail("file")
  /\ UNCHANGED pointers

-----------------------------------------------------------------------------
(* A process in a show or store.                                           *)

\* Mutant: an error is taken for a pointer.
HasFilesAnyhow(d) == pDevice[d] # "null"

HasFiles(d) == pDevice[d] = "set"

\* The files that are being removed: no new calls get in.
Leaving ==
  CASE pc = "remove" /\ HasFiles(next) -> {<<next, file>>}
    [] pc = "destroy" /\ devices # <<>> -> {Head(devices)} \X File
    [] OTHER -> {}

Open(p) ==
  /\ call[p] = NoCall
  /\ \E f \in files \ Leaving : call' = [call EXCEPT ![p] = f]
  /\ UNCHANGED <<pc, next, file, pointers, kernel, chip, history>>

Return(p) ==
  /\ call[p] # NoCall
  /\ call' = [call EXCEPT ![p] = NoCall]
  /\ UNCHANGED <<pc, next, file, pointers, kernel, chip, history>>

-----------------------------------------------------------------------------
(* ionopimax_exit and cleanup                                              *)

Exit ==
  /\ pc = "ready"
  /\ Goto("cleanup")
  /\ UNCHANGED <<pointers, kernel, chip, call, history>>

Misuse(nothing) == misused' = (misused \/ nothing)

\* Mutant: the lines are given back before the files are gone.
DelDriverAndFree ==
  /\ pc = "cleanup"
  /\ i2c' = FALSE /\ clientData' = FALSE
  /\ desc' = [g \in Gpio |-> "null"]
  /\ Goto("remove")
  /\ UNCHANGED <<pDeviceClass, pDevice, kernel, client, call, binds, failed, unprobed, misused>>

\* i2c_del_driver: ionopimax_i2c_remove destroys the lock, the core releases
\* the data; ionopimax_i2c_client stays.
DelDriver ==
  /\ pc = "cleanup"
  /\ i2c' = FALSE /\ clientData' = FALSE
  /\ Goto("remove")
  /\ UNCHANGED <<pointers, kernel, client, call, binds, failed, unprobed, misused>>

\* device_remove_file waits for the calls in progress; a file that was never
\* created is none.
DeviceRemoveFile ==
  /\ pc = "remove" /\ HasFiles(next)
  /\ \A p \in Process : call[p] # <<next, file>>
  /\ files' = files \ {<<next, file>>}
  /\ Misuse(~Alive(next))
  /\ IF file = Files THEN pc' = "destroy" /\ file' = 1 ELSE file' = file + 1 /\ UNCHANGED pc
  /\ UNCHANGED <<next, pointers, class, devices, chip, call, binds, failed, unprobed>>

\* Mutant: the loop goes on to the next entry only after removing files.
NoFilesAgain ==
  /\ pc = "remove" /\ ~HasFiles(next)
  /\ UNCHANGED vars

NoFiles ==
  /\ pc = "remove" /\ ~HasFiles(next)
  /\ pc' = "destroy"
  /\ UNCHANGED <<next, file, pointers, kernel, chip, call, history>>

\* device_destroy(pDeviceClass, 0): every device has devt 0, the first one
\* created goes, if there is any, with what files it has left.
DeviceDestroy ==
  /\ pc = "destroy"
  /\ Misuse(pDeviceClass = "err" \/ (pDeviceClass = "set" /\ ~class))
  /\ IF devices = <<>> THEN UNCHANGED <<devices, files>>
     ELSE /\ \A p \in Process : call[p][1] # Head(devices)
          /\ devices' = Tail(devices)
          /\ files' = {f \in files : f[1] # Head(devices)}
  /\ IF next = Devices THEN Goto("classDestroy")
     ELSE pc' = "remove" /\ next' = next + 1 /\ file' = 1
  /\ UNCHANGED <<pointers, class, chip, call, binds, failed, unprobed>>

\* class_destroy does nothing for NULL.
ClassDestroy ==
  /\ pc = "classDestroy"
  /\ Misuse(pDeviceClass = "set" /\ (~class \/ devices # <<>>))
  /\ class' = (class /\ pDeviceClass # "set")
  /\ Goto("free")
  /\ UNCHANGED <<pointers, devices, files, chip, call, binds, failed, unprobed>>

GpioFree ==
  /\ pc = "free"
  /\ desc' = [g \in Gpio |-> IF desc[g] = "held" THEN "null" ELSE desc[g]]
  /\ Goto("unbound")
  /\ UNCHANGED <<pDeviceClass, pDevice, kernel, chip, call, history>>

-----------------------------------------------------------------------------
Cleanup == DelDriver \/ DeviceRemoveFile \/ NoFiles \/ DeviceDestroy \/ ClassDestroy \/ GpioFree

InitStep ==
  \/ GpioInit \/ GpioInitFails \/ ClassCreate \/ ClassCreateFails
  \/ DeviceCreate \/ DeviceCreateFails \/ DeviceCreateFile \/ DeviceCreateFileFails

Next == Bind \/ InitStep \/ Exit \/ Cleanup \/ \E p \in Process : Open(p) \/ Return(p)

Spec == Init /\ [][Next]_vars

\* Init and cleanup go on, and so does a process inside a show or store.
FairSpec == Spec /\ WF_vars(InitStep) /\ WF_vars(Cleanup) /\ \A p \in Process : WF_vars(Return(p))

-----------------------------------------------------------------------------
PC == {"unbound", "gpio", "class", "device", "file", "ready", "cleanup", "remove", "destroy",
       "classDestroy", "free"}

TypeOK ==
  /\ pc \in PC /\ next \in Gpio \cup Device /\ file \in File
  /\ desc \in [Gpio -> {"null", "held", "err"}]
  /\ pDeviceClass \in {"null", "set", "err"} /\ pDevice \in [Device -> {"null", "set", "err"}]
  /\ class \in BOOLEAN /\ devices \in Seq(Device) /\ files \subseteq Device \X File
  /\ i2c \in BOOLEAN /\ client \in BOOLEAN /\ clientData \in BOOLEAN
  /\ call \in [Process -> (Device \X File) \cup {NoCall}]
  /\ binds \in 0 .. MaxBinds /\ failed \in BOOLEAN /\ unprobed \in BOOLEAN /\ misused \in BOOLEAN

\* Wherever init failed and however often the driver was bound, nothing is
\* left behind by cleanup: no line, class, device or file, no I2C driver, and
\* nobody is in a call.
NothingLeft ==
  (pc = "unbound" /\ ~misused) =>
    /\ \A g \in Gpio : desc[g] # "held"
    /\ ~class /\ devices = <<>> /\ files = {} /\ ~i2c
    /\ \A p \in Process : call[p] = NoCall

\* cleanup removes files from, and destroys, only what exists: except when
\* class_create has failed, whose error pointer goes to device_destroy, and
\* when a later bind fails, where pDevice and pDeviceClass are still those of
\* the bind before.
CleanupValid ==
  misused => (failed /\ (pDeviceClass = "err" \/ binds > 1))

\* While a process is in a show or store, from the first file on and until
\* cleanup has waited for the last one, the device and the line it works on
\* are there.
FilesServed ==
  \A p \in Process : call[p] # NoCall =>
    /\ call[p] \in files /\ Alive(call[p][1])
    /\ Uses[call[p]] # 0 => desc[Uses[call[p]]] = "held"

\* A process in a show or store finds the client with its data and lock, if
\* it finds one: except that cleanup deletes the I2C driver before the files,
\* and that a client of the bind before is taken for one of this bind.
ClientHasData ==
  (client /\ ~clientData /\ \E p \in Process : call[p] # NoCall) =>
    pc \in {"remove", "destroy"} \/ (unprobed /\ binds > 1)

\* A process that is done does not keep the driver from being removed, and an
\* init that fails comes to its end.
EndsUnbound == (pc = "cleanup") ~> (pc = "unbound")
=============================================================================
