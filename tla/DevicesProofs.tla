---------------------------- MODULE DevicesProofs ---------------------------
(***************************************************************************)
(* The devices, for every set of threads, bytes, sectors and contents.     *)
(*                                                                         *)
(* The disk driver, for any number of spurious interrupts: a request that  *)
(* returns was acknowledged, no request ends in PANIC, and the channel is  *)
(* a disk.                                                                 *)
(*                                                                         *)
(* The interrupt queue, for every size of the ring: no sleeper is          *)
(* overlooked, and the ring is a queue.                                    *)
(***************************************************************************)
EXTENDS Intq, Ide, Sequences, FiniteSetTheorems, SequenceTheorems, TLAPS

(* The disk driver.                                                        *)

\* u has its turn on the channel.
Active(u) == at[u] \in {"select", "issue", "down", "busy", "release"}

\* u has issued a command and not taken its completion.
Owed(u) == at[u] = "down" \/ (at[u] = "busy" /\ request[u].op = "write")

\* The completions there are, and those that the handler and the disk will
\* still make of what is under way.
Coming ==
  completion + (IF irq THEN 1 ELSE 0)
    + (IF device.phase \in {"reading", "accepting", "ready", "storing"} THEN 1 ELSE 0)

DeviceRecord == [phase : {"idle", "reading", "loaded", "accepting", "ready", "storing"},
                 sector : Sector, data : Value]

\* The types, without what follows from the rest of the invariant.
Types ==
  /\ completion \in Nat /\ spurious \in 0..MaxSpurious
  /\ at \in [User -> {"out", "lock", "select", "issue", "down", "busy", "release"}]
  /\ DOMAIN request = User
  /\ result \in [User -> Value]
  /\ disk \in [Sector -> Value]
  /\ device \in DeviceRecord

\* A thread in a call has a request; identify comes before all others.
Requests ==
  \A u \in User : at[u] # "out" =>
    IF registered THEN request[u] \in Store!Request
    ELSE request[u] = [op |-> "identify"] /\ at[u] \in {"select", "issue", "down", "busy"}

\* One thread at a time has its turn, with the lock unless it identifies the
\* disk.
Turns ==
  /\ \A u, v \in User : Active(u) /\ Active(v) => u = v
  /\ \A u \in User : Active(u) => lock = IF registered THEN {u} ELSE {}
  /\ (\A u \in User : ~ Active(u)) => lock = {}

\* What the disk does is what the thread that has its turn has asked for.
Phases ==
  /\ \A u \in User :
       /\ at[u] = "issue" => device.phase = "idle"
       /\ at[u] \in {"down", "busy"} /\ request[u].op # "write"
            => /\ device.phase \in {"reading", "loaded"}
               /\ request[u].op = "read" => device.sector = request[u].sector
       /\ at[u] = "busy" /\ request[u].op = "write"
            => /\ device.phase \in {"accepting", "ready"}
               /\ device.sector = request[u].sector
       /\ at[u] \in {"select", "release"} \/ (at[u] = "down" /\ request[u].op = "write")
            => device.phase \in {"idle", "storing"}
  /\ (\A u \in User : ~ Active(u)) => device.phase \in {"idle", "storing"}
  /\ device.phase = "loaded" => device.data = disk[device.sector]

\* No more completions come than the command under way and the spurious
\* interrupts account for.
Completions ==
  /\ Coming <= spurious + 1
  /\ (\A u \in User : ~ Owed(u)) => Coming <= spurious

IdeInv == Types /\ Requests /\ Turns /\ Phases /\ Completions

\* After ide_init one thread identifies the disk, which is idle.
LEMMA IdeInvInit == IdeInit => IdeInv
<1> SUFFICES ASSUME IdeInit PROVE IdeInv
  OBVIOUS
<1>1. /\ (CHOOSE t \in User : TRUE) \in User /\ (CHOOSE s \in Sector : TRUE) \in Sector
      /\ Blank \in Value /\ MaxSpurious \in Nat
  BY IdeAssumption DEF Blank
<1> DEFINE u == CHOOSE t \in User : TRUE
           s == CHOOSE t \in Sector : TRUE
<1>2. /\ lock = {} /\ completion = 0 /\ registered = FALSE
      /\ at = [t \in User |-> IF t = u THEN "select" ELSE "out"]
      /\ request = [t \in User |-> [op |-> "identify"]]
      /\ result = [t \in User |-> Blank]
      /\ disk = [t \in Sector |-> Blank]
      /\ device = [phase |-> "idle", sector |-> s, data |-> Blank]
      /\ irq = FALSE /\ spurious = 0
  BY DEF IdeInit
<1>3. u \in User /\ s \in Sector
  BY <1>1
<1> HIDE DEF u, s
<1>4. Types
  BY <1>1, <1>2, <1>3 DEF Types, DeviceRecord
<1>5. Requests /\ Turns
  BY <1>2, <1>3 DEF Requests, Turns, Active
<1>6. Phases
  BY <1>2, <1>3 DEF Phases, Active
<1>7. Completions
  <2>1. Coming = 0
    BY <1>2 DEF Coming
  <2> QED
    BY <1>2, <2>1 DEF Completions
<1> QED
  BY <1>4, <1>5, <1>6, <1>7 DEF IdeInv

\* No step of the driver or of the disk breaks the invariant.
LEMMA IdeInvStep == IdeInv /\ [IdeNext]_ideVars => IdeInv'
<1> SUFFICES ASSUME IdeInv, [IdeNext]_ideVars PROVE IdeInv'
  OBVIOUS
<1> USE IdeAssumption
        DEF IdeInv, Types, Requests, Turns, Phases, Completions, Active, Owed, Coming,
            DeviceRecord, Goto, hardware, driver, BSY, DRQ, Store!Request
<1>1. ASSUME NEW u \in User, NEW s \in Sector, block_read(u, s) PROVE IdeInv'
  BY <1>1 DEF block_read
<1>2. ASSUME NEW u \in User, NEW s \in Sector, NEW v \in Value, block_write(u, s, v)
      PROVE  IdeInv'
  BY <1>2 DEF block_write
<1>3. ASSUME NEW u \in User, lock_acquire(u) PROVE IdeInv'
  BY <1>3 DEF lock_acquire
<1>4. ASSUME NEW u \in User, select_sector(u) PROVE IdeInv'
  <2>1. Types'
    BY <1>4 DEF select_sector
  <2>2. Requests' /\ Turns'
    BY <1>4 DEF select_sector
  <2>3. Phases'
    BY <1>4 DEF select_sector
  <2>4. Completions'
    <3>1. CASE irq' = irq
      BY <1>4, <3>1 DEF select_sector
    <3>2. CASE irq' = FALSE
      BY <1>4, <3>2 DEF select_sector
    <3> QED
      BY <1>4, <3>1, <3>2, Zenon DEF select_sector
  <2> QED
    BY <2>1, <2>2, <2>3, <2>4, Zenon
<1>5. ASSUME NEW u \in User, issue_pio_command(u) PROVE IdeInv'
  <2>1. Types'
    <3>1. /\ device'.phase \in {"reading", "accepting"} /\ device'.sector \in Sector
          /\ device'.data = device.data
          /\ device' \in DeviceRecord
      <4>1. CASE request[u].op = "identify"
        <5>1. device' = [device EXCEPT !.phase = "reading"]
          BY <1>5, <4>1 DEF issue_pio_command
        <5> QED
          BY <5>1
      <4>2. CASE request[u].op # "identify"
        <5>1. request[u].sector \in Sector
          BY <1>5, <4>2 DEF issue_pio_command
        <5>2. \E p \in {"reading", "accepting"} :
                device' = [device EXCEPT !.sector = request[u].sector, !.phase = p]
          BY <1>5, <4>2, Zenon DEF issue_pio_command
        <5> QED
          BY <5>1, <5>2, Zenon
      <4> QED
        BY <4>1, <4>2
    <3> QED
      BY <1>5, <3>1 DEF issue_pio_command
  <2>2. Requests' /\ Turns'
    BY <1>5 DEF issue_pio_command
  <2>3. Phases'
    BY <1>5 DEF issue_pio_command
  <2>4. Completions'
    BY <1>5 DEF issue_pio_command
  <2> QED
    BY <2>1, <2>2, <2>3, <2>4, Zenon
<1>6. ASSUME NEW u \in User, sema_down(u) PROVE IdeInv'
  BY <1>6 DEF sema_down
<1>7. ASSUME NEW u \in User, ide_read_data(u) PROVE IdeInv'
  BY <1>7 DEF ide_read_data
<1>8. ASSUME NEW u \in User, ide_write_data(u) PROVE IdeInv'
  <2>0. /\ device.phase = "ready" /\ device' \in DeviceRecord
        /\ device'.phase = "storing" /\ device'.sector = device.sector
        /\ request[u].value \in Value /\ at' = [at EXCEPT ![u] = "down"]
        /\ UNCHANGED <<lock, completion, expecting_interrupt, registered, request,
                       result, disk, irq, spurious>>
    <3>1. device.phase \in {"accepting", "ready"} /\ request[u].value \in Value
      BY <1>8 DEF ide_write_data
    <3>2. device.phase = "ready"
      BY <1>8, <3>1 DEF ide_write_data
    <3>3. device' = [device EXCEPT !.phase = "storing", !.data = request[u].value]
      BY <1>8, <3>2 DEF ide_write_data
    <3>4. /\ device'.phase = "storing" /\ device'.sector = device.sector
          /\ device' \in DeviceRecord
      BY <3>1, <3>3, Zenon
    <3> QED
      BY <1>8, <3>1, <3>2, <3>4 DEF ide_write_data
  <2>1. Types'
    BY <1>8, <2>0
  <2>2. Requests' /\ Turns'
    BY <1>8 DEF ide_write_data
  <2>3. Phases'
    BY <1>8, <2>0 DEF ide_write_data
  <2>4. Completions'
    BY <1>8 DEF ide_write_data
  <2> QED
    BY <2>1, <2>2, <2>3, <2>4, Zenon
<1>9. ASSUME NEW u \in User, identify_ata_device(u) PROVE IdeInv'
  BY <1>9 DEF identify_ata_device
<1>10. ASSUME NEW u \in User, lock_release(u) PROVE IdeInv'
  BY <1>10 DEF lock_release
<1>11. CASE interrupt_handler
  <2>1. Types'
    BY <1>11 DEF interrupt_handler
  <2>2. Requests' /\ Turns'
    BY <1>11 DEF interrupt_handler
  <2>3. Phases'
    BY <1>11 DEF interrupt_handler
  <2>4. Completions'
    BY <1>11 DEF interrupt_handler
  <2> QED
    BY <2>1, <2>2, <2>3, <2>4, Zenon
<1>12. CASE DeviceStep
  <2>1. UNCHANGED <<driver, spurious>>
    BY <1>12 DEF DeviceStep
  <2>2. CASE device.phase = "reading"
    <3>1. /\ device'.phase = "loaded" /\ device'.sector = device.sector
          /\ device'.data = disk[device.sector] /\ device' \in DeviceRecord
          /\ irq' = TRUE /\ disk' = disk
      <4>1. /\ device' = [device EXCEPT !.phase = "loaded", !.data = disk[device.sector]]
            /\ irq' = TRUE /\ disk' = disk
        BY <1>12, <2>2 DEF DeviceStep
      <4> QED
        BY <4>1, Zenon
    <3> QED
      BY <2>1, <2>2, <3>1
  <2>3. CASE device.phase = "accepting"
    <3>1. /\ device'.phase = "ready" /\ device'.sector = device.sector
          /\ device'.data = device.data /\ device' \in DeviceRecord
          /\ UNCHANGED <<disk, irq>>
      BY <1>12, <2>3 DEF DeviceStep
    <3> QED
      BY <2>1, <2>3, <3>1
  <2>4. CASE device.phase = "storing"
    <3>1. /\ device'.phase = "idle" /\ device'.sector = device.sector
          /\ device'.data = device.data /\ device' \in DeviceRecord
          /\ disk' = [disk EXCEPT ![device.sector] = device.data] /\ irq' = TRUE
      BY <1>12, <2>4 DEF DeviceStep
    <3> QED
      BY <2>1, <2>4, <3>1
  <2> QED
    BY <1>12, <2>2, <2>3, <2>4 DEF DeviceStep
<1>13. CASE SpuriousInterrupt
  BY <1>13 DEF SpuriousInterrupt
<1>14. CASE UNCHANGED ideVars
  BY <1>14 DEF ideVars
<1> QED
  BY <1>1, <1>2, <1>3, <1>4, <1>5, <1>6, <1>7, <1>8, <1>9, <1>10, <1>11, <1>12, <1>13,
     <1>14, Zenon DEF IdeNext, IdeStep

\* The invariant says that the channel is at rest when its lock is free.
LEMMA IdeInvAcknowledged == IdeInv => Acknowledged
<1> SUFFICES ASSUME IdeInv PROVE Acknowledged
  OBVIOUS
<1> USE DEF IdeInv, Types, Turns, Phases, Completions, Active, Owed, Coming,
            DeviceRecord
<1>1. completion \in 0..(MaxSpurious + 1)
  BY IdeAssumption
<1>2. lock = {} \/ \E u \in User : lock = {u}
  OBVIOUS
<1>3. lock \subseteq User /\ Cardinality(lock) <= 1
  <2>1. CASE lock = {}
    BY <2>1, FS_EmptySet
  <2>2. CASE \E u \in User : lock = {u}
    <3>1. PICK u \in User : lock = {u}
      BY <2>2
    <3>2. Cardinality({u}) = 1
      BY FS_Singleton, Zenon
    <3> QED
      BY <3>1, <3>2
  <2> QED
    BY <1>2, <2>1, <2>2
<1>4. ASSUME registered, spurious = 0, lock = {}
      PROVE  device.phase = "idle" /\ ~ irq /\ completion = 0
  <2>1. \A u \in User : ~ Active(u)
    BY <1>4
  <2>2. Coming <= 0 /\ device.phase \in {"idle", "storing"}
    BY <1>4, <2>1
  <2> QED
    BY <2>2
<1> QED
  BY <1>1, <1>3, <1>4 DEF Acknowledged, IdeTypeOK

\* A write returns when the disk has stored the data: without spurious
\* interrupts the channel is at rest whenever its lock is free; and no request
\* ends in PANIC (ide_write, ide_read, interrupt_handler).
THEOREM AcknowledgedCorrect == IdeSpec => []Acknowledged
<1>1. IdeInit => IdeInv
  BY IdeInvInit
<1>2. IdeInv /\ [IdeNext]_ideVars => IdeInv'
  BY IdeInvStep
<1>3. IdeInv => Acknowledged
  BY IdeInvAcknowledged
<1> QED
  BY <1>1, <1>2, <1>3, PTL DEF IdeSpec

-----------------------------------------------------------------------------
(* The refinement.                                                          *)

\* Only the request of u changes.
LEMMA OnlyPending ==
  ASSUME NEW u \in User, NEW r, Pending'[u] = r,
         \A w \in User \ {u} : Pending'[w] = Pending[w]
  PROVE  Pending' = [Pending EXCEPT ![u] = r]
<1>1. /\ Pending = [w \in User |-> Pending[w]]
      /\ Pending' = [w \in User |-> Pending'[w]]
  BY DEF Pending
<1> HIDE DEF Pending
<1> QED
  BY <1>1

\* Every step is a call, the service of a request, a return, or changes
\* nothing a caller can tell.
LEMMA StoreStep == IdeInv /\ [IdeNext]_ideVars => [Store!Next]_(Store!vars)
<1> SUFFICES ASSUME IdeInv, [IdeNext]_ideVars
             PROVE  Store!Next \/ UNCHANGED <<Content, Pending, result>>
  BY DEF Store!vars
<1> USE DEF IdeInv, Types, Requests, Turns, Phases, Active, DeviceRecord,
            Goto, hardware, driver, BSY, DRQ, Store!Request
<1>1. ASSUME NEW u \in User, NEW s \in Sector, block_read(u, s)
      PROVE  Store!Call(u, [op |-> "read", sector |-> s])
  <2>1. /\ Pending[u] = Store!NoRequest
        /\ Pending'[u] = [op |-> "read", sector |-> s]
        /\ \A w \in User \ {u} : Pending'[w] = Pending[w]
    BY <1>1 DEF block_read, Pending, Store!NoRequest
  <2>2. UNCHANGED <<Content, result>>
    BY <1>1 DEF block_read, Content
  <2> QED
    BY <2>1, <2>2, OnlyPending DEF Store!Call
<1>2. ASSUME NEW u \in User, NEW s \in Sector, NEW v \in Value, block_write(u, s, v)
      PROVE  Store!Call(u, [op |-> "write", sector |-> s, value |-> v])
  <2>1. /\ Pending[u] = Store!NoRequest
        /\ Pending'[u] = [op |-> "write", sector |-> s, value |-> v]
        /\ \A w \in User \ {u} : Pending'[w] = Pending[w]
    BY <1>2 DEF block_write, Pending, Store!NoRequest
  <2>2. UNCHANGED <<Content, result>>
    BY <1>2 DEF block_write, Content
  <2> QED
    BY <2>1, <2>2, OnlyPending DEF Store!Call
<1>3. ASSUME NEW u \in User, lock_acquire(u) PROVE UNCHANGED <<Content, Pending, result>>
  BY <1>3 DEF lock_acquire, Content, Pending
<1>4. ASSUME NEW u \in User, select_sector(u) PROVE UNCHANGED <<Content, Pending, result>>
  BY <1>4 DEF select_sector, Content, Pending
<1>5. ASSUME NEW u \in User, issue_pio_command(u)
      PROVE  UNCHANGED <<Content, Pending, result>>
  BY <1>5 DEF issue_pio_command, Content, Pending
<1>6. ASSUME NEW u \in User, sema_down(u) PROVE UNCHANGED <<Content, Pending, result>>
  BY <1>6 DEF sema_down, Content, Pending
<1>7. ASSUME NEW u \in User, ide_read_data(u) PROVE Store!Read(u)
  <2>1. request[u] \in [op : {"read"}, sector : Sector] /\ device.phase = "loaded"
    BY <1>7 DEF ide_read_data
  <2>2. /\ result' = [result EXCEPT ![u] = device.data]
        /\ device'.phase = "idle" /\ at' = [at EXCEPT ![u] = "release"]
        /\ UNCHANGED <<request, disk>>
    BY <1>7, <2>1 DEF ide_read_data
  <2>3. Content = disk /\ Content' = disk
    BY <2>1, <2>2 DEF Content
  <2>4. /\ Pending[u] = request[u] /\ Pending'[u] = Store!Served
        /\ \A w \in User \ {u} : Pending'[w] = Pending[w]
    BY <1>7, <2>1, <2>2 DEF ide_read_data, Pending, Store!Served
  <2>5. device.data = disk[request[u].sector]
    BY <1>7, <2>1 DEF ide_read_data
  <2> QED
    BY <2>1, <2>2, <2>3, <2>4, <2>5, OnlyPending DEF Store!Read
<1>8. ASSUME NEW u \in User, ide_write_data(u) PROVE Store!Write(u)
  <2>1. /\ request[u] \in [op : {"write"}, sector : Sector, value : Value]
        /\ device.phase = "ready" /\ device.sector = request[u].sector
    BY <1>8 DEF ide_write_data
  <2>2. /\ device' = [device EXCEPT !.phase = "storing", !.data = request[u].value]
        /\ at' = [at EXCEPT ![u] = "down"] /\ UNCHANGED <<request, disk, result>>
    BY <1>8, <2>1 DEF ide_write_data
  <2>3. /\ device'.phase = "storing" /\ device'.sector = device.sector
        /\ device'.data = request[u].value
    BY <2>2
  <2>4. Content = disk /\ Content' = [disk EXCEPT ![request[u].sector] = request[u].value]
    BY <2>1, <2>2, <2>3, Zenon DEF Content
  <2>5. /\ Pending[u] = request[u] /\ Pending'[u] = Store!Served
        /\ \A w \in User \ {u} : Pending'[w] = Pending[w]
    BY <1>8, <2>1, <2>2 DEF ide_write_data, Pending, Store!Served
  <2> QED
    BY <2>1, <2>2, <2>4, <2>5, OnlyPending DEF Store!Write
<1>9. ASSUME NEW u \in User, identify_ata_device(u)
      PROVE  UNCHANGED <<Content, Pending, result>>
  BY <1>9 DEF identify_ata_device, Content, Pending
<1>10. ASSUME NEW u \in User, lock_release(u) PROVE Store!Return(u)
  <2>1. /\ Pending[u] = Store!Served /\ Pending'[u] = Store!NoRequest
        /\ \A w \in User \ {u} : Pending'[w] = Pending[w]
    BY <1>10 DEF lock_release, Pending, Store!NoRequest, Store!Served
  <2>2. UNCHANGED <<Content, result>>
    BY <1>10 DEF lock_release, Content
  <2> QED
    BY <2>1, <2>2, OnlyPending DEF Store!Return
<1>11. CASE interrupt_handler
  BY <1>11 DEF interrupt_handler, Content, Pending
<1>12. CASE DeviceStep
  <2>1. UNCHANGED <<Pending, result>>
    BY <1>12 DEF DeviceStep, Pending
  <2>2. CASE device.phase = "storing"
    <3>1. device'.phase = "idle" /\ disk' = [disk EXCEPT ![device.sector] = device.data]
      BY <1>12, <2>2 DEF DeviceStep
    <3> QED
      BY <2>1, <2>2, <3>1 DEF Content
  <2>3. CASE device.phase = "reading"
    <3>1. device' = [device EXCEPT !.phase = "loaded", !.data = disk[device.sector]]
          /\ disk' = disk
      BY <1>12, <2>3 DEF DeviceStep
    <3>2. device'.phase = "loaded"
      BY <3>1
    <3> QED
      BY <2>1, <2>3, <3>1, <3>2 DEF Content
  <2>4. CASE device.phase = "accepting"
    <3>1. device'.phase = "ready" /\ disk' = disk
      BY <1>12, <2>4 DEF DeviceStep
    <3> QED
      BY <2>1, <2>4, <3>1 DEF Content
  <2> QED
    BY <1>12, <2>2, <2>3, <2>4 DEF DeviceStep
<1>13. CASE SpuriousInterrupt
  BY <1>13 DEF SpuriousInterrupt, Content, Pending
<1>14. CASE UNCHANGED ideVars
  BY <1>14 DEF ideVars, Content, Pending
<1>15. CASE \E u \in User, s \in Sector : block_read(u, s)
  <2>1. PICK u \in User, s \in Sector : block_read(u, s)
    BY <1>15
  <2>2. [op |-> "read", sector |-> s] \in Store!Request
    BY DEF Store!Request
  <2> QED
    BY <1>1, <2>1, <2>2, Zenon DEF Store!Next
<1>16. CASE \E u \in User, s \in Sector, v \in Value : block_write(u, s, v)
  <2>1. PICK u \in User, s \in Sector, v \in Value : block_write(u, s, v)
    BY <1>16
  <2>2. [op |-> "write", sector |-> s, value |-> v] \in Store!Request
    BY DEF Store!Request
  <2> QED
    BY <1>2, <2>1, <2>2, Zenon DEF Store!Next
<1>17. CASE \E u \in User : IdeStep(u)
  BY <1>3, <1>4, <1>5, <1>6, <1>7, <1>8, <1>9, <1>10, <1>17, Zenon DEF IdeStep, Store!Next
<1> QED
  BY <1>11, <1>12, <1>13, <1>14, <1>15, <1>16, <1>17, Zenon DEF IdeNext

\* "Internally synchronizes accesses to disks" (ide_read, ide_write): for any
\* number of threads and spurious interrupts, every execution of the driver
\* is one of a disk that serves requests one at a time, each between its call
\* and its return (BlockStoreSpec).
THEOREM ImplementsStore == IdeSpec => BlockStoreSpec
<1>1. IdeInit => Store!Init
  <2> SUFFICES ASSUME IdeInit PROVE Store!Init
    OBVIOUS
  <2>1. Blank \in Value
    BY IdeAssumption DEF Blank
  <2>2. Content \in [Sector -> Value] /\ result \in [User -> Value]
    BY <2>1 DEF IdeInit, Content
  <2>3. Pending = [u \in User |-> Store!NoRequest]
    BY DEF IdeInit, Pending, Store!NoRequest
  <2> QED
    BY <2>2, <2>3 DEF Store!Init
<1>2. IdeInit => IdeInv
  BY IdeInvInit
<1>3. IdeInv /\ [IdeNext]_ideVars => IdeInv'
  BY IdeInvStep
<1>4. IdeInv /\ [IdeNext]_ideVars => [Store!Next]_(Store!vars)
  BY StoreStep
<1> QED
  BY <1>1, <1>2, <1>3, <1>4, PTL DEF IdeSpec, BlockStoreSpec, Store!Spec

-----------------------------------------------------------------------------
(* The interrupt queue.                                                    *)

\* next and the places of the ring: a position wraps around once at most.
LEMMA Wrap ==
  ASSUME NEW x \in 0..(2 * INTQ_BUFSIZE - 1)
  PROVE  x % INTQ_BUFSIZE = IF x < INTQ_BUFSIZE THEN x ELSE x - INTQ_BUFSIZE
<1>1. INTQ_BUFSIZE \in Nat /\ INTQ_BUFSIZE > 1
  BY IntqAssumption
<1>2. CASE x < INTQ_BUFSIZE
  BY <1>1, <1>2
<1>3. CASE x >= INTQ_BUFSIZE
  BY <1>1, <1>3
<1> QED
  BY <1>1, <1>2, <1>3

\* A thread in wait, asleep or just woken, still has the lock, so nobody else
\* registers before it has released it; a call of intq_putc that has not
\* returned keeps its byte.
IntqInv ==
  /\ SleepersKnown
  /\ \A t \in Caller : place[t] = "wait" => holder = t
  /\ \A t \in Writer : place[t] # "run" => byte[t] \in Byte

\* The queue is empty after intq_init, and nobody sleeps.
LEMMA IntqInvInit == IntqInit => IntqInv
<1> SUFFICES ASSUME IntqInit PROVE IntqInv
  OBVIOUS
<1>1. /\ NONE \notin Caller \cup Byte /\ INTQ_BUFSIZE \in Nat /\ INTQ_BUFSIZE > 1
      /\ (CHOOSE b \in Byte : TRUE) \in Byte
  BY IntqAssumption
<1>2. IntqTypeOK
  BY <1>1 DEF IntqInit, IntqTypeOK
<1> QED
  BY <1>1, <1>2 DEF IntqInit, IntqInv, SleepersKnown, Writer

\* The position after pos.
LEMMA NextPosition ==
  ASSUME NEW pos \in 0..(INTQ_BUFSIZE - 1)
  PROVE  /\ next(pos) \in 0..(INTQ_BUFSIZE - 1)
         /\ next(pos) = IF pos + 1 = INTQ_BUFSIZE THEN 0 ELSE pos + 1
<1>1. INTQ_BUFSIZE \in Nat /\ INTQ_BUFSIZE > 1
  BY IntqAssumption
<1>2. pos + 1 \in 0..(2 * INTQ_BUFSIZE - 1)
  BY <1>1
<1>3. next(pos) = IF pos + 1 < INTQ_BUFSIZE THEN pos + 1
                  ELSE pos + 1 - INTQ_BUFSIZE
  BY <1>1, <1>2, Wrap DEF next
<1> QED
  BY <1>1, <1>3

\* The end of intq_getc wakes the one thread that can be asleep then: it waits
\* for room, since nobody waits for a byte in a queue that has one.
LEMMA TakeWakes ==
  ASSUME IntqInv, ~ intq_empty, take
  PROVE  /\ buf' \in [0..(INTQ_BUFSIZE - 1) -> Byte]
         /\ head' \in 0..(INTQ_BUFSIZE - 1) /\ tail' \in 0..(INTQ_BUFSIZE - 1)
         /\ not_full' = NONE /\ not_empty' = NONE /\ asleep' = {}
<1> USE DEF IntqInv, SleepersKnown, IntqTypeOK
<1>1. NONE \notin Caller
  BY IntqAssumption
<1>2. not_empty = NONE
  BY <1>1 DEF Stuck, Reader
<1> QED
  BY <1>1, <1>2, NextPosition, Zenon DEF take, signal

\* The end of intq_putc wakes the one thread that can be asleep then: it waits
\* for a byte, since nobody waits for room in a queue that has some.
LEMMA PutWakes ==
  ASSUME IntqInv, ~ intq_full, NEW b \in Byte, put(b)
  PROVE  /\ buf' \in [0..(INTQ_BUFSIZE - 1) -> Byte]
         /\ head' \in 0..(INTQ_BUFSIZE - 1) /\ tail' \in 0..(INTQ_BUFSIZE - 1)
         /\ not_full' = NONE /\ not_empty' = NONE /\ asleep' = {}
<1> USE DEF IntqInv, SleepersKnown, IntqTypeOK
<1>1. NONE \notin Caller
  BY IntqAssumption
<1>2. not_full = NONE
  BY <1>1 DEF Stuck, Reader, Writer
<1> QED
  BY <1>1, <1>2, NextPosition, Zenon DEF put, signal

\* A thread that gets the free lock finds nobody registered, and is then the
\* only one that sleeps, if the assertion of wait holds.
LEMMA WaitRegisters ==
  ASSUME IntqInv, NEW t \in Caller, holder = NONE, wait(t), input' = input,
         place[t] # "wait", t \in Writer => byte'[t] \in Byte \/ place'[t] = "run",
         byte' \in [Caller -> Byte \cup {NONE}],
         \A u \in Caller \ {t} : byte'[u] = byte[u]
  PROVE  IntqInv'
<1> USE DEF IntqInv, SleepersKnown, IntqTypeOK
<1>1. NONE \notin Caller
  BY IntqAssumption
<1>2. asleep = {} /\ not_full = NONE /\ not_empty = NONE
  BY <1>1
<1>3. Reader' = Reader /\ Writer' = Writer
  BY DEF Reader, Writer
<1>4. CASE Stuck(t)
  <2>1. /\ holder' = t /\ asleep' = {t} /\ place' = [place EXCEPT ![t] = "wait"]
        /\ ring' = ring
        /\ not_empty' = IF t \in Reader THEN t ELSE NONE
        /\ not_full' = IF t \in Writer THEN t ELSE NONE
    BY <1>2, <1>4 DEF wait
  <2>2. Stuck(t)'
    BY <1>3, <1>4, <2>1 DEF Stuck, ring, intq_empty, intq_full, next
  <2>3. IntqTypeOK'
    BY <1>3, <2>1 DEF ring, Writer
  <2>4. SleepersKnown'
    BY <1>1, <2>1, <2>2, <2>3 DEF Writer
  <2> QED
    BY <1>1, <1>3, <2>1, <2>4 DEF Writer
<1>5. CASE ~ Stuck(t)
  <2>1. /\ holder' = t /\ ring' = ring
        /\ UNCHANGED <<not_full, not_empty, asleep, place>>
    BY <1>5 DEF wait
  <2> QED
    BY <1>1, <1>2, <1>3, <2>1 DEF ring, Writer
<1> QED
  BY <1>4, <1>5

\* One turn of the loop of intq_getc or intq_putc.
LEMMA LoopStep ==
  ASSUME IntqInv, NEW t \in Caller, NEW b, t \in Writer => b \in Byte,
         place[t] # "wait", Loop(t, b), input' = input,
         byte' \in [Caller -> Byte \cup {NONE}],
         \A u \in Caller \ {t} : byte'[u] = byte[u],
         t \in Writer /\ place'[t] # "run" => byte'[t] = b
  PROVE  IntqInv'
<1> USE DEF IntqInv, SleepersKnown, IntqTypeOK
<1>1. NONE \notin Caller
  BY IntqAssumption
<1>2. Reader' = Reader /\ Writer' = Writer
  BY DEF Reader, Writer
<1>3. CASE Stuck(t) /\ holder = NONE
  BY <1>3, WaitRegisters DEF Loop
<1>4. CASE Stuck(t) /\ holder # NONE
  <2>1. /\ place' = [place EXCEPT ![t] = "lock"]
        /\ UNCHANGED <<ring, not_full, not_empty, holder, asleep>>
    BY <1>4 DEF Loop
  <2>2. \A u \in Caller : Stuck(u)' = Stuck(u)
    BY <1>2, <2>1 DEF Stuck, ring, intq_empty, intq_full, next
  <2>3. IntqTypeOK'
    BY <1>2, <2>1 DEF ring
  <2>4. SleepersKnown'
    BY <1>1, <2>1, <2>2, <2>3
  <2> QED
    BY <1>2, <2>1, <2>4 DEF Writer
<1>5. CASE ~ Stuck(t)
  <2>1. place' = [place EXCEPT ![t] = "run"] /\ holder' = holder
    BY <1>5 DEF Loop
  <2>2. /\ buf' \in [0..(INTQ_BUFSIZE - 1) -> Byte]
        /\ head' \in 0..(INTQ_BUFSIZE - 1) /\ tail' \in 0..(INTQ_BUFSIZE - 1)
        /\ not_full' = NONE /\ not_empty' = NONE /\ asleep' = {}
    <3>1. CASE t \in Reader
      BY <1>5, <3>1, TakeWakes DEF Loop, Stuck
    <3>2. CASE t \in Writer
      BY <1>5, <3>2, PutWakes DEF Loop, Stuck, Writer
    <3> QED
      BY <3>1, <3>2 DEF Writer
  <2>3. IntqTypeOK'
    BY <1>2, <2>1, <2>2, SMTT(20)
  <2> QED
    BY <1>2, <2>1, <2>2, <2>3 DEF Writer
<1> QED
  BY <1>3, <1>4, <1>5

\* No call and no interrupt breaks the invariant.
LEMMA IntqInvStep == IntqInv /\ [IntqNext]_intqVars => IntqInv'
<1> SUFFICES ASSUME IntqInv, [IntqNext]_intqVars PROVE IntqInv'
  OBVIOUS
<1> USE DEF IntqInv, SleepersKnown, IntqTypeOK
<1>0. NONE \notin Caller
  BY IntqAssumption
<1>1. ASSUME NEW t \in Caller, intq_getc(t) PROVE IntqInv'
  BY <1>1, LoopStep DEF intq_getc, At, Writer
<1>2. ASSUME NEW t \in Caller, NEW b \in Byte, intq_putc(t, b) PROVE IntqInv'
  BY <1>2, LoopStep DEF intq_putc, At
<1>3. ASSUME NEW t \in Caller, Locked(t) PROVE IntqInv'
  BY <1>3, WaitRegisters DEF Locked, At
<1>4. ASSUME NEW t \in Caller, Woken(t) PROVE IntqInv'
  <2>1. /\ t \notin asleep /\ place[t] = "wait" /\ holder' = NONE
        /\ place' = [place EXCEPT ![t] = "test"]
        /\ UNCHANGED <<input, ring, not_full, not_empty, byte, asleep>>
    BY <1>4 DEF Woken, At
  <2>2. asleep = {}
    BY <2>1
  <2>3. Reader' = Reader /\ Writer' = Writer
    BY <2>1 DEF Reader, Writer
  <2>4. IntqTypeOK'
    BY <2>1, <2>3 DEF ring
  <2> QED
    BY <2>1, <2>2, <2>3, <2>4 DEF Writer
<1>5. ASSUME NEW t \in Caller, Test(t) PROVE IntqInv'
  BY <1>5, LoopStep DEF Test, At
<1>6. ASSUME NEW b \in Byte, HandlerPut(b) PROVE IntqInv'
  <2>1. UNCHANGED <<input, holder, place, byte>>
    BY <1>6 DEF HandlerPut
  <2>2. /\ buf' \in [0..(INTQ_BUFSIZE - 1) -> Byte]
        /\ head' \in 0..(INTQ_BUFSIZE - 1) /\ tail' \in 0..(INTQ_BUFSIZE - 1)
        /\ not_full' = NONE /\ not_empty' = NONE /\ asleep' = {}
    BY <1>6, PutWakes DEF HandlerPut
  <2> QED
    BY <2>1, <2>2 DEF Reader, Writer
<1>7. CASE HandlerGet
  <2>1. UNCHANGED <<input, holder, place, byte>>
    BY <1>7 DEF HandlerGet
  <2>2. /\ buf' \in [0..(INTQ_BUFSIZE - 1) -> Byte]
        /\ head' \in 0..(INTQ_BUFSIZE - 1) /\ tail' \in 0..(INTQ_BUFSIZE - 1)
        /\ not_full' = NONE /\ not_empty' = NONE /\ asleep' = {}
    BY <1>7, TakeWakes DEF HandlerGet
  <2> QED
    BY <2>1, <2>2 DEF Reader, Writer
<1>8. CASE UNCHANGED intqVars
  BY <1>8 DEF intqVars, ring, Reader, Writer, Stuck, intq_empty, intq_full, next
<1> QED
  BY <1>1, <1>2, <1>3, <1>4, <1>5, <1>6, <1>7, <1>8 DEF IntqNext

\* A thread sleeps in wait only while the queue is empty or full for it, and
\* the queue knows it (wait, signal).
THEOREM SleepersKnownCorrect == IntqSpec => []SleepersKnown
<1>1. IntqInit => IntqInv
  BY IntqInvInit
<1>2. IntqInv /\ [IntqNext]_intqVars => IntqInv'
  BY IntqInvStep
<1>3. IntqInv => SleepersKnown
  BY DEF IntqInv
<1> QED
  BY <1>1, <1>2, <1>3, PTL DEF IntqSpec

-----------------------------------------------------------------------------
(* The refinement.                                                          *)

\* The ring's positions are in range and hold bytes.
RingOK ==
  /\ buf \in [0..(INTQ_BUFSIZE - 1) -> Byte]
  /\ head \in 0..(INTQ_BUFSIZE - 1) /\ tail \in 0..(INTQ_BUFSIZE - 1)

\* The number of bytes between tail t and head h.
Between(h, t) == (h + INTQ_BUFSIZE - t) % INTQ_BUFSIZE

\* It is less than INTQ_BUFSIZE, and there is no need of the remainder.
LEMMA LengthValue ==
  ASSUME NEW h \in 0..(INTQ_BUFSIZE - 1), NEW t \in 0..(INTQ_BUFSIZE - 1)
  PROVE  /\ Between(h, t) = IF h >= t THEN h - t ELSE h + INTQ_BUFSIZE - t
         /\ Between(h, t) \in 0..(INTQ_BUFSIZE - 1)
<1> DEFINE x == h + INTQ_BUFSIZE - t
<1>1. INTQ_BUFSIZE \in Nat /\ INTQ_BUFSIZE > 1
  BY IntqAssumption
<1>2. x \in 0..(2 * INTQ_BUFSIZE - 1)
  BY <1>1
<1>3. x = h + INTQ_BUFSIZE - t
  OBVIOUS
<1> HIDE DEF x
<1>4. x % INTQ_BUFSIZE = IF x < INTQ_BUFSIZE THEN x ELSE x - INTQ_BUFSIZE
  BY <1>2, Wrap
<1>5. x % INTQ_BUFSIZE = IF h >= t THEN h - t ELSE h + INTQ_BUFSIZE - t
  BY <1>1, <1>3, <1>4
<1>6. (IF h >= t THEN h - t ELSE h + INTQ_BUFSIZE - t) \in 0..(INTQ_BUFSIZE - 1)
  BY <1>1
<1> QED
  BY <1>3, <1>5, <1>6 DEF Between

\* The i-th byte from tail t is at position t + i - 1, or INTQ_BUFSIZE less.
Place(t, i) == IF t + i - 1 < INTQ_BUFSIZE THEN t + i - 1
               ELSE t + i - 1 - INTQ_BUFSIZE

\* The first n bytes from tail t of the ring c.
First(c, t, n) == [i \in 1..n |-> c[(t + i - 1) % INTQ_BUFSIZE]]

\* They form a sequence.
LEMMA ContentsValue ==
  ASSUME NEW c \in [0..(INTQ_BUFSIZE - 1) -> Byte],
         NEW t \in 0..(INTQ_BUFSIZE - 1), NEW n \in 0..(INTQ_BUFSIZE - 1)
  PROVE  /\ First(c, t, n) \in Seq(Byte)
         /\ Len(First(c, t, n)) = n
         /\ \A i \in 1..n : First(c, t, n)[i] = c[Place(t, i)]
<1> DEFINE C == [i \in 1..n |-> c[(t + i - 1) % INTQ_BUFSIZE]]
<1>1. INTQ_BUFSIZE \in Nat /\ INTQ_BUFSIZE > 1 /\ n \in Nat
  BY IntqAssumption
<1>2. ASSUME NEW i \in 1..n
      PROVE  /\ C[i] = c[Place(t, i)]
             /\ C[i] \in Byte
  <2> DEFINE x == t + i - 1
  <2>1. x \in 0..(2 * INTQ_BUFSIZE - 1)
    BY <1>1
  <2>2. Place(t, i) = IF x < INTQ_BUFSIZE THEN x ELSE x - INTQ_BUFSIZE
    BY <1>1 DEF Place
  <2>3. C[i] = c[x % INTQ_BUFSIZE]
    OBVIOUS
  <2> HIDE DEF x, C
  <2>4. x % INTQ_BUFSIZE = Place(t, i)
    BY <2>1, <2>2, Wrap
  <2>5. Place(t, i) \in 0..(INTQ_BUFSIZE - 1)
    BY <1>1, <2>1, <2>2
  <2> QED
    BY <2>3, <2>4, <2>5
<1>3. C \in [1..n -> Byte]
  BY <1>2, Zenon
<1>4. C \in Seq(Byte) /\ Len(C) = n
  BY <1>1, <1>3, IsASeq, LenProperties
<1> QED
  BY <1>2, <1>4 DEF First

\* put appends its byte to a queue that has room.
LEMMA PutAppends ==
  ASSUME RingOK, RingOK', ~ intq_full, NEW b \in Byte, put(b)
  PROVE  FifoOf!Put(b)
<1>1. INTQ_BUFSIZE \in Nat /\ INTQ_BUFSIZE > 1
  BY IntqAssumption
<1>2. /\ buf' = [buf EXCEPT ![head] = b] /\ tail' = tail
      /\ head' = IF head + 1 = INTQ_BUFSIZE THEN 0 ELSE head + 1
      /\ head' # tail
  BY NextPosition, Zenon DEF put, intq_full, RingOK
<1>3. /\ Length = IF head >= tail THEN head - tail ELSE head + INTQ_BUFSIZE - tail
      /\ Length \in 0..(INTQ_BUFSIZE - 1)
  BY LengthValue DEF Length, Between, RingOK
<1>4. /\ Length' = IF head' >= tail' THEN head' - tail'
                   ELSE head' + INTQ_BUFSIZE - tail'
      /\ Length' \in 0..(INTQ_BUFSIZE - 1)
  BY LengthValue, Zenon DEF Length, Between, RingOK
<1>5. Length' = Length + 1 /\ Length < INTQ_BUFSIZE - 1
  BY <1>1, <1>2, <1>3, <1>4 DEF RingOK
<1>6. /\ Contents \in Seq(Byte) /\ Len(Contents) = Length
      /\ \A i \in 1..Length : Contents[i] = buf[Place(tail, i)]
  <2>1. Contents = First(buf, tail, Length)
    BY DEF Contents, First
  <2>3. /\ buf \in [0..(INTQ_BUFSIZE - 1) -> Byte]
        /\ tail \in 0..(INTQ_BUFSIZE - 1) /\ Length \in 0..(INTQ_BUFSIZE - 1)
    BY <1>3 DEF RingOK
  <2>2. /\ First(buf, tail, Length) \in Seq(Byte)
        /\ Len(First(buf, tail, Length)) = Length
        /\ \A i \in 1..Length :
             First(buf, tail, Length)[i] = buf[Place(tail, i)]
    BY <2>3, ContentsValue, Zenon
  <2> QED
    BY <2>1, <2>2, Zenon
<1>7. /\ Contents' \in Seq(Byte) /\ Len(Contents') = Length'
      /\ \A i \in 1..Length' : Contents'[i] = buf'[Place(tail', i)]
  <2>1. Contents' = First(buf', tail', Length')
    BY DEF Contents, First
  <2>3. /\ buf' \in [0..(INTQ_BUFSIZE - 1) -> Byte]
        /\ tail' \in 0..(INTQ_BUFSIZE - 1) /\ Length' \in 0..(INTQ_BUFSIZE - 1)
    BY <1>4, Zenon DEF RingOK
  <2>2. /\ First(buf', tail', Length') \in Seq(Byte)
        /\ Len(First(buf', tail', Length')) = Length'
        /\ \A i \in 1..Length' :
             First(buf', tail', Length')[i] = buf'[Place(tail', i)]
    BY <2>3, ContentsValue, Zenon
  <2> QED
    BY <2>1, <2>2, Zenon
<1>8. ASSUME NEW i \in 1..Length PROVE Contents'[i] = Contents[i]
  <2>1. Place(tail, i) # head /\ Place(tail, i) \in 0..(INTQ_BUFSIZE - 1)
    BY <1>1, <1>3, <1>5 DEF RingOK, Place
  <2>2. i \in 1..Length'
    BY <1>3, <1>5
  <2>3. Contents'[i] = buf'[Place(tail, i)] /\ Contents[i] = buf[Place(tail, i)]
    BY <1>2, <1>6, <1>7, <2>2
  <2> QED
    BY <1>2, <2>1, <2>3 DEF RingOK
<1>9. Contents'[Length + 1] = b
  <2>1. Place(tail, Length + 1) = head
    BY <1>1, <1>3, <1>5 DEF RingOK, Place
  <2>2. Length + 1 \in 1..Length'
    BY <1>3, <1>5
  <2>3. Contents'[Length + 1] = buf'[head]
    BY <1>2, <1>7, <2>1, <2>2
  <2> QED
    BY <1>2, <2>3 DEF RingOK
<1>10. /\ Append(Contents, b) \in Seq(Byte)
       /\ Len(Append(Contents, b)) = Length + 1
       /\ \A i \in 1..Length : Append(Contents, b)[i] = Contents[i]
       /\ Append(Contents, b)[Length + 1] = b
  BY <1>3, <1>6, AppendProperties
<1>11. \A i \in 1..Length + 1 : Contents'[i] = Append(Contents, b)[i]
  BY <1>3, <1>6, <1>8, <1>9, <1>10
<1>12. Contents' = Append(Contents, b)
  BY <1>5, <1>7, <1>10, <1>11, SeqEqual
<1> QED
  BY <1>5, <1>6, <1>12 DEF FifoOf!Put

\* take removes the oldest byte of a queue that is not empty.
LEMMA TakeRemoves ==
  ASSUME RingOK, RingOK', ~ intq_empty, take
  PROVE  FifoOf!Get
<1>1. INTQ_BUFSIZE \in Nat /\ INTQ_BUFSIZE > 1
  BY IntqAssumption
<1>2. /\ buf' = buf /\ head' = head
      /\ tail' = IF tail + 1 = INTQ_BUFSIZE THEN 0 ELSE tail + 1
      /\ head # tail
  BY NextPosition, Zenon DEF take, intq_empty, RingOK
<1>3. /\ Length = IF head >= tail THEN head - tail ELSE head + INTQ_BUFSIZE - tail
      /\ Length \in 0..(INTQ_BUFSIZE - 1)
  BY LengthValue DEF Length, Between, RingOK
<1>4. /\ Length' = IF head' >= tail' THEN head' - tail'
                   ELSE head' + INTQ_BUFSIZE - tail'
      /\ Length' \in 0..(INTQ_BUFSIZE - 1)
  BY LengthValue, Zenon DEF Length, Between, RingOK
<1>5. Length' = Length - 1 /\ Length > 0
  BY <1>1, <1>2, <1>3, <1>4 DEF RingOK
<1>6. /\ Contents \in Seq(Byte) /\ Len(Contents) = Length
      /\ \A i \in 1..Length : Contents[i] = buf[Place(tail, i)]
  <2>1. Contents = First(buf, tail, Length)
    BY DEF Contents, First
  <2>3. /\ buf \in [0..(INTQ_BUFSIZE - 1) -> Byte]
        /\ tail \in 0..(INTQ_BUFSIZE - 1) /\ Length \in 0..(INTQ_BUFSIZE - 1)
    BY <1>3 DEF RingOK
  <2>2. /\ First(buf, tail, Length) \in Seq(Byte)
        /\ Len(First(buf, tail, Length)) = Length
        /\ \A i \in 1..Length :
             First(buf, tail, Length)[i] = buf[Place(tail, i)]
    BY <2>3, ContentsValue, Zenon
  <2> QED
    BY <2>1, <2>2, Zenon
<1>7. /\ Contents' \in Seq(Byte) /\ Len(Contents') = Length'
      /\ \A i \in 1..Length' : Contents'[i] = buf'[Place(tail', i)]
  <2>1. Contents' = First(buf', tail', Length')
    BY DEF Contents, First
  <2>3. /\ buf' \in [0..(INTQ_BUFSIZE - 1) -> Byte]
        /\ tail' \in 0..(INTQ_BUFSIZE - 1) /\ Length' \in 0..(INTQ_BUFSIZE - 1)
    BY <1>4, Zenon DEF RingOK
  <2>2. /\ First(buf', tail', Length') \in Seq(Byte)
        /\ Len(First(buf', tail', Length')) = Length'
        /\ \A i \in 1..Length' :
             First(buf', tail', Length')[i] = buf'[Place(tail', i)]
    BY <2>3, ContentsValue, Zenon
  <2> QED
    BY <2>1, <2>2, Zenon
<1>8. ASSUME NEW i \in 1..(Length - 1) PROVE Contents'[i] = Contents[i + 1]
  <2>1. Place(tail', i) = Place(tail, i + 1)
    BY <1>1, <1>2, <1>3, <1>5 DEF RingOK, Place
  <2>2. i + 1 \in 1..Length /\ i \in 1..Length'
    BY <1>3, <1>5
  <2> QED
    BY <1>2, <1>6, <1>7, <2>1, <2>2
<1>9. Contents # <<>>
  BY <1>3, <1>5, <1>6
<1>10. /\ Tail(Contents) \in Seq(Byte)
       /\ Len(Tail(Contents)) = Length - 1
       /\ \A i \in 1..(Length - 1) : Tail(Contents)[i] = Contents[i + 1]
  BY <1>3, <1>6, <1>9, HeadTailProperties, Zenon
<1>11. Contents' = Tail(Contents)
  BY <1>5, <1>7, <1>8, <1>10, SeqEqual
<1> QED
  BY <1>9, <1>11 DEF FifoOf!Get

\* Every step of the queue is a Put, a Get or changes no byte.
LEMMA FifoStep == IntqInv /\ [IntqNext]_intqVars => [FifoOf!Next]_Contents
<1> SUFFICES ASSUME IntqInv, [IntqNext]_intqVars
             PROVE  FifoOf!Next \/ UNCHANGED Contents
  OBVIOUS
<1>1. IntqInv'
  BY IntqInvStep
<1>2. RingOK /\ RingOK'
  BY <1>1 DEF IntqInv, SleepersKnown, IntqTypeOK, RingOK
<1>3. ring' = ring => UNCHANGED Contents
  BY DEF ring, Contents, Length
<1>4. ASSUME NEW b \in Byte, put(b), ~ intq_full PROVE FifoOf!Next
  BY <1>2, <1>4, PutAppends DEF FifoOf!Next
<1>5. ASSUME take, ~ intq_empty PROVE FifoOf!Next
  BY <1>2, <1>5, TakeRemoves DEF FifoOf!Next
<1>6. ASSUME NEW t \in Caller, NEW b, t \in Writer => b \in Byte, Loop(t, b)
      PROVE  FifoOf!Next \/ UNCHANGED Contents
  <2>1. CASE Stuck(t)
    BY <1>3, <1>6, <2>1 DEF Loop, wait, ring
  <2>2. CASE ~ Stuck(t) /\ t \in Reader
    BY <1>5, <1>6, <2>2 DEF Loop, Stuck
  <2>3. CASE ~ Stuck(t) /\ t \in Writer
    BY <1>4, <1>6, <2>3 DEF Loop, Stuck, Writer
  <2> QED
    BY <2>1, <2>2, <2>3 DEF Writer
<1>7. ASSUME NEW t \in Caller, intq_getc(t)
      PROVE  FifoOf!Next \/ UNCHANGED Contents
  BY <1>6, <1>7 DEF intq_getc, Writer
<1>8. ASSUME NEW t \in Caller, NEW b \in Byte, intq_putc(t, b)
      PROVE  FifoOf!Next \/ UNCHANGED Contents
  BY <1>6, <1>8 DEF intq_putc
<1>9. ASSUME NEW t \in Caller, Test(t) PROVE FifoOf!Next \/ UNCHANGED Contents
  <2>1. t \in Writer => byte[t] \in Byte
    BY <1>9 DEF Test, At, IntqInv
  <2> QED
    BY <1>6, <1>9, <2>1 DEF Test
<1>10. ASSUME NEW t \in Caller, Locked(t) \/ Woken(t) PROVE UNCHANGED Contents
  BY <1>3, <1>10 DEF Locked, Woken, wait, ring
<1>11. ASSUME NEW b \in Byte, HandlerPut(b) PROVE FifoOf!Next
  BY <1>4, <1>11 DEF HandlerPut
<1>12. ASSUME HandlerGet PROVE FifoOf!Next
  BY <1>5, <1>12 DEF HandlerGet
<1>13. CASE UNCHANGED intqVars
  BY <1>3, <1>13 DEF intqVars, ring
<1> QED
  BY <1>7, <1>8, <1>9, <1>10, <1>11, <1>12, <1>13 DEF IntqNext

\* The ring is a queue of INTQ_BUFSIZE - 1 bytes that loses, doubles and
\* reorders none (intq_getc, intq_putc, next).
THEOREM ImplementsFifo == IntqSpec => FifoSpec
<1>1. IntqInit => FifoOf!Init
  <2> SUFFICES ASSUME IntqInit PROVE Contents = <<>>
    BY DEF FifoOf!Init
  <2>1. 0 \in 0..(INTQ_BUFSIZE - 1)
    BY IntqAssumption
  <2>2. IntqTypeOK
    BY IntqInvInit DEF IntqInv, SleepersKnown
  <2>3. Length = 0
    BY <2>1, LengthValue DEF IntqInit, Length, Between
  <2> QED
    BY <2>3 DEF Contents
<1>2. IntqInit => IntqInv
  BY IntqInvInit
<1>3. IntqInv /\ [IntqNext]_intqVars => IntqInv'
  BY IntqInvStep
<1>4. IntqInv /\ [IntqNext]_intqVars => [FifoOf!Next]_Contents
  BY FifoStep
<1> QED
  BY <1>1, <1>2, <1>3, <1>4, PTL DEF IntqSpec, FifoSpec, FifoOf!Spec

=============================================================================
