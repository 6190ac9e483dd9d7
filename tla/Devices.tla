------------------------------- MODULE Devices --------------------------------
(***************************************************************************)
(* The devices of the kernel: the tables of devices and drivers of         *)
(* kernel/src/device_manager/{device,driver}.rs, the block devices and RAM *)
(* disks of kernel/src/drivers/block/, the buffer of key events of         *)
(* kernel/src/drivers/keyboard.rs, the text screen of kernel/src/vga.rs,   *)
(* and the serial line of kernel/src/drivers/serial.rs, which the log and  *)
(* the handlers of kernel/src/interrupts/exceptions.rs write.  They share  *)
(* no state.  Every call is one step, behind its lock; on the serial line  *)
(* a step is one piece of text, as an exception may come between two.      *)
(***************************************************************************)
EXTENDS Integers, Sequences, FiniteSets, SequencesExt, FiniteSetsExt

CONSTANTS
  Drivers,               \* descriptors of drivers
  Classes, Vendors,      \* of the devices registered
  MaxDevices,            \* bound: ids ever given
  DiskNames,
  block_size, capacity,  \* of every RAM disk
  MaxDisks,              \* bound: RAM disks ever made
  Buffers,               \* the byte sequences written
  Lbas,                  \* the addresses used; the largest wraps around
  KEYBOARD_BUFFER_SIZE,  \* 128
  Scancodes,
  MaxKeys,               \* bound: key events
  VGA_WIDTH,             \* 80
  Bytes,                 \* printed on the screen
  Contexts,              \* what runs on a stack of its own, and may be interrupted
  MaxLines               \* bound: lines begun on the serial line

DeviceClass == 0 .. 8
Unknown == 0
DeviceStatus ==
  {"Disconnected", "Connected", "Initializing", "Active", "Suspended", "Error", "Removed"}

DriverDescriptor ==
  [driver_id : Nat, supported_classes : SUBSET DeviceClass, supported_vendor_ids : SUBSET Nat,
   priority : Nat]

ConstantsOK ==
  /\ Drivers \subseteq DriverDescriptor
  /\ Classes \subseteq DeviceClass /\ Vendors \subseteq Nat
  /\ {MaxDevices, MaxDisks, MaxKeys} \subseteq Nat
  /\ {block_size, capacity} \subseteq Nat \ {0} /\ Lbas \subseteq Nat
  /\ KEYBOARD_BUFFER_SIZE \in Nat \ {0, 1} /\ Scancodes \subseteq 0 .. 255
  /\ VGA_WIDTH \in Nat \ {0} /\ MaxLines \in Nat

VARIABLES
  devices, next_id,       \* device_manager
  drivers,                \* driver matcher: a sequence
  block_devices,          \* block manager: a sequence of names and disks
  disks,                  \* the data of every RAM disk made
  written,                \* history: the last byte written at each place
  keyboard,               \* buffer, read_pos, write_pos
  keys,                   \* history: accepted and taken key events
  screen,                 \* the VgaWriter: its column, its colour and the bottom row
  printed,                \* history: the bytes since the cursor was last at the left
  serial,                 \* the context that has the lock of SERIAL, or Nobody
  stacks,                 \* per context: the lines it is about to write
  transcript              \* the pieces of text written so far

devicevars == <<devices, next_id, drivers>>
blockvars == <<block_devices, disks, written>>
keyvars == <<keyboard, keys>>
screenvars == <<screen, printed>>
serialvars == <<serial, stacks, transcript>>
vars == <<devicevars, blockvars, keyvars, screenvars, serialvars>>

None == 0      \* no driver

-----------------------------------------------------------------------------
(* Devices and drivers *)

Register(class, vendor) ==
  /\ next_id <= MaxDevices
  /\ devices' = [id \in DOMAIN devices \cup {next_id} |->
                   IF id = next_id
                   THEN [device_class |-> class, vendor_id |-> vendor, status |-> "Connected", driver_id |-> None]
                   ELSE devices[id]]
  /\ next_id' = next_id + 1
  /\ UNCHANGED drivers

Unregister(id) ==
  /\ id \in DOMAIN devices
  /\ devices' = [d \in DOMAIN devices \ {id} |-> devices[d]]
  /\ UNCHANGED <<next_id, drivers>>

UpdateStatus(id, status) ==
  /\ id \in DOMAIN devices
  /\ devices' = [devices EXCEPT ![id].status = status]
  /\ UNCHANGED <<next_id, drivers>>

(* Any driver can be bound, registered or not *)
BindDriver(id, driver_id) ==
  /\ id \in DOMAIN devices
  /\ devices' = [devices EXCEPT ![id].driver_id = driver_id]
  /\ UNCHANGED <<next_id, drivers>>

UnbindDriver(id) ==
  /\ id \in DOMAIN devices
  /\ devices' = [devices EXCEPT ![id].driver_id = None]
  /\ UNCHANGED <<next_id, drivers>>

ListByClass(class) == {id \in DOMAIN devices : devices[id].device_class = class}
ListByStatus(status) == {id \in DOMAIN devices : devices[id].status = status}

RegisterDriver(driver) ==
  /\ \A d \in ToSet(drivers) : d.driver_id # driver.driver_id
  /\ drivers' = Append(drivers, driver)
  /\ UNCHANGED <<devices, next_id>>

UnregisterDriver(driver_id) ==
  /\ \E d \in ToSet(drivers) : d.driver_id = driver_id
  /\ drivers' = SelectSeq(drivers, LAMBDA d : d.driver_id # driver_id)
  /\ UNCHANGED <<devices, next_id>>

DriverMatches(driver, device) ==
  /\ driver.supported_classes \cap {device.device_class, Unknown} # {}
  /\ driver.supported_vendor_ids = {} \/ device.vendor_id \in driver.supported_vendor_ids

FindAllDrivers(device) == SelectSeq(drivers, LAMBDA d : DriverMatches(d, device))

(* Of equal priorities the stable sort keeps the order of registration *)
FindBestDriver(device) ==
  LET matched == FindAllDrivers(device)
      best == Min({d.priority : d \in ToSet(matched)})
  IN SelectSeq(matched, LAMBDA d : d.priority = best)[1]

(* A caller that looks the driver up and binds it *)
AutoBind(id) ==
  /\ id \in DOMAIN devices /\ FindAllDrivers(devices[id]) # <<>>
  /\ BindDriver(id, FindBestDriver(devices[id]).driver_id)

DeviceNext ==
  \/ \E class \in Classes, vendor \in Vendors : Register(class, vendor)
  \/ \E id \in 1 .. MaxDevices :
       \/ Unregister(id)
       \/ \E status \in {"Active", "Error"} : UpdateStatus(id, status)
       \/ AutoBind(id)
       \/ UnbindDriver(id)
  \/ \E driver \in Drivers : RegisterDriver(driver) \/ UnregisterDriver(driver.driver_id)

-----------------------------------------------------------------------------
(* Block devices: a disk is known by the number under which it was made,   *)
(* so that who holds one uses it after it is unregistered                  *)

RegisterDisk(name) ==
  /\ Len(disks) < MaxDisks
  /\ \A b \in ToSet(block_devices) : b.name # name
  /\ disks' = Append(disks, [i \in 0 .. block_size * capacity - 1 |-> 0])
  /\ written' = Append(written, [i \in 0 .. block_size * capacity - 1 |-> 0])
  /\ block_devices' = Append(block_devices, [name |-> name, disk |-> Len(disks) + 1])

UnregisterDisk(name) ==
  /\ \E b \in ToSet(block_devices) : b.name = name
  /\ block_devices' = SelectSeq(block_devices, LAMBDA b : b.name # name)
  /\ UNCHANGED <<disks, written>>

GetDisk(name) == {b.disk : b \in {x \in ToSet(block_devices) : x.name = name}}

(* The sum is checked, 2^64 - 1 is an address like the others *)
TransferError(start_lba, length) ==
  CASE length % block_size # 0                           -> "InvalidBufferSize"
    [] length % block_size = 0
       /\ start_lba + length \div block_size > capacity  -> "InvalidLba"
    [] OTHER                                             -> "none"

ReadBlocks(disk, start_lba, length) ==
  [i \in 1 .. length |-> disks[disk][start_lba * block_size + i - 1]]

Stored(data, start_lba, buf) ==
  [i \in DOMAIN data |->
     IF i - start_lba * block_size \in 0 .. Len(buf) - 1
     THEN buf[i - start_lba * block_size + 1] ELSE data[i]]

WriteBlocks(disk, start_lba, buf) ==
  /\ disk \in DOMAIN disks
  /\ TransferError(start_lba, Len(buf)) = "none"
  /\ disks' = [disks EXCEPT ![disk] = Stored(@, start_lba, buf)]
  /\ written' = [written EXCEPT ![disk] =
                   [i \in DOMAIN @ |-> IF i \div block_size >= start_lba /\ i < start_lba * block_size + Len(buf)
                                       THEN buf[i - start_lba * block_size + 1] ELSE @[i]]]
  /\ UNCHANGED block_devices

BlockNext ==
  \/ \E name \in DiskNames : RegisterDisk(name) \/ UnregisterDisk(name)
  \/ \E disk \in 1 .. MaxDisks, lba \in Lbas, buf \in Buffers : WriteBlocks(disk, lba, buf)

-----------------------------------------------------------------------------
(* The keyboard *)

KeyEvent(scancode) == [pressed |-> scancode < 128, code |-> scancode % 128]

IsFull(k) == (k.write_pos + 1) % KEYBOARD_BUFFER_SIZE = k.read_pos
KeyboardEmpty(k) == k.read_pos = k.write_pos
KeyboardLen(k) ==
  IF k.write_pos >= k.read_pos THEN k.write_pos - k.read_pos
  ELSE KEYBOARD_BUFFER_SIZE - k.read_pos + k.write_pos

(* keyboard_interrupt_handler: an event that finds the buffer full is lost *)
KeyboardInterrupt(scancode) ==
  /\ keys.pushed < MaxKeys
  /\ IF IsFull(keyboard) THEN UNCHANGED keyboard
     ELSE keyboard' = [keyboard EXCEPT !.buffer[keyboard.write_pos] = KeyEvent(scancode),
                                       !.write_pos = (@ + 1) % KEYBOARD_BUFFER_SIZE]
  /\ keys' = [pushed  |-> keys.pushed + 1,
              waiting |-> IF Len(keys.waiting) = KEYBOARD_BUFFER_SIZE - 1 THEN keys.waiting
                          ELSE Append(keys.waiting, KeyEvent(scancode))]

PopKey ==
  /\ ~KeyboardEmpty(keyboard)
  /\ keyboard' = [keyboard EXCEPT !.read_pos = (@ + 1) % KEYBOARD_BUFFER_SIZE]
  /\ keys' = [keys EXCEPT !.waiting = Tail(@)]

KeyNext == (\E s \in Scancodes : KeyboardInterrupt(s)) \/ PopKey

-----------------------------------------------------------------------------
(* The screen: only the bottom row is ever written, a new line does not    *)
(* scroll.  "nl" and "cr" are the bytes that end and restart a line.       *)

Colors == {"gray", "white"}
Cell(byte, color) == [character |-> byte, color_code |-> color]

NewLine(s) == [s EXCEPT !.column_position = 0]

(* A row that is full begins again, over what it holds *)
WriteByte(byte) ==
  LET s == IF screen.column_position >= VGA_WIDTH THEN NewLine(screen) ELSE screen
  IN IF byte \in {"nl", "cr"}
     THEN screen' = NewLine(screen) /\ printed' = <<>>
     ELSE /\ screen' = [s EXCEPT !.row[s.column_position] = Cell(byte, s.color_code),
                                !.column_position = @ + 1]
          /\ printed' = IF Len(printed) = VGA_WIDTH THEN <<byte>> ELSE Append(printed, byte)

SetColor(color) ==
  /\ screen' = [screen EXCEPT !.color_code = color]
  /\ UNCHANGED printed

ClearScreen ==
  /\ screen' = [screen EXCEPT !.column_position = 0,
                              !.row = [i \in DOMAIN @ |-> Cell("blank", screen.color_code)]]
  /\ printed' = <<>>

ScreenNext ==
  \/ \E byte \in Bytes \cup {"nl", "cr"} : WriteByte(byte)
  \/ \E color \in Colors : SetColor(color)
  \/ ClearScreen

-----------------------------------------------------------------------------
(* The serial line.  A line under way is a frame of its context's stack:   *)
(* what caused it, the pieces left to write, and whether it has the lock.  *)

Nobody == "nobody"
LogLevels == {"Error", "Warn", "Info", "Debug", "Trace"}
Enabled(level) == level \in {"Error", "Warn", "Info"}

(* The vectors init_idt sets.  An exception that has no handler ends in    *)
(* the double fault.                                                       *)
Installed == {"division error", "breakpoint", "invalid opcode", "double fault", "gp fault",
              "page fault"}
Exceptions == Installed \cup {"overflow"}
Delivered(vector) == IF vector \in Installed THEN vector ELSE "double fault"

(* Handlers differ in whether they return *)
Cause(vector) == IF Delivered(vector) = "double fault" THEN "double fault" ELSE "exception"

Top(c) == stacks[c][Len(stacks[c])]
Halted(c) == stacks[c] # <<>> /\ Top(c).cause = "double fault" /\ Top(c).left = 0 /\ ~Top(c).locked
Waits(c) == stacks[c] # <<>> /\ Top(c).left > 0 /\ ~Top(c).locked

Begin(c, cause, pieces) ==
  /\ serial.begun < MaxLines /\ ~Halted(c)
  /\ stacks' = [stacks EXCEPT ![c] = Append(@, [cause |-> cause, line |-> serial.begun + 1,
                                               left |-> pieces, locked |-> FALSE])]
  /\ serial' = [serial EXCEPT !.begun = @ + 1]
  /\ UNCHANGED transcript

(* log: the colour and the level, the message, the end of the line *)
Log(c, level) == stacks[c] = <<>> /\ Enabled(level) /\ Begin(c, "log", 3)

(* An exception comes at any moment, also within a line; its handler       *)
(* formats a heading and the address                                       *)
Exception(c, vector) == Begin(c, Cause(vector), 2)

SetTop(c, frame) == stacks' = [stacks EXCEPT ![c][Len(stacks[c])] = frame]

LockSerial(c) ==
  /\ Waits(c) /\ serial.holder = Nobody
  /\ serial' = [serial EXCEPT !.holder = c]
  /\ SetTop(c, [Top(c) EXCEPT !.locked = TRUE])
  /\ UNCHANGED transcript

WritePiece(c) ==
  /\ stacks[c] # <<>> /\ Top(c).locked /\ Top(c).left > 0
  /\ transcript' = Append(transcript, Top(c).line)
  /\ SetTop(c, [Top(c) EXCEPT !.left = @ - 1])
  /\ UNCHANGED serial

(* The guard is dropped at the end of the block; after it the double fault *)
(* loops for ever, and every other handler returns to what it interrupted  *)
DropSerial(c) ==
  /\ stacks[c] # <<>> /\ Top(c).locked /\ Top(c).left = 0
  /\ serial' = [serial EXCEPT !.holder = Nobody]
  /\ IF Top(c).cause = "double fault" THEN SetTop(c, [Top(c) EXCEPT !.locked = FALSE])
     ELSE stacks' = [stacks EXCEPT ![c] = Front(@)]
  /\ UNCHANGED transcript

SerialNext ==
  \E c \in Contexts :
    \/ \E level \in LogLevels : Log(c, level)
    \/ \E vector \in Exceptions : Exception(c, vector)
    \/ LockSerial(c)
    \/ WritePiece(c)
    \/ DropSerial(c)

-----------------------------------------------------------------------------
Init ==
  /\ devices = <<>> /\ next_id = 1 /\ drivers = <<>>
  /\ block_devices = <<>> /\ disks = <<>> /\ written = <<>>
  /\ keyboard = [buffer |-> [i \in 0 .. KEYBOARD_BUFFER_SIZE - 1 |-> KeyEvent(0)],
                 read_pos |-> 0, write_pos |-> 0]
  /\ keys = [pushed |-> 0, waiting |-> <<>>]
  /\ screen = [column_position |-> 0, color_code |-> "gray",
               row |-> [i \in 0 .. VGA_WIDTH - 1 |-> Cell("blank", "gray")]]
  /\ printed = <<>>
  /\ serial = [holder |-> Nobody, begun |-> 0]
  /\ stacks = [c \in Contexts |-> <<>>]
  /\ transcript = <<>>

-----------------------------------------------------------------------------

TypeOK ==
  /\ DOMAIN devices \subseteq 1 .. next_id - 1
  /\ \A id \in DOMAIN devices : devices[id].status \in DeviceStatus /\ devices[id].device_class \in DeviceClass
  /\ ToSet(drivers) \subseteq Drivers
  /\ \A d \in DOMAIN disks : DOMAIN disks[d] = 0 .. block_size * capacity - 1

(* The driver found for a device is the first registered among those of    *)
(* the lowest priority number that fit it; a device is in the lists of its *)
(* class and status and in no other.                                       *)
BestDriverFits ==
  /\ \A class \in Classes, vendor \in Vendors :
       LET device == [device_class |-> class, vendor_id |-> vendor]
           fits(i) == /\ class \in drivers[i].supported_classes \/ Unknown \in drivers[i].supported_classes
                      /\ vendor \in drivers[i].supported_vendor_ids \/ drivers[i].supported_vendor_ids = {}
       IN FindAllDrivers(device) # <<>> =>
            \E i \in DOMAIN drivers :
              /\ drivers[i] = FindBestDriver(device) /\ fits(i)
              /\ \A j \in DOMAIN drivers :
                   fits(j) => /\ drivers[i].priority <= drivers[j].priority
                              /\ j < i => drivers[i].priority < drivers[j].priority
  /\ \A id \in DOMAIN devices :
       /\ {c \in DeviceClass : id \in ListByClass(c)} = {devices[id].device_class}
       /\ {s \in DeviceStatus : id \in ListByStatus(s)} = {devices[id].status}

(* Names of block devices are unique, and reading a disk gives the last    *)
(* that was written to each block, also after another disk has taken its   *)
(* name; transfers across the end are refused.                             *)
DisksExact ==
  /\ \A name \in DiskNames : Cardinality(GetDisk(name)) <= 1
  /\ \A d \in DOMAIN disks : \A lba \in Lbas : \A n \in 1 .. capacity + 1 :
       IF lba + n > capacity THEN TransferError(lba, n * block_size) = "InvalidLba"
       ELSE ReadBlocks(d, lba, n * block_size)
              = [i \in 1 .. n * block_size |-> written[d][lba * block_size + i - 1]]

(* The keyboard's ring is a first-in first-out queue of one event less     *)
(* than it has places.                                                     *)
KeysInOrder ==
  /\ KeyboardLen(keyboard) = Len(keys.waiting)
  /\ \A i \in DOMAIN keys.waiting :
       keyboard.buffer[(keyboard.read_pos + i - 1) % KEYBOARD_BUFFER_SIZE] = keys.waiting[i]

(* What was printed since the cursor was last at the left is what the row  *)
(* begins with, and the cursor is behind it.                               *)
ScreenShowsLine ==
  /\ screen.column_position = Len(printed)
  /\ \A i \in DOMAIN printed : screen.row[i - 1].character = printed[i]

(* Lines of log and of exceptions come out whole, and one frame at a time  *)
(* has the lock.  Its context writes on, unless an exception has come in   *)
(* the middle of the line: the handler then waits for a lock that its own  *)
(* context has, and the line never goes on.                                *)
LinesWhole ==
  /\ \A i, j \in DOMAIN transcript :
       transcript[i] = transcript[j] => \A k \in i .. j : transcript[k] = transcript[i]
  /\ \A c \in Contexts :
       LET lockers == {i \in DOMAIN stacks[c] : stacks[c][i].locked}
       IN /\ Cardinality(lockers) = (IF serial.holder = c THEN 1 ELSE 0)
          /\ \A i \in lockers : \A j \in i + 1 .. Len(stacks[c]) :
               stacks[c][j].cause # "log" /\ stacks[c][j].left = 2

=============================================================================
