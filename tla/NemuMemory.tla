----------------------------- MODULE NemuMemory -----------------------------
(***************************************************************************)
(* The physical addresses of the guest: flash and sram (memory/paddr.c),   *)
(* and the registers and buffers of devices, which are given pieces of one *)
(* I/O space (device/io/map.c) and addresses of the memory (mmio.c) or     *)
(* ports (port-io.c).                                                      *)
(*                                                                         *)
(* The devices here have no callback: their bytes are what was stored.     *)
(* Data is a sequence of WordBytes bytes, the least significant first.     *)
(***************************************************************************)
EXTENDS Integers, Sequences

CONSTANTS
  AddrSize,                           \* 2^32
  SRAM_BASE, SRAM_SIZE, FLASH_BASE, FLASH_SIZE,
  MBASE, MSIZE,                       \* CONFIG_*: the part of the flash there is
  NR_MAP, PAGE_SIZE, IO_SPACE_MAX,
  PORT_IO_SPACE_MAX,
  WordBytes, Lens,                    \* of a word, of the accesses
  Machines,                           \* [port_io, devices]: how the devices are reached, and each of them
  MaxAccesses                         \* bound

\* The two windows of the memory lie in the address space, apart from each other.
ASSUME WindowAssumption ==
  /\ AddrSize \in Nat \ {0}
  /\ {SRAM_BASE, SRAM_SIZE, FLASH_BASE, FLASH_SIZE, MSIZE} \subseteq Nat
  /\ MBASE = FLASH_BASE /\ MSIZE <= FLASH_SIZE /\ FLASH_BASE + FLASH_SIZE <= AddrSize
  /\ SRAM_BASE + SRAM_SIZE <= FLASH_BASE \/ FLASH_BASE + FLASH_SIZE <= SRAM_BASE

ASSUME IoAssumption ==
  /\ IO_SPACE_MAX \in Nat /\ PAGE_SIZE \in Nat \ {0} /\ WordBytes \in Nat
  /\ Lens \subseteq 1 .. WordBytes

\* Devices have registers, and no two of them have the same port.
ASSUME MachineAssumption == \A m \in Machines :
  /\ m.port_io \in BOOLEAN
  /\ m.devices \in Seq([low : Nat, len : Nat \ {0}])
  /\ m.port_io => \A i, j \in DOMAIN m.devices :
       LET d == m.devices[i]  e == m.devices[j]
       IN  i # j => d.low + d.len <= e.low \/ e.low + e.len <= d.low

VARIABLES
  machine,
  up,        \* FALSE once an assert or a panic has ended NEMU
  host,      \* the bytes of flash, sram and the I/O space
  maps,      \* [low, high, space] of each device that is initialized
  p_space,   \* where the next piece of the I/O space begins
  bytes,     \* history: the last byte the guest stored at an address
  access     \* the last load, or how many accesses there were

memoryVars == <<machine, up, host, maps, p_space, bytes, access>>

Dies == up' = FALSE /\ UNCHANGED <<machine, host, maps, p_space, bytes, access>>

----------------------------------------------------------------------------
InFlash(addr) == addr \in FLASH_BASE .. (FLASH_BASE + FLASH_SIZE - 1)
InSram(addr)  == addr \in SRAM_BASE .. (SRAM_BASE + SRAM_SIZE - 1)

\* in_pmem asserts that the address is in one of the two windows.
InWindow(addr) == InFlash(addr) \/ InSram(addr)
in_pmem(addr)  == InSram(addr) \/ (addr - MBASE) % AddrSize < MSIZE

guest_to_host(addr) ==
  IF InSram(addr) THEN <<"sram", addr - SRAM_BASE>> ELSE <<"flash", addr - FLASH_BASE>>
host_to_guest(h) == h[2] + MBASE

\* Bytes of an object of the host, from one of its offsets on.
host_read(h, len) ==
  [k \in 1 .. WordBytes |-> IF k <= len THEN host[h[1]][h[2] + k - 1] ELSE 0]
host_write(h, len, data) ==
  host' = [host EXCEPT ![h[1]] =
             [o \in DOMAIN @ |-> IF o - h[2] \in 0 .. (len - 1) THEN data[o - h[2] + 1] ELSE @[o]]]

----------------------------------------------------------------------------
(* The devices.                                                            *)

\* new_space: whole pages.
new_space(size) == p_space + ((size + PAGE_SIZE - 1) \div PAGE_SIZE) * PAGE_SIZE

\* Mutant: a region around another one does not overlap it.
Overlaps_Ends(left, right, map) == left \in map.low .. map.high \/ right \in map.low .. map.high
Overlaps(left, right, map) == left <= map.high /\ right >= map.low

\* The addresses of a region are free: not of the memory, nor of a device.
add_mmio_map_passes(left, right) ==
  /\ InWindow(left) /\ ~in_pmem(left) /\ InWindow(right) /\ ~in_pmem(right)
  /\ \A i \in DOMAIN maps : ~Overlaps(left, right, maps[i])
\* Ports are not compared with those of other devices.
add_pio_map_passes(left, right) == right + 1 <= PORT_IO_SPACE_MAX

\* The init function of a device: a piece of the I/O space, and a map to it.
init_device ==
  LET d == machine.devices[Len(maps) + 1]
      right == (d.low + d.len - 1) % AddrSize
      fits == IF machine.port_io THEN add_pio_map_passes(d.low, right)
                                 ELSE add_mmio_map_passes(d.low, right)
  IN  /\ up /\ Len(maps) < Len(machine.devices)
      /\ IF new_space(d.len) < IO_SPACE_MAX /\ Len(maps) < NR_MAP /\ fits
         THEN /\ p_space' = new_space(d.len)
              /\ maps' = Append(maps, [low |-> d.low, high |-> right, space |-> p_space])
              /\ UNCHANGED <<machine, up, host, bytes, access>>
         ELSE Dies

----------------------------------------------------------------------------
(* Accesses of the guest: paddr_read and paddr_write, pio_read and         *)
(* pio_write.  Each is within one region, or outside of them all.          *)

Answering(addr) == {i \in DOMAIN maps : addr \in maps[i].low .. maps[i].high}

\* find_mapid_by_addr: the first map; check_bound fails when there is none.
map_host(addr) ==
  LET i == CHOOSE j \in Answering(addr) : \A k \in Answering(addr) : j <= k
  IN  <<"io", maps[i].space + addr - maps[i].low>>

\* Where an access goes, and whether it goes anywhere.
Reaches(port, addr, len) ==
  IF port THEN addr + len - 1 < PORT_IO_SPACE_MAX /\ Answering(addr) # {}
  ELSE InWindow(addr) /\ (in_pmem(addr) \/ (~machine.port_io /\ Answering(addr) # {}))
HostOf(port, addr) ==
  IF ~port /\ in_pmem(addr) THEN guest_to_host(addr) ELSE map_host(addr)

InFlashMemory(addr) == InFlash(addr) /\ in_pmem(addr)
Within(port, addr, len) ==
  \A k \in 1 .. (len - 1) :
    /\ Answering(addr + k) = Answering(addr)
    /\ port \/ (InSram(addr + k) = InSram(addr) /\ InFlashMemory(addr + k) = InFlashMemory(addr))

Running == up /\ Len(maps) = Len(machine.devices) /\ access.count < MaxAccesses

Load(port, addr, len) ==
  /\ Running /\ access.len = 0 /\ Within(port, addr, len)
  /\ IF Reaches(port, addr, len)
     THEN /\ access' = [access EXCEPT !.port = port, !.addr = addr, !.len = len, !.count = @ + 1,
                                      !.data = host_read(HostOf(port, addr), len)]
          /\ UNCHANGED <<machine, up, host, maps, p_space, bytes>>
     ELSE Dies

NoLoad == [port |-> FALSE, addr |-> 0, len |-> 0, data |-> <<>>, count |-> 0]
Store(port, addr, len) ==
  LET data == [k \in 1 .. WordBytes |-> access.count + k] IN
  /\ Running /\ Within(port, addr, len)
  /\ IF Reaches(port, addr, len)
     THEN /\ host_write(HostOf(port, addr), len, data)
          /\ bytes' = [b \in DOMAIN bytes \cup {<<port, addr + k>> : k \in 0 .. (len - 1)} |->
                         IF b[1] = port /\ b[2] - addr \in 0 .. (len - 1) THEN data[b[2] - addr + 1]
                         ELSE bytes[b]]
          /\ access' = [NoLoad EXCEPT !.count = access.count + 1]
          /\ UNCHANGED <<machine, up, maps, p_space>>
     ELSE Dies

----------------------------------------------------------------------------
\* init_mem and init_map.
MemoryState ==
  /\ host = [object \in {"flash", "sram", "io"} |->
               [o \in 0 .. (CASE object = "flash" -> MSIZE [] object = "sram" -> SRAM_SIZE
                              [] OTHER -> IO_SPACE_MAX) - 1 |-> 0]]
  /\ maps = <<>> /\ p_space = 0 /\ bytes = [b \in {} |-> 0] /\ access = NoLoad
MemoryInit == up = TRUE /\ machine \in Machines /\ MemoryState

MemoryNext ==
  \/ init_device
  \/ \E port \in {FALSE, machine.port_io}, addr \in 0 .. (AddrSize - WordBytes), len \in Lens :
       Load(port, addr, len) \/ Store(port, addr, len)

MemorySpec == MemoryInit /\ [][MemoryNext]_memoryVars

----------------------------------------------------------------------------
\* Properties

Stored(port, addr) == IF <<port, addr>> \in DOMAIN bytes THEN bytes[<<port, addr>>] ELSE 0

\* What is stored at an address is found there by a load, and by the device the
\* address is of, and by no other device; what the host writes to the flash is at
\* the address it has for the guest (paddr_write, add_mmio_map, new_space).
RegionsAreApart ==
  /\ \A k \in 1 .. access.len : access.data[k] = Stored(access.port, access.addr + k - 1)
  /\ \A i \in DOMAIN maps : \A a \in maps[i].low .. maps[i].high :
       host["io"][maps[i].space + a - maps[i].low] = Stored(machine.port_io, a)
  /\ \A o \in DOMAIN host["flash"] :
       LET a == host_to_guest(<<"flash", o>>)
       IN  guest_to_host(a) = <<"flash", o>> /\ host["flash"][o] = Stored(FALSE, a)
=============================================================================
