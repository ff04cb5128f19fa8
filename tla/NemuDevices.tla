---------------------------- MODULE NemuDevices ----------------------------
(***************************************************************************)
(* The keyboard, the real-time clock and the screen of NEMU                *)
(* (nemu/src/device), between the event loop of the host, which runs       *)
(* between two instructions, and a guest that uses them through the        *)
(* abstract machine (am/src/platform/nemu/ioe).                            *)
(*                                                                         *)
(* The guest is one of three programs: a typist polls the keyboard, a      *)
(* clock reads the time with two loads, and a painter draws frames pixel   *)
(* by pixel.  Each of its steps is the instruction that makes the access.  *)
(***************************************************************************)
EXTENDS Integers, Sequences

CONSTANTS
  Codes,           \* SDL scancodes
  keymap,          \* scancode -> key of the abstract machine, 0 for none
  KEY_QUEUE_LEN,   \* slots of the key ring
  KEYDOWN_MASK,    \* the bit that tells a press from a release
  WordSize,        \* 2^32: the number of values of a register
  NrPixels,
  Guests,          \* the guest programs to run
  MaxTime, MaxEvents, MaxFrames   \* bounds

ASSUME DevicesAssumption ==
  /\ KEY_QUEUE_LEN \in Nat \ {0} /\ WordSize \in Nat \ {0} /\ NrPixels \in Nat \ {0}
  /\ KEYDOWN_MASK \in Nat \ {0}
  /\ keymap \in [Codes -> 0 .. (KEYDOWN_MASK - 1)]
  /\ Guests \subseteq {"typist", "clock", "painter"}
  /\ MaxTime \in Nat /\ MaxEvents \in Nat /\ MaxFrames \in Nat

VARIABLES
  nemu_state,    \* "RUNNING", "QUIT", or "ABORTED" by a failed Assert
  at,            \* the place in the loop of execute and device_update
  sdl,           \* events SDL has queued
  key_queue, key_f, key_r,
  now,           \* get_time(): microseconds since NEMU started
  elapsed,       \* now - last has reached the period of device_update
  rtc,           \* rtc_port_base: the latched time, low and high word
  sync,          \* vgactl_port_base[1]
  vmem, screen,
  guest,         \* the program and its local variables
  typed, got     \* history: the events of the host, the keys the guest read

ring     == <<key_queue, key_f, key_r>>
video    == <<sync, vmem, screen>>
devVars  == <<nemu_state, at, sdl, ring, now, elapsed, rtc, video, guest, typed, got>>

NONE == 0
Key(code, down) == [type |-> "key", code |-> code, down |-> down]
Quit            == [type |-> "quit"]
Events          == { Key(c, d) : c \in Codes, d \in BOOLEAN } \cup {Quit}

\* The scancode of the abstract machine for a key event: send_key.
am_scancode(e) == keymap[e.code] + (IF e.down THEN KEYDOWN_MASK ELSE 0)
Mapped(e)      == e.type = "key" /\ keymap[e.code] # NONE

DevState ==
  /\ nemu_state = "RUNNING" /\ sdl = <<>>
  /\ key_queue = [i \in 0 .. (KEY_QUEUE_LEN - 1) |-> NONE] /\ key_f = 0 /\ key_r = 0
  /\ now = 0 /\ rtc = [lo |-> 0, hi |-> 0]
  /\ sync = 0 /\ vmem = [p \in 1 .. NrPixels |-> 0] /\ screen = vmem
  /\ guest \in { [program |-> g, pc |-> 1, frame |-> 1, hi |-> 0, since |-> 0,
                  uptime |-> 0, read |-> FALSE] : g \in Guests }
  /\ typed = <<>> /\ got = <<>>
DevInit == at = "guest" /\ elapsed = FALSE /\ DevState

(***************************************************************************)
(* The host.  Events and time concern the guests that see them.            *)
(***************************************************************************)
\* Only the clock looks at the time.
Tick ==
  /\ now < MaxTime /\ guest.program = "clock"
  /\ now' = now + 1
  /\ UNCHANGED <<nemu_state, at, sdl, ring, elapsed, rtc, video, guest, typed, got>>

\* A period has passed since device_update last looked.
Elapse ==
  /\ ~elapsed
  /\ elapsed' = TRUE
  /\ UNCHANGED <<nemu_state, at, sdl, ring, now, rtc, video, guest, typed, got>>

HostEvent(e) ==
  /\ guest.program = "typist" /\ Len(typed) < MaxEvents
  /\ sdl' = Append(sdl, e)
  /\ typed' = Append(typed, e)
  /\ UNCHANGED <<nemu_state, at, ring, now, elapsed, rtc, video, guest, got>>

(***************************************************************************)
(* device_update: at most once in a period the screen, then every event.   *)
(***************************************************************************)
device_update_early ==
  /\ at = "update" /\ ~elapsed
  /\ at' = "guest"
  /\ UNCHANGED <<nemu_state, sdl, ring, now, elapsed, rtc, video, guest, typed, got>>

\* Mutant: the sync register is cleared first.
vga_update_screen_ClearsFirst ==
  /\ sync' = 0
  /\ screen' = IF sync' # 0 THEN vmem ELSE screen
  /\ UNCHANGED vmem

vga_update_screen ==
  /\ screen' = IF sync # 0 THEN vmem ELSE screen
  /\ sync' = 0
  /\ UNCHANGED vmem

\* Mutant: the events are looked at only when the screen is.
device_update_OnSync ==
  /\ at = "update" /\ elapsed
  /\ elapsed' = FALSE
  /\ vga_update_screen
  /\ at' = IF sync # 0 THEN "poll" ELSE "guest"
  /\ UNCHANGED <<nemu_state, sdl, ring, now, rtc, guest, typed, got>>

device_update ==
  /\ at = "update" /\ elapsed
  /\ elapsed' = FALSE
  /\ vga_update_screen
  /\ at' = "poll"
  /\ UNCHANGED <<nemu_state, sdl, ring, now, rtc, guest, typed, got>>

NextSlot(i) == (i + 1) % KEY_QUEUE_LEN

\* Mutant: no test for a full ring.
key_enqueue_NoTest(k) ==
  /\ key_queue' = [key_queue EXCEPT ![key_r] = k]
  /\ key_r' = NextSlot(key_r)
  /\ UNCHANGED <<nemu_state, key_f>>

\* The slot is written before the test for a full ring.
key_enqueue(k) ==
  /\ key_queue' = [key_queue EXCEPT ![key_r] = k]
  /\ key_r' = NextSlot(key_r)
  /\ nemu_state' = IF key_r' # key_f THEN nemu_state ELSE "ABORTED"
  /\ UNCHANGED key_f

send_key(e) ==
  IF nemu_state = "RUNNING" /\ keymap[e.code] # NONE
  THEN key_enqueue(am_scancode(e))
  ELSE UNCHANGED <<ring, nemu_state>>

poll_event ==
  /\ at = "poll" /\ sdl # <<>> /\ nemu_state # "ABORTED"
  /\ sdl' = Tail(sdl)
  /\ \/ /\ Head(sdl).type = "key"
        /\ send_key(Head(sdl))
     \/ /\ Head(sdl).type = "quit"
        /\ nemu_state' = "QUIT"
        /\ UNCHANGED ring
  /\ UNCHANGED <<at, now, elapsed, rtc, video, guest, typed, got>>

poll_done ==
  /\ at = "poll" /\ sdl = <<>> /\ nemu_state # "ABORTED"
  /\ at' = "guest"
  /\ UNCHANGED <<nemu_state, sdl, ring, now, elapsed, rtc, video, guest, typed, got>>

(***************************************************************************)
(* The guest.  execute leaves the loop after an instruction when the state *)
(* is no longer running.                                                   *)
(***************************************************************************)
Executes(program) ==
  /\ at = "guest" /\ guest.program = program
  /\ at' = IF nemu_state = "RUNNING" THEN "update" ELSE "stopped"
  /\ UNCHANGED <<nemu_state, sdl, now, elapsed, typed>>

\* Mutant: the index is advanced before the slot is read.
key_dequeue_Next ==
  IF key_f # key_r
  THEN /\ key_f' = NextSlot(key_f)
       /\ got' = Append(got, key_queue[key_f'])
       /\ UNCHANGED <<key_queue, key_r>>
  ELSE UNCHANGED <<ring, got>>

\* i8042_data_io_handler and key_dequeue, then __am_input_keybrd.
key_dequeue ==
  IF key_f # key_r
  THEN /\ key_f' = NextSlot(key_f)
       /\ got' = Append(got, key_queue[key_f])
       /\ UNCHANGED <<key_queue, key_r>>
  ELSE UNCHANGED <<ring, got>>

input_keybrd ==
  /\ Executes("typist")
  /\ key_dequeue
  /\ UNCHANGED <<rtc, video, guest>>

\* Mutant: the load of the low word latches.
rtc_io_handler_LatchLow(offset) ==
  IF offset = 0 THEN [lo |-> now % WordSize, hi |-> (now \div WordSize) % WordSize] ELSE rtc

\* rtc_io_handler for a load: the load of the high word latches the time.
rtc_io_handler(offset) ==
  IF offset = 4 THEN [lo |-> now % WordSize, hi |-> (now \div WordSize) % WordSize] ELSE rtc

\* __am_timer_uptime: the high word, then the low word.
timer_uptime ==
  /\ Executes("clock")
  /\ \/ /\ guest.pc = 1
        /\ rtc' = rtc_io_handler(4)
        /\ guest' = [guest EXCEPT !.pc = 2, !.hi = rtc'.hi, !.since = now, !.read = FALSE]
     \/ /\ guest.pc = 2
        /\ rtc' = rtc_io_handler(0)
        /\ guest' = [guest EXCEPT !.pc = 1, !.read = TRUE,
                                  !.uptime = guest.hi * WordSize + rtc'.lo]
  /\ UNCHANGED <<ring, video, got>>

\* __am_gpu_fbdraw: every pixel of a frame, then the sync register.
gpu_fbdraw ==
  /\ Executes("painter")
  /\ guest.frame <= MaxFrames
  /\ \/ /\ guest.pc <= NrPixels
        /\ vmem' = [vmem EXCEPT ![guest.pc] = guest.frame]
        /\ guest' = [guest EXCEPT !.pc = @ + 1]
        /\ UNCHANGED <<sync, screen>>
     \/ /\ guest.pc = NrPixels + 1
        /\ sync' = 1
        /\ guest' = [guest EXCEPT !.pc = 1, !.frame = @ + 1]
        /\ UNCHANGED <<vmem, screen>>
  /\ UNCHANGED <<ring, rtc, got>>

\* Any instruction that touches no device.
compute ==
  /\ \E g \in Guests : Executes(g)
  /\ UNCHANGED <<ring, rtc, video, guest, got>>

Guest == input_keybrd \/ timer_uptime \/ gpu_fbdraw

DevNext ==
  \/ Tick \/ Elapse \/ \E e \in Events : HostEvent(e)
  \/ device_update_early \/ device_update \/ poll_event \/ poll_done
  \/ Guest \/ compute

\* The loop of execute runs on, time passes, and the guest makes accesses.
DevFairness ==
  /\ WF_devVars(device_update_early) /\ WF_devVars(device_update)
  /\ WF_devVars(poll_event) /\ WF_devVars(poll_done)
  /\ SF_devVars(Elapse) /\ SF_devVars(Guest) /\ WF_devVars(compute)

DevSpec     == DevInit /\ [][DevNext]_devVars
DevFairSpec == DevSpec /\ DevFairness

(***************************************************************************)
(* What the keyboard, the clock and the screen owe the guest.              *)
(***************************************************************************)
Scancodes == 0 .. (2 * KEYDOWN_MASK - 1)

\* Every register and variable of the devices keeps its type.
DevTypeOK ==
  /\ nemu_state \in {"RUNNING", "QUIT", "ABORTED"}
  /\ at \in {"guest", "update", "poll", "stopped"}
  /\ sdl \in Seq(Events)
  /\ key_queue \in [0 .. (KEY_QUEUE_LEN - 1) -> Scancodes]
  /\ key_f \in 0 .. (KEY_QUEUE_LEN - 1) /\ key_r \in 0 .. (KEY_QUEUE_LEN - 1)
  /\ now \in Nat /\ elapsed \in BOOLEAN
  /\ rtc \in [lo : 0 .. (WordSize - 1), hi : 0 .. (WordSize - 1)]
  /\ sync \in {0, 1} /\ vmem \in [1 .. NrPixels -> Nat] /\ screen \in [1 .. NrPixels -> Nat]
  /\ guest \in [program : Guests, pc : 1 .. (NrPixels + 2), frame : Nat,
                hi : 0 .. (WordSize - 1), since : Nat, uptime : Nat, read : BOOLEAN]
  /\ typed \in Seq(Events) /\ got \in Seq(Scancodes)

\* The keys in the ring, oldest first.
InRing == (key_r - key_f) % KEY_QUEUE_LEN
RingContents == [i \in 1 .. InRing |-> key_queue[(key_f + i - 1) % KEY_QUEUE_LEN]]

KeysOf(events) ==
  LET keys == SelectSeq(events, Mapped) IN [i \in 1 .. Len(keys) |-> am_scancode(keys[i])]

\* The ring of key_enqueue and key_dequeue is a queue of KEY_QUEUE_LEN - 1
\* keys: nothing is lost, doubled or reordered when the indices wrap around,
\* and the Assert fires exactly when a key does not fit.
Fifo == INSTANCE BoundedFifo WITH Elements <- Scancodes, Capacity <- KEY_QUEUE_LEN - 1,
                                  queue <- RingContents, open <- nemu_state # "ABORTED"
RefinesFifo == Fifo!FifoSpec

\* While NEMU runs, the guest has read exactly the first of the keys that were
\* typed, and the others are still under way in the ring and in SDL's queue:
\* device_update neither skips an event nor lets one overtake another.
KeysInOrder == nemu_state = "RUNNING" => KeysOf(typed) = got \o RingContents \o KeysOf(sdl)

\* The two halves that __am_timer_uptime puts together belong to one time,
\* and that time lies within the call.
UptimeIsOneTime == guest.read => guest.uptime \in guest.since .. now

\* A guest that polls gets every key, unless the window was closed or the ring
\* overflowed: the throttle of device_update delays events but starves none.
KeysArrive ==
  \A n \in 1 .. MaxEvents : Len(KeysOf(typed)) >= n ~> (Len(got) >= n \/ nemu_state # "RUNNING")

\* Every frame that was finished with a write to the sync register reaches the
\* screen, or a later one drawn over it does: a sync is never dropped.
FramesShown ==
  \A f \in 1 .. MaxFrames :
    guest.frame > f ~> \A p \in 1 .. NrPixels : screen[p] >= f

\* The devices serve the guest: keys arrive, all of them and in order, frames
\* are shown, and a time is of one moment, however the host's events and the
\* periods of device_update fall between the instructions of the guest.
GuestIsServed == []KeysInOrder /\ KeysArrive /\ FramesShown /\ []UptimeIsOneTime
=============================================================================
