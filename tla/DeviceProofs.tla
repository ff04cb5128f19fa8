---------------------------- MODULE DeviceProofs ----------------------------
(***************************************************************************)
(* Proofs, for a key ring of any length, any key map and any number of     *)
(* events, about the devices of NEMU; and for any memory, pages and        *)
(* machine, about the memory and the I/O maps.                             *)
(***************************************************************************)
EXTENDS NemuDevices, NemuMemory, TLAPS

-----------------------------------------------------------------------------
(* Indices that wrap around.                                               *)

\* A number less than one length away from the ring's indices wraps once.
LEMMA WrapsOnce ==
  ASSUME NEW n \in Nat \ {0}, NEW a \in Int, -n <= a, a < 2 * n
  PROVE  a % n = IF a < 0 THEN a + n ELSE IF a < n THEN a ELSE a - n
<1>1. /\ a = n * (a \div n) + (a % n) /\ a % n \in 0 .. (n - 1) /\ a \div n \in Int
  BY Z3
<1>2. a \div n \in {-1, 0, 1}
  BY <1>1, Z3
<1>3. CASE a \div n = -1
  BY <1>1, <1>3
<1>4. CASE a \div n = 0
  BY <1>1, <1>4
<1>5. CASE a \div n = 1
  BY <1>1, <1>5
<1>6. QED BY <1>2, <1>3, <1>4, <1>5

LEMMA NextSlotIs ==
  ASSUME NEW i \in 0 .. (KEY_QUEUE_LEN - 1)
  PROVE  /\ NextSlot(i) \in 0 .. (KEY_QUEUE_LEN - 1)
         /\ NextSlot(i) = IF i = KEY_QUEUE_LEN - 1 THEN 0 ELSE i + 1
<1> DEFINE a == i + 1
<1>1. KEY_QUEUE_LEN \in Nat \ {0} /\ a \in Int /\ 0 <= a /\ a < 2 * KEY_QUEUE_LEN /\ -KEY_QUEUE_LEN <= a
  BY DevicesAssumption
<1> HIDE DEF a
<1>2. a % KEY_QUEUE_LEN = IF a < 0 THEN a + KEY_QUEUE_LEN ELSE IF a < KEY_QUEUE_LEN THEN a ELSE a - KEY_QUEUE_LEN
  BY <1>1, WrapsOnce
<1> USE DEF a
<1>3. QED BY <1>1, <1>2 DEF NextSlot

LEMMA WordTyped ==
  ASSUME NEW x \in Nat PROVE x % WordSize \in 0 .. (WordSize - 1) /\ x \div WordSize \in Nat
BY DevicesAssumption, Z3

-----------------------------------------------------------------------------
(* Types.                                                                  *)

GuestTypes == [program : Guests, pc : 1 .. (NrPixels + 2), frame : Nat,
               hi : 0 .. (WordSize - 1), since : Nat, uptime : Nat, read : BOOLEAN]

GuestOf(g, p, f, h, t, u, r) == [program |-> g, pc |-> p, frame |-> f, hi |-> h,
                                 since |-> t, uptime |-> u, read |-> r]

LEMMA GuestTyped ==
  ASSUME NEW g \in Guests, NEW p \in 1 .. (NrPixels + 2), NEW f \in Nat,
         NEW h \in 0 .. (WordSize - 1), NEW t \in Nat, NEW u \in Nat, NEW r \in BOOLEAN
  PROVE  GuestOf(g, p, f, h, t, u, r) \in GuestTypes
BY Zenon DEF GuestOf, GuestTypes

LEMMA GuestFields ==
  ASSUME NEW g \in GuestTypes
  PROVE  /\ g.program \in Guests /\ g.frame \in Nat /\ g.since \in Nat /\ g.uptime \in Nat
         /\ g.read \in BOOLEAN
         /\ g.pc \in Nat /\ g.pc >= 1 /\ g.hi \in 0 .. (WordSize - 1)
BY DevicesAssumption DEF GuestTypes

LEMMA NextPixel ==
  ASSUME NEW p \in Nat, p >= 1, p <= NrPixels PROVE p + 1 \in 1 .. (NrPixels + 2)
BY DevicesAssumption

LEMMA UptimeTyped ==
  ASSUME NEW h \in 0 .. (WordSize - 1), NEW l \in 0 .. (WordSize - 1)
  PROVE  h * WordSize + l \in Nat
<1>1. h \in Nat /\ l \in Nat /\ WordSize \in Nat
  BY DevicesAssumption
<1>2. QED BY <1>1, Z3

LEMMA ScancodeTyped ==
  ASSUME NEW e \in Events, e.type = "key" PROVE am_scancode(e) \in Scancodes
<1>1. e.code \in Codes
  BY DEF Events, Key, Quit
<1>2. keymap[e.code] \in 0 .. (KEYDOWN_MASK - 1)
  BY <1>1, DevicesAssumption
<1>3. QED BY <1>2, DevicesAssumption DEF am_scancode, Scancodes

LEMMA DevTypeInit == DevInit => DevTypeOK
<1> SUFFICES ASSUME DevInit PROVE DevTypeOK
  OBVIOUS
<1>1. NONE \in Scancodes
  BY DevicesAssumption DEF NONE, Scancodes
<1>2. guest \in GuestTypes
  <2>1. PICK g \in Guests : guest = GuestOf(g, 1, 1, 0, 0, 0, FALSE)
    BY DEF DevInit, DevState, GuestOf
  <2>2. 1 \in 1 .. (NrPixels + 2) /\ 0 \in 0 .. (WordSize - 1)
    BY DevicesAssumption
  <2>3. QED BY <2>1, <2>2, GuestTyped
<1>3. elapsed \in BOOLEAN
  BY Zenon DEF DevInit
<1>4. QED BY <1>1, <1>2, <1>3, DevicesAssumption DEF DevInit, DevState, DevTypeOK, GuestTypes

LEMMA DevTypeNext == DevTypeOK /\ [DevNext]_devVars => DevTypeOK'
<1> SUFFICES ASSUME DevTypeOK, [DevNext]_devVars PROVE DevTypeOK'
  OBVIOUS
<1> USE DEF DevTypeOK, ring, video
<1>1. CASE Tick
  BY <1>1 DEF Tick
<1>2. CASE Elapse
  <2>1. elapsed' \in BOOLEAN
    BY <1>2, Zenon DEF Elapse
  <2>2. QED BY <1>2, <2>1 DEF Elapse
<1>3. CASE device_update_early
  BY <1>3 DEF device_update_early
<1>4. CASE poll_done
  BY <1>4 DEF poll_done
<1>5. ASSUME NEW e \in Events, HostEvent(e) PROVE DevTypeOK'
  <2>1. sdl' = Append(sdl, e) /\ typed' \in Seq(Events)
    <3>1. sdl \in Seq(Events) /\ typed \in Seq(Events)
      OBVIOUS
    <3> HIDE DEF DevTypeOK
    <3>2. sdl' = Append(sdl, e) /\ typed' = Append(typed, e)
      BY <1>5 DEF HostEvent
    <3>3. QED BY <3>1, <3>2
  <2>2. sdl' \in Seq(Events)
    BY <2>1
  <2>3. QED BY <1>5, <2>1, <2>2 DEF HostEvent
<1>6. CASE device_update
  BY <1>6 DEF device_update, vga_update_screen
<1>7. CASE poll_event
  <2>1. Head(sdl) \in Events /\ sdl' \in Seq(Events)
    BY <1>7 DEF poll_event
  <2>2. CASE Head(sdl).type = "quit"
    BY <1>7, <2>1, <2>2 DEF poll_event
  <2>3. CASE Head(sdl).type = "key"
    <3>1. am_scancode(Head(sdl)) \in Scancodes
      BY <2>1, <2>3, ScancodeTyped
    <3>2. NextSlot(key_r) \in 0 .. (KEY_QUEUE_LEN - 1)
      BY NextSlotIs
    <3>3. QED BY <1>7, <2>1, <2>3, <3>1, <3>2 DEF poll_event, send_key, key_enqueue
  <2>4. QED BY <1>7, <2>2, <2>3 DEF poll_event
<1>8. CASE input_keybrd
  <2>1. NextSlot(key_f) \in 0 .. (KEY_QUEUE_LEN - 1)
    BY NextSlotIs
  <2>2. key_queue[key_f] \in Scancodes
    OBVIOUS
  <2>3. key_queue' = key_queue /\ key_r' = key_r /\ key_f' \in 0 .. (KEY_QUEUE_LEN - 1)
    BY <1>8, <2>1 DEF input_keybrd, key_dequeue
  <2>4. got' \in Seq(Scancodes)
    <3>1. got' = got \/ got' = Append(got, key_queue[key_f])
      BY <1>8 DEF input_keybrd, key_dequeue
    <3>2. got \in Seq(Scancodes)
      OBVIOUS
    <3> HIDE DEF DevTypeOK, Scancodes
    <3>3. QED BY <2>2, <3>1, <3>2
  <2>5. QED BY <1>8, <2>3, <2>4 DEF input_keybrd, Executes
<1>9. CASE timer_uptime
  <2>1. rtc' \in [lo : 0 .. (WordSize - 1), hi : 0 .. (WordSize - 1)]
    <3>1. now % WordSize \in 0 .. (WordSize - 1) /\ (now \div WordSize) % WordSize \in 0 .. (WordSize - 1)
      BY WordTyped
    <3>2. rtc \in [lo : 0 .. (WordSize - 1), hi : 0 .. (WordSize - 1)]
      OBVIOUS
    <3> HIDE DEF DevTypeOK
    <3>3. \/ rtc' = [lo |-> now % WordSize, hi |-> (now \div WordSize) % WordSize]
          \/ rtc' = rtc
      BY <1>9 DEF timer_uptime, rtc_io_handler
    <3>4. QED BY <3>1, <3>2, <3>3
  <2>2. rtc'.lo \in 0 .. (WordSize - 1) /\ rtc'.hi \in 0 .. (WordSize - 1)
    BY <2>1
  <2>3. guest \in GuestTypes
    BY DEF GuestTypes
  <2>4. guest.hi * WordSize + rtc'.lo \in Nat
    BY <2>2, <2>3, GuestFields, UptimeTyped
  <2>5. guest' \in GuestTypes
    <3>1. CASE guest' = [guest EXCEPT !.pc = 2, !.hi = rtc'.hi, !.since = now, !.read = FALSE]
      <4>1. guest' = GuestOf(guest.program, 2, guest.frame, rtc'.hi, now, guest.uptime, FALSE)
        BY <3>1 DEF GuestOf
      <4>2. 2 \in 1 .. (NrPixels + 2) /\ rtc'.hi \in 0 .. (WordSize - 1)
        BY <2>1, DevicesAssumption
      <4>3. QED BY <4>1, <4>2, GuestTyped
    <3>2. CASE guest' = [guest EXCEPT !.pc = 1, !.read = TRUE,
                                      !.uptime = guest.hi * WordSize + rtc'.lo]
      <4>1. guest' = GuestOf(guest.program, 1, guest.frame, guest.hi, guest.since,
                             guest.hi * WordSize + rtc'.lo, TRUE)
        BY <3>2 DEF GuestOf
      <4>2. 1 \in 1 .. (NrPixels + 2)
        BY DevicesAssumption
      <4>3. QED BY <2>4, <4>1, <4>2, GuestTyped
    <3>3. QED BY <1>9, <3>1, <3>2 DEF timer_uptime
  <2>6. QED BY <1>9, <2>1, <2>5 DEF timer_uptime, Executes, GuestTypes
<1>10. CASE gpu_fbdraw
  <2>1. guest' \in GuestTypes
    <3>1. CASE guest.pc <= NrPixels /\ guest' = [guest EXCEPT !.pc = @ + 1]
      <4>1. guest' = GuestOf(guest.program, guest.pc + 1, guest.frame, guest.hi, guest.since,
                             guest.uptime, guest.read)
        BY <3>1 DEF GuestOf
      <4>2. guest.pc + 1 \in 1 .. (NrPixels + 2)
        BY <3>1, GuestFields, NextPixel DEF GuestTypes
      <4>3. QED BY <4>1, <4>2, GuestTyped
    <3>2. CASE guest' = [guest EXCEPT !.pc = 1, !.frame = @ + 1]
      <4>1. guest' = GuestOf(guest.program, 1, guest.frame + 1, guest.hi, guest.since,
                             guest.uptime, guest.read)
        BY <3>2 DEF GuestOf
      <4>2. 1 \in 1 .. (NrPixels + 2)
        <5> HIDE DEF DevTypeOK
        <5>1. QED BY DevicesAssumption
      <4>3. guest.frame + 1 \in Nat
        <5>1. guest \in GuestTypes
          BY DEF GuestTypes
        <5> HIDE DEF DevTypeOK
        <5>2. guest.frame \in Nat
          BY <5>1, GuestFields
        <5>3. QED BY <5>2
      <4>4. QED BY <4>1, <4>2, <4>3, GuestTyped
    <3>3. QED BY <1>10, <3>1, <3>2 DEF gpu_fbdraw
  <2>2. QED BY <1>10, <2>1 DEF gpu_fbdraw, Executes, GuestTypes
<1>11. CASE compute
  BY <1>11 DEF compute, Executes
<1>12. CASE UNCHANGED devVars
  BY <1>12 DEF devVars
<1>13. QED BY <1>1, <1>2, <1>3, <1>4, <1>5, <1>6, <1>7, <1>8, <1>9, <1>10, <1>11, <1>12 DEF DevNext, Guest

\* Every register and variable of the devices keeps its type.
THEOREM DevicesTyped == DevSpec => []DevTypeOK
BY DevTypeInit, DevTypeNext, PTL DEF DevSpec

-----------------------------------------------------------------------------
(* The ring is a queue.                                                    *)

\* A list is known from its length and its elements.
LEMMA IsAppend ==
  ASSUME NEW S, NEW s \in Seq(S), NEW t \in Seq(S), NEW x \in S, Len(t) = Len(s) + 1,
         \A i \in 1 .. Len(s) : t[i] = s[i], t[Len(s) + 1] = x
  PROVE  t = Append(s, x)
OBVIOUS

LEMMA IsTail ==
  ASSUME NEW S, NEW s \in Seq(S), NEW t \in Seq(S), Len(s) > 0, Len(t) = Len(s) - 1,
         \A i \in 1 .. Len(t) : t[i] = s[i + 1]
  PROVE  t = Tail(s) /\ s # <<>>
OBVIOUS

\* The number of keys between two indices of the ring, and a slot after one.
LEMMA InRingIs ==
  ASSUME DevTypeOK
  PROVE  /\ InRing = IF key_f <= key_r THEN key_r - key_f ELSE key_r - key_f + KEY_QUEUE_LEN
         /\ InRing \in 0 .. (KEY_QUEUE_LEN - 1)
<1> DEFINE a == key_r - key_f
<1>1. /\ KEY_QUEUE_LEN \in Nat \ {0} /\ a \in Int /\ a < KEY_QUEUE_LEN /\ -KEY_QUEUE_LEN < a
      /\ key_f \in Nat /\ key_r \in Nat
  BY DevicesAssumption DEF DevTypeOK
<1> HIDE DEF a
<1>2. -KEY_QUEUE_LEN <= a /\ a < 2 * KEY_QUEUE_LEN
  BY <1>1
<1>3. a % KEY_QUEUE_LEN = IF a < 0 THEN a + KEY_QUEUE_LEN ELSE IF a < KEY_QUEUE_LEN THEN a ELSE a - KEY_QUEUE_LEN
  BY <1>1, <1>2, WrapsOnce
<1> USE DEF a
<1>4. QED BY <1>1, <1>3 DEF InRing

\* The ring's keys, without remainders.
RingSlot(f, i) == IF f + i - 1 < KEY_QUEUE_LEN THEN f + i - 1 ELSE f + i - 1 - KEY_QUEUE_LEN

LEMMA SlotIs ==
  ASSUME NEW f \in 0 .. (KEY_QUEUE_LEN - 1), NEW i \in 1 .. KEY_QUEUE_LEN
  PROVE  /\ (f + i - 1) % KEY_QUEUE_LEN = RingSlot(f, i)
         /\ RingSlot(f, i) \in 0 .. (KEY_QUEUE_LEN - 1)
<1> DEFINE a == f + i - 1
<1>1. /\ KEY_QUEUE_LEN \in Nat \ {0} /\ a \in Int /\ a < 2 * KEY_QUEUE_LEN /\ 0 <= a
      /\ -KEY_QUEUE_LEN <= a
  BY DevicesAssumption
<1> HIDE DEF a
<1>2. a % KEY_QUEUE_LEN = IF a < 0 THEN a + KEY_QUEUE_LEN ELSE IF a < KEY_QUEUE_LEN THEN a ELSE a - KEY_QUEUE_LEN
  BY <1>1, WrapsOnce
<1> USE DEF a
<1>3. QED BY <1>1, <1>2 DEF RingSlot

LEMMA RingIs ==
  ASSUME DevTypeOK
  PROVE  /\ RingContents = [i \in 1 .. InRing |-> key_queue[RingSlot(key_f, i)]]
         /\ RingContents \in Seq(Scancodes) /\ Len(RingContents) = InRing
<1>1. InRing \in Nat /\ InRing < KEY_QUEUE_LEN
  BY InRingIs, DevicesAssumption
<1>2. \A i \in 1 .. InRing : /\ (key_f + i - 1) % KEY_QUEUE_LEN = RingSlot(key_f, i)
                             /\ RingSlot(key_f, i) \in 0 .. (KEY_QUEUE_LEN - 1)
  <2> TAKE i \in 1 .. InRing
  <2>1. i \in 1 .. KEY_QUEUE_LEN /\ key_f \in 0 .. (KEY_QUEUE_LEN - 1)
    BY <1>1, DevicesAssumption DEF DevTypeOK
  <2>2. QED BY <2>1, SlotIs
<1>3. RingContents = [i \in 1 .. InRing |-> key_queue[RingSlot(key_f, i)]]
  BY <1>2 DEF RingContents
<1>4. QED BY <1>1, <1>2, <1>3 DEF DevTypeOK

RingIsTheSlots == DevTypeOK =>
  /\ RingContents = [i \in 1 .. InRing |-> key_queue[RingSlot(key_f, i)]]
  /\ RingContents \in Seq(Scancodes) /\ Len(RingContents) = InRing
  /\ InRing = IF key_f <= key_r THEN key_r - key_f ELSE key_r - key_f + KEY_QUEUE_LEN
  /\ InRing \in 0 .. (KEY_QUEUE_LEN - 1)

LEMMA RingNow == RingIsTheSlots
BY RingIs, InRingIs DEF RingIsTheSlots

LEMMA RingNext == RingIsTheSlots'
BY RingNow, PTL

\* key_enqueue puts a key, or stops NEMU when there is no room.
LEMMA EnqueueIsPut ==
  ASSUME DevTypeOK, DevTypeOK', nemu_state = "RUNNING", NEW k \in Scancodes, key_enqueue(k)
  PROVE  Fifo!Put(k) \/ Fifo!Overflow
<1>1. /\ key_r' = IF key_r = KEY_QUEUE_LEN - 1 THEN 0 ELSE key_r + 1
      /\ key_f' = key_f
      /\ nemu_state' = IF key_r' # key_f THEN nemu_state ELSE "ABORTED"
      /\ key_f \in 0 .. (KEY_QUEUE_LEN - 1) /\ key_r \in 0 .. (KEY_QUEUE_LEN - 1)
  BY NextSlotIs DEF key_enqueue, DevTypeOK
<1>2. /\ RingContents = [i \in 1 .. InRing |-> key_queue[RingSlot(key_f, i)]]
      /\ RingContents \in Seq(Scancodes) /\ Len(RingContents) = InRing
      /\ InRing = IF key_f <= key_r THEN key_r - key_f ELSE key_r - key_f + KEY_QUEUE_LEN
  BY RingNow DEF RingIsTheSlots
<1>3. /\ RingContents' = [i \in 1 .. InRing' |-> key_queue'[RingSlot(key_f, i)]]
      /\ RingContents' \in Seq(Scancodes) /\ Len(RingContents') = InRing'
      /\ InRing' = IF key_f <= key_r' THEN key_r' - key_f ELSE key_r' - key_f + KEY_QUEUE_LEN
  BY <1>1, RingNext DEF RingIsTheSlots, RingSlot
<1>4. CASE key_r' = key_f
  <2>1. InRing = KEY_QUEUE_LEN - 1 /\ InRing' = 0
    BY <1>1, <1>2, <1>3, <1>4, DevicesAssumption
  <2>2. RingContents' = <<>>
    BY <1>3, <2>1
  <2>3. QED BY <1>1, <1>2, <1>4, <2>1, <2>2 DEF Fifo!Overflow
<1>5. CASE key_r' # key_f
  <2>1. InRing' = InRing + 1 /\ InRing < KEY_QUEUE_LEN - 1 /\ InRing \in Nat
    BY <1>1, <1>2, <1>3, <1>5, DevicesAssumption
  <2>2. key_queue' = [key_queue EXCEPT ![key_r] = k] /\ key_queue \in [0 .. (KEY_QUEUE_LEN - 1) -> Scancodes]
    BY DEF key_enqueue, DevTypeOK
  <2>3. \A i \in 1 .. InRing : RingSlot(key_f, i) # key_r /\ RingSlot(key_f, i) \in 0 .. (KEY_QUEUE_LEN - 1)
    BY <1>1, <1>2, <2>1, DevicesAssumption DEF RingSlot
  <2>4. RingSlot(key_f, InRing + 1) = key_r
    BY <1>1, <1>2, <2>1, DevicesAssumption DEF RingSlot
  <2>5. \A i \in 1 .. InRing : RingContents'[i] = RingContents[i]
    BY <1>2, <1>3, <2>1, <2>2, <2>3
  <2>6. RingContents'[InRing + 1] = k
    BY <1>1, <1>3, <2>1, <2>2, <2>4
  <2>7. RingContents' = Append(RingContents, k)
    <3>1. Len(RingContents') = Len(RingContents) + 1 /\ Len(RingContents) = InRing
      BY <1>2, <1>3, <2>1
    <3>2. /\ \A i \in 1 .. Len(RingContents) : RingContents'[i] = RingContents[i]
          /\ RingContents'[Len(RingContents) + 1] = k
      BY <2>5, <2>6, <3>1
    <3>3. RingContents \in Seq(Scancodes) /\ RingContents' \in Seq(Scancodes)
      BY <1>2, <1>3
    <3>4. QED BY <3>1, <3>2, <3>3, IsAppend
  <2>8. QED BY <1>1, <1>2, <1>5, <2>1, <2>7 DEF Fifo!Put
<1>6. QED BY <1>4, <1>5

\* key_dequeue takes the oldest key, if there is one.
LEMMA DequeueIsTake ==
  ASSUME DevTypeOK, DevTypeOK', key_f # key_r, UNCHANGED <<key_queue, key_r, nemu_state>>,
         key_f' = NextSlot(key_f)
  PROVE  Fifo!Take
<1>1. /\ key_f' = IF key_f = KEY_QUEUE_LEN - 1 THEN 0 ELSE key_f + 1
      /\ key_f \in 0 .. (KEY_QUEUE_LEN - 1) /\ key_r \in 0 .. (KEY_QUEUE_LEN - 1)
  BY NextSlotIs DEF DevTypeOK
<1>2. /\ RingContents = [i \in 1 .. InRing |-> key_queue[RingSlot(key_f, i)]]
      /\ RingContents \in Seq(Scancodes) /\ Len(RingContents) = InRing
      /\ InRing = IF key_f <= key_r THEN key_r - key_f ELSE key_r - key_f + KEY_QUEUE_LEN
  BY RingNow DEF RingIsTheSlots
<1>3. /\ RingContents' = [i \in 1 .. InRing' |-> key_queue[RingSlot(key_f', i)]]
      /\ RingContents' \in Seq(Scancodes) /\ Len(RingContents') = InRing'
      /\ InRing' = IF key_f' <= key_r THEN key_r - key_f' ELSE key_r - key_f' + KEY_QUEUE_LEN
  BY RingNext DEF RingIsTheSlots, RingSlot
<1>4. InRing' = InRing - 1 /\ InRing > 0 /\ InRing \in Nat /\ InRing < KEY_QUEUE_LEN
  BY <1>1, <1>2, <1>3, DevicesAssumption
<1>5. \A i \in 1 .. InRing' : RingSlot(key_f', i) = RingSlot(key_f, i + 1)
  BY <1>1, <1>4, DevicesAssumption DEF RingSlot
<1>6. \A i \in 1 .. InRing' : RingContents'[i] = RingContents[i + 1]
  BY <1>2, <1>3, <1>4, <1>5
<1>7. RingContents' = Tail(RingContents) /\ RingContents # <<>>
  <2>1. Len(RingContents) > 0 /\ Len(RingContents') = Len(RingContents) - 1 /\ Len(RingContents') = InRing'
    BY <1>2, <1>3, <1>4
  <2>2. RingContents \in Seq(Scancodes) /\ RingContents' \in Seq(Scancodes)
    BY <1>2, <1>3
  <2>3. \A i \in 1 .. Len(RingContents') : RingContents'[i] = RingContents[i + 1]
    BY <1>6, <2>1
  <2>4. QED BY <2>1, <2>2, <2>3, IsTail
<1>8. QED BY <1>7 DEF Fifo!Take

\* The ring of key_enqueue and key_dequeue is a queue of KEY_QUEUE_LEN - 1 keys,
\* for every length and wherever the indices stand: nothing is lost, doubled or
\* reordered, and the Assert fires exactly when a key does not fit.
THEOREM RingIsAFifo == DevSpec => RefinesFifo
<1>1. DevInit => Fifo!FifoInit
  <2> SUFFICES ASSUME DevInit PROVE Fifo!FifoInit
    OBVIOUS
  <2>1. key_f = 0 /\ key_r = 0 /\ nemu_state = "RUNNING"
    BY DEF DevInit, DevState
  <2>2. InRing = 0 /\ RingContents = [i \in 1 .. InRing |-> key_queue[RingSlot(key_f, i)]]
    BY <2>1, DevTypeInit, RingNow DEF RingIsTheSlots
  <2>3. QED BY <2>1, <2>2 DEF Fifo!FifoInit
<1>2. DevTypeOK /\ DevTypeOK' /\ [DevNext]_devVars
        => [Fifo!FifoNext]_<<RingContents, nemu_state # "ABORTED">>
  <2> SUFFICES ASSUME DevTypeOK, DevTypeOK', [DevNext]_devVars
               PROVE  [Fifo!FifoNext]_<<RingContents, nemu_state # "ABORTED">>
    OBVIOUS
  <2>1. CASE UNCHANGED ring /\ (nemu_state # "ABORTED") = (nemu_state' # "ABORTED")
    BY <2>1 DEF ring, RingContents, InRing
  <2>2. CASE poll_event
    <3>1. CASE UNCHANGED ring /\ nemu_state # "ABORTED" /\ nemu_state' # "ABORTED"
      BY <2>1, <3>1
    <3>2. CASE nemu_state = "RUNNING" /\ Head(sdl).type = "key"
               /\ key_enqueue(am_scancode(Head(sdl)))
      <4>1. Head(sdl) \in Events
        <5>1. sdl \in Seq(Events)
          BY DEF DevTypeOK
        <5>2. sdl # <<>>
          BY <2>2 DEF poll_event
        <5>3. QED BY <5>1, <5>2
      <4>2. am_scancode(Head(sdl)) \in Scancodes
        BY <3>2, <4>1, ScancodeTyped
      <4>3. QED BY <3>2, <4>2, EnqueueIsPut DEF Fifo!FifoNext
    <3>3. QED BY <2>2, <3>1, <3>2 DEF poll_event, send_key
  <2>3. CASE input_keybrd
    <3>1. CASE UNCHANGED ring
      BY <2>1, <2>3, <3>1 DEF input_keybrd, Executes
    <3>2. CASE /\ key_f # key_r /\ key_f' = NextSlot(key_f)
               /\ UNCHANGED <<key_queue, key_r, nemu_state>>
      BY <3>2, DequeueIsTake DEF Fifo!FifoNext
    <3>3. QED BY <2>3, <3>1, <3>2 DEF input_keybrd, Executes, key_dequeue
  <2>4. CASE Tick \/ Elapse \/ (\E e \in Events : HostEvent(e)) \/ device_update_early
             \/ device_update \/ poll_done
    BY <2>1, <2>4 DEF Tick, Elapse, HostEvent, device_update_early, device_update, poll_done
  <2>5. CASE timer_uptime \/ gpu_fbdraw \/ compute
    BY <2>1, <2>5 DEF timer_uptime, gpu_fbdraw, compute, Executes
  <2>6. CASE UNCHANGED devVars
    BY <2>1, <2>6 DEF devVars
  <2>7. QED BY <2>2, <2>3, <2>4, <2>5, <2>6 DEF DevNext, Guest
<1>3. QED BY <1>1, <1>2, DevicesTyped, PTL DEF DevSpec, RefinesFifo, Fifo!FifoSpec

-----------------------------------------------------------------------------
(* The memory and the I/O maps.                                            *)

\* The remainder is not greater than the number, nor are whole pages too few.
LEMMA Remainder ==
  ASSUME NEW n \in Nat \ {0}, NEW z \in Nat
  PROVE  z % n \in Nat /\ z % n <= z /\ z - (z % n) >= 0
<1>1. /\ z = n * (z \div n) + (z % n) /\ z % n \in 0 .. (n - 1) /\ z \div n \in Int
  BY Z3
<1>2. z \div n >= 0
  BY <1>1, Z3
<1>3. n * (z \div n) >= 0
  BY <1>1, <1>2, Z3
<1>4. QED BY <1>1, <1>3

LEMMA WholePages ==
  ASSUME NEW s \in Nat
  PROVE  /\ ((s + PAGE_SIZE - 1) \div PAGE_SIZE) * PAGE_SIZE \in Nat
         /\ ((s + PAGE_SIZE - 1) \div PAGE_SIZE) * PAGE_SIZE >= s
<1> DEFINE n == PAGE_SIZE
           z == s + n - 1
<1>1. n \in Nat \ {0} /\ z \in Nat
  BY IoAssumption
<1> HIDE DEF n
<1>2. /\ z = n * (z \div n) + (z % n) /\ z % n \in 0 .. (n - 1) /\ z \div n \in Int
  BY <1>1, Z3
<1>3. (z \div n) * n = n * (z \div n) /\ n * (z \div n) \in Int
  BY <1>1, <1>2, Z3
<1>4. n * (z \div n) >= s
  BY <1>1, <1>2, <1>3
<1>5. QED BY <1>1, <1>3, <1>4 DEF n

LEMMA RangesApart ==
  ASSUME NEW a \in Nat, NEW b \in Nat, NEW c \in Nat, NEW e \in Nat, b < c \/ e < a
  PROVE  (a .. b) \cap (c .. e) = {}
OBVIOUS

\* The windows are apart, and in_pmem tells what there is of the flash.
LEMMA WindowsApart ==
  ASSUME NEW a \in Int
  PROVE  /\ InSram(a) => ~InFlash(a) /\ in_pmem(a)
         /\ InFlash(a) => (in_pmem(a) <=> a < MBASE + MSIZE)
<1>1. InSram(a) => ~InFlash(a) /\ in_pmem(a)
  BY WindowAssumption DEF InSram, InFlash, in_pmem
<1>2. ASSUME InFlash(a) PROVE in_pmem(a) <=> a < MBASE + MSIZE
  <2>1. a - MBASE \in Nat /\ a - MBASE < AddrSize /\ AddrSize \in Nat \ {0} /\ ~InSram(a)
    BY <1>2, WindowAssumption DEF InSram, InFlash
  <2>2. (a - MBASE) % AddrSize = a - MBASE
    BY <2>1, WrapsOnce
  <2>3. QED BY <2>1, <2>2, WindowAssumption DEF in_pmem
<1>3. QED BY <1>1, <1>2

-----------------------------------------------------------------------------
Region   == [low : Nat, high : Nat, space : Nat]
OfMap(i) == maps[i].low .. maps[i].high

\* The part of the window of the flash where there is no flash.
Beyond(a) == a >= MBASE + MSIZE /\ a < FLASH_BASE + FLASH_SIZE

\* The maps of the devices so far, and their pieces of the I/O space, are apart.
MapInv ==
  /\ machine \in Machines
  /\ maps \in Seq(Region) /\ Len(maps) <= Len(machine.devices)
  /\ p_space \in Nat /\ p_space <= IO_SPACE_MAX
  /\ \A i \in DOMAIN maps :
       /\ maps[i].space + (maps[i].high - maps[i].low) < p_space
       /\ maps[i].low = machine.devices[i].low
       /\ maps[i].high < machine.devices[i].low + machine.devices[i].len
       /\ ~machine.port_io => Beyond(maps[i].low) /\ Beyond(maps[i].high)
  /\ \A i, j \in DOMAIN maps : i < j =>
       maps[i].space + (maps[i].high - maps[i].low) < maps[j].space
  /\ \A i, j \in DOMAIN maps : i # j => OfMap(i) \cap OfMap(j) = {}

HostType ==
  /\ DOMAIN host = {"flash", "sram", "io"}
  /\ DOMAIN host["flash"] = 0 .. (MSIZE - 1) /\ DOMAIN host["sram"] = 0 .. (SRAM_SIZE - 1)
  /\ DOMAIN host["io"] = 0 .. (IO_SPACE_MAX - 1)

\* The host holds at each place what the guest last stored there.
SramAgrees == \A a \in SRAM_BASE .. (SRAM_BASE + SRAM_SIZE - 1) :
                host["sram"][a - SRAM_BASE] = Stored(FALSE, a)
FlashAgrees == \A a \in MBASE .. (MBASE + MSIZE - 1) :
                 host["flash"][a - MBASE] = Stored(FALSE, a)
MapsAgree == \A i \in DOMAIN maps : \A a \in OfMap(i) :
               host["io"][maps[i].space + a - maps[i].low] = Stored(machine.port_io, a)

Loaded == /\ access = [port |-> access.port, addr |-> access.addr, len |-> access.len,
                       data |-> access.data, count |-> access.count]
          /\ access.len \in Nat
          /\ \A k \in 1 .. access.len : access.data[k] = Stored(access.port, access.addr + k - 1)

\* The guest runs when every device has its map.
Fresh == Len(maps) < Len(machine.devices) =>
           /\ bytes = [b \in {} |-> 0] /\ access = NoLoad
           /\ \A o \in 0 .. (IO_SPACE_MAX - 1) : host["io"][o] = 0

MemInv == MapInv /\ HostType /\ SramAgrees /\ FlashAgrees /\ MapsAgree /\ Loaded /\ Fresh

LEMMA SeqParts ==
  ASSUME NEW S, NEW s \in Seq(S)
  PROVE  Len(s) \in Nat /\ DOMAIN s = 1 .. Len(s) /\ \A i \in DOMAIN s : s[i] \in S
OBVIOUS

Device == [low : Nat, len : Nat \ {0}]

LEMMA Devices ==
  ASSUME machine \in Machines
  PROVE  /\ machine.port_io \in BOOLEAN
         /\ Len(machine.devices) \in Nat /\ DOMAIN machine.devices = 1 .. Len(machine.devices)
         /\ \A i \in DOMAIN machine.devices : /\ machine.devices[i].low \in Nat
                                             /\ machine.devices[i].len \in Nat \ {0}
         /\ machine.port_io => \A i, j \in DOMAIN machine.devices : i # j =>
              \/ machine.devices[i].low + machine.devices[i].len <= machine.devices[j].low
              \/ machine.devices[j].low + machine.devices[j].len <= machine.devices[i].low
<1> DEFINE ds == machine.devices
<1>1. machine.port_io \in BOOLEAN /\ ds \in Seq(Device)
  BY MachineAssumption DEF Device
<1>2. machine.port_io => \A i, j \in DOMAIN ds : i # j =>
         ds[i].low + ds[i].len <= ds[j].low \/ ds[j].low + ds[j].len <= ds[i].low
  BY MachineAssumption, Zenon
<1> HIDE DEF ds
<1>3. Len(ds) \in Nat /\ DOMAIN ds = 1 .. Len(ds) /\ \A i \in DOMAIN ds : ds[i] \in Device
  BY <1>1, SeqParts
<1>4. \A i \in DOMAIN ds : ds[i].low \in Nat /\ ds[i].len \in Nat \ {0}
  BY <1>3 DEF Device
<1>5. QED BY <1>1, <1>2, <1>3, <1>4 DEF ds

RegionsTyped ==
  /\ Len(maps) \in Nat /\ DOMAIN maps = 1 .. Len(maps) /\ maps \in Seq(Region)
  /\ \A i \in DOMAIN maps : maps[i].low \in Nat /\ maps[i].high \in Nat /\ maps[i].space \in Nat

LEMMA Regions == MapInv => RegionsTyped
<1> SUFFICES ASSUME MapInv PROVE RegionsTyped
  OBVIOUS
<1>1. maps \in Seq(Region)
  BY DEF MapInv
<1>2. Len(maps) \in Nat /\ DOMAIN maps = 1 .. Len(maps) /\ \A i \in DOMAIN maps : maps[i] \in Region
  BY <1>1, SeqParts
<1>3. QED BY <1>1, <1>2 DEF Region, RegionsTyped

LEMMA RegionsNext == MapInv' => RegionsTyped'
BY Regions, PTL

LEMMA MemInvInit == MemoryInit => MemInv
<1> SUFFICES ASSUME MemoryInit PROVE MemInv
  OBVIOUS
<1>1. maps = <<>> /\ p_space = 0 /\ bytes = [b \in {} |-> 0] /\ access = NoLoad /\ machine \in Machines
  BY DEF MemoryInit, MemoryState
<1>2. host = [object \in {"flash", "sram", "io"} |->
               [o \in 0 .. (CASE object = "flash" -> MSIZE [] object = "sram" -> SRAM_SIZE
                              [] OTHER -> IO_SPACE_MAX) - 1 |-> 0]]
  BY DEF MemoryInit, MemoryState
<1>3. /\ host["flash"] = [o \in 0 .. (MSIZE - 1) |-> 0]
      /\ host["sram"] = [o \in 0 .. (SRAM_SIZE - 1) |-> 0]
      /\ host["io"] = [o \in 0 .. (IO_SPACE_MAX - 1) |-> 0]
  BY <1>2
<1>4. HostType
  BY <1>2, <1>3 DEF HostType
<1>5. \A p, a : Stored(p, a) = 0
  BY <1>1 DEF Stored
<1>6. SramAgrees /\ FlashAgrees
  <2>1. ASSUME NEW a \in SRAM_BASE .. (SRAM_BASE + SRAM_SIZE - 1)
        PROVE  host["sram"][a - SRAM_BASE] = 0
    <3>1. a - SRAM_BASE \in 0 .. (SRAM_SIZE - 1)
      BY WindowAssumption
    <3>2. QED BY <1>3, <3>1
  <2>2. ASSUME NEW a \in MBASE .. (MBASE + MSIZE - 1)
        PROVE  host["flash"][a - MBASE] = 0
    <3>1. a - MBASE \in 0 .. (MSIZE - 1)
      BY WindowAssumption
    <3>2. QED BY <1>3, <3>1
  <2>3. QED BY <1>5, <2>1, <2>2 DEF SramAgrees, FlashAgrees
<1>7. MapInv /\ MapsAgree
  BY <1>1, IoAssumption, MachineAssumption DEF MapInv, MapsAgree
<1>8. Loaded /\ Fresh
  BY <1>1, <1>3 DEF Loaded, Fresh, NoLoad
<1>9. QED BY <1>4, <1>6, <1>7, <1>8 DEF MemInv

LEMMA StaysStill ==
  ASSUME MemInv, UNCHANGED <<machine, host, maps, p_space, bytes, access>>
  PROVE  MemInv'
<1>1. MapInv' /\ MapsAgree'
  BY DEF MemInv, MapInv, MapsAgree, OfMap, Stored
<1>2. HostType' /\ SramAgrees' /\ FlashAgrees'
  BY DEF MemInv, HostType, SramAgrees, FlashAgrees, Stored
<1>3. Loaded' /\ Fresh'
  BY DEF MemInv, Loaded, Fresh, Stored
<1>4. QED BY <1>1, <1>2, <1>3 DEF MemInv

\* An init function that passes the checks of new_space and of the maps adds a
\* region that is apart from the others.
LEMMA InitDeviceStep == ASSUME MemInv, init_device PROVE MemInv'
<1> DEFINE n == Len(maps)
           d == machine.devices[n + 1]
           right == (d.low + d.len - 1) % AddrSize
           new == [low |-> d.low, high |-> right, space |-> p_space]
<1>1. n \in Nat /\ n < Len(machine.devices) /\ maps \in Seq(Region) /\ machine \in Machines
      /\ DOMAIN maps = 1 .. n /\ machine.port_io \in BOOLEAN
  <2>1. MapInv /\ machine \in Machines
    BY DEF MemInv, MapInv
  <2>2. QED BY <2>1, Regions, Devices DEF init_device, RegionsTyped
<1>2. /\ d.low \in Nat /\ d.len \in Nat \ {0} /\ n + 1 \in DOMAIN machine.devices
      /\ \A i \in 1 .. n : i \in DOMAIN machine.devices /\ i # n + 1
  <2>1. n + 1 \in DOMAIN machine.devices
    BY <1>1, Devices
  <2>2. \A i \in 1 .. n : i \in DOMAIN machine.devices /\ i # n + 1
    BY <1>1, Devices
  <2>3. QED BY <1>1, <2>1, <2>2, Devices
<1>3. CASE Dies
  BY <1>3, StaysStill DEF Dies
<1>4. CASE ~Dies
  <2>1. /\ new_space(d.len) < IO_SPACE_MAX
        /\ IF machine.port_io THEN add_pio_map_passes(d.low, right)
                              ELSE add_mmio_map_passes(d.low, right)
        /\ p_space' = new_space(d.len) /\ maps' = Append(maps, new)
        /\ UNCHANGED <<machine, host, bytes, access>>
    BY <1>4 DEF init_device
  <2>2. right \in Nat /\ right < d.low + d.len
    <3>1. d.low + d.len - 1 \in Nat
      <4> HIDE DEF d
      <4>1. QED BY <1>2
    <3> DEFINE z == d.low + d.len - 1
    <3>2. z % AddrSize \in Nat /\ z % AddrSize <= z
      BY <3>1, Remainder, WindowAssumption
    <3>3. QED BY <1>2, <3>2
  <2> HIDE DEF right
  <2>3. p_space' \in Nat /\ p_space' >= p_space + d.len /\ p_space \in Nat /\ p_space' <= IO_SPACE_MAX
    <3>1. p_space \in Nat /\ IO_SPACE_MAX \in Nat
      BY IoAssumption DEF MemInv, MapInv
    <3> DEFINE w == ((d.len + PAGE_SIZE - 1) \div PAGE_SIZE) * PAGE_SIZE
    <3>2. w \in Nat /\ w >= d.len
      BY <1>2, WholePages
    <3>3. p_space' = p_space + w /\ p_space' < IO_SPACE_MAX
      BY <2>1 DEF new_space
    <3> HIDE DEF w
    <3>4. QED BY <1>2, <3>1, <3>2, <3>3
  <2>4. new \in Region /\ maps' \in Seq(Region) /\ Len(maps') = n + 1 /\ DOMAIN maps' = 1 .. (n + 1)
        /\ maps'[n + 1] = new /\ \A i \in 1 .. n : maps'[i] = maps[i]
    BY <1>1, <1>2, <2>1, <2>2, <2>3 DEF Region
  <2>5. \A i \in 1 .. n :
          /\ maps[i].low \in Nat /\ maps[i].high \in Nat /\ maps[i].space \in Nat
          /\ maps[i].space + (maps[i].high - maps[i].low) < p_space
          /\ maps[i].low = machine.devices[i].low
          /\ maps[i].high < machine.devices[i].low + machine.devices[i].len
    <3>1. MapInv
      BY DEF MemInv
    <3>2. QED BY <1>1, <3>1, Regions DEF MapInv, RegionsTyped
  <2>6. ~machine.port_io => Beyond(d.low) /\ Beyond(right)
    <3> SUFFICES ASSUME ~machine.port_io PROVE Beyond(d.low) /\ Beyond(right)
      OBVIOUS
    <3>1. InFlash(d.low) /\ ~in_pmem(d.low) /\ InFlash(right) /\ ~in_pmem(right)
      BY <1>2, <2>1, <2>2, WindowsApart DEF add_mmio_map_passes, InWindow
    <3>2. ~(d.low < MBASE + MSIZE) /\ ~(right < MBASE + MSIZE)
      BY <1>2, <2>2, <3>1, WindowsApart
    <3>3. d.low \in Nat /\ right \in Nat
      BY <1>2, <2>2
    <3> HIDE DEF d
    <3>4. QED BY <3>1, <3>2, <3>3, WindowAssumption DEF InFlash, Beyond
  <2>7. \A i \in 1 .. n : OfMap(i) \cap (d.low .. right) = {}
    <3> SUFFICES ASSUME NEW i \in 1 .. n PROVE OfMap(i) \cap (d.low .. right) = {}
      OBVIOUS
    <3>1. CASE machine.port_io
      <4> DEFINE e == machine.devices[i]
      <4>1. d.low + d.len <= e.low \/ e.low + e.len <= d.low
        BY <1>1, <1>2, <3>1, Devices
      <4>2. e.low \in Nat /\ e.len \in Nat /\ maps[i].low = e.low /\ maps[i].high < e.low + e.len
            /\ maps[i].high \in Nat
        BY <1>1, <1>2, <2>5, Devices
      <4>3. d.low \in Nat /\ right \in Nat /\ right < d.low + d.len /\ d.len \in Nat
        BY <1>2, <2>2
      <4>4. /\ maps[i].low \in Nat /\ maps[i].high \in Nat /\ d.low \in Nat /\ right \in Nat
            /\ maps[i].high < d.low \/ right < maps[i].low
        <5> HIDE DEF d, e
        <5>1. QED BY <4>1, <4>2, <4>3
      <4> HIDE DEF d, e
      <4>5. QED BY <4>4, RangesApart DEF OfMap
    <3>2. CASE ~machine.port_io
      <4>1. ~Overlaps(d.low, right, maps[i])
        BY <1>1, <2>1, <3>2 DEF add_mmio_map_passes
      <4>2. maps[i].low \in Nat /\ maps[i].high \in Nat
        BY <2>5
      <4>3. QED BY <1>2, <2>2, <4>1, <4>2 DEF Overlaps, OfMap
    <3>3. QED BY <1>1, <3>1, <3>2
  <2>8. \A i \in 1 .. (n + 1) : OfMap(i)' = IF i = n + 1 THEN d.low .. right ELSE OfMap(i)
    BY <1>1, <2>4 DEF OfMap
  <2>9. MapInv'
    <3>1. \A i \in DOMAIN maps' :
            /\ maps'[i].space + (maps'[i].high - maps'[i].low) < p_space'
            /\ maps'[i].low = machine.devices[i].low
            /\ maps'[i].high < machine.devices[i].low + machine.devices[i].len
            /\ ~machine.port_io => Beyond(maps'[i].low) /\ Beyond(maps'[i].high)
      <4> SUFFICES ASSUME NEW i \in 1 .. (n + 1)
                   PROVE  /\ maps'[i].space + (maps'[i].high - maps'[i].low) < p_space'
                          /\ maps'[i].low = machine.devices[i].low
                          /\ maps'[i].high < machine.devices[i].low + machine.devices[i].len
                          /\ ~machine.port_io => Beyond(maps'[i].low) /\ Beyond(maps'[i].high)
        BY <2>4
      <4>1. CASE i = n + 1
        <5>1. maps'[i].low = d.low /\ maps'[i].high = right /\ maps'[i].space = p_space
          BY <2>4, <4>1
        <5>2. machine.devices[i].low = d.low /\ machine.devices[i].len = d.len
          BY <4>1
        <5> HIDE DEF d
        <5>3. p_space + (right - d.low) < p_space'
          BY <1>2, <2>2, <2>3
        <5>4. maps'[i].space + (maps'[i].high - maps'[i].low) < p_space'
          BY <5>1, <5>3
        <5>5. maps'[i].low = machine.devices[i].low
          BY <5>1, <5>2
        <5>6. maps'[i].high < machine.devices[i].low + machine.devices[i].len
          BY <2>2, <5>1, <5>2
        <5>7. ~machine.port_io => Beyond(maps'[i].low) /\ Beyond(maps'[i].high)
          BY <2>6, <5>1
        <5>8. QED BY <5>4, <5>5, <5>6, <5>7
      <4>2. CASE i # n + 1
        <5>1. i \in 1 .. n /\ i \in DOMAIN maps /\ maps'[i] = maps[i]
          BY <1>1, <2>4, <4>2
        <5>2. ~machine.port_io => Beyond(maps[i].low) /\ Beyond(maps[i].high)
          BY <5>1 DEF MemInv, MapInv
        <5>3. /\ maps[i].low \in Nat /\ maps[i].high \in Nat /\ maps[i].space \in Nat
              /\ maps[i].space + (maps[i].high - maps[i].low) < p_space
              /\ maps[i].low = machine.devices[i].low
              /\ maps[i].high < machine.devices[i].low + machine.devices[i].len
          BY <2>5, <5>1
        <5> HIDE DEF d
        <5>4. p_space < p_space'
          BY <1>2, <2>3
        <5>5. maps'[i].space + (maps'[i].high - maps'[i].low) < p_space'
          BY <2>3, <5>1, <5>3, <5>4
        <5>6. maps'[i].low = machine.devices[i].low
          BY <5>1, <5>3
        <5>7. maps'[i].high < machine.devices[i].low + machine.devices[i].len
          BY <5>1, <5>3
        <5>8. ~machine.port_io => Beyond(maps'[i].low) /\ Beyond(maps'[i].high)
          BY <5>1, <5>2
        <5>9. QED BY <5>5, <5>6, <5>7, <5>8
      <4>3. QED BY <4>1, <4>2
    <3>2. \A i, j \in DOMAIN maps' : i < j =>
            maps'[i].space + (maps'[i].high - maps'[i].low) < maps'[j].space
      <4> SUFFICES ASSUME NEW i \in 1 .. (n + 1), NEW j \in 1 .. (n + 1), i < j
                   PROVE  maps'[i].space + (maps'[i].high - maps'[i].low) < maps'[j].space
        BY <2>4
      <4>1. i \in 1 .. n /\ i \in DOMAIN maps /\ maps'[i] = maps[i]
        BY <1>1, <2>4
      <4>2. CASE j = n + 1
        BY <2>4, <2>5, <4>1, <4>2
      <4>3. CASE j # n + 1
        <5>1. j \in 1 .. n /\ j \in DOMAIN maps /\ maps'[j] = maps[j]
          BY <1>1, <2>4, <4>3
        <5>2. QED BY <4>1, <5>1 DEF MemInv, MapInv
      <4>4. QED BY <4>2, <4>3
    <3>3. \A i, j \in DOMAIN maps' : i # j => OfMap(i)' \cap OfMap(j)' = {}
      <4> SUFFICES ASSUME NEW i \in 1 .. (n + 1), NEW j \in 1 .. (n + 1), i # j
                   PROVE  OfMap(i)' \cap OfMap(j)' = {}
        BY <2>4
      <4>1. i # n + 1 => i \in 1 .. n /\ i \in DOMAIN maps
        BY <1>1
      <4>2. j # n + 1 => j \in 1 .. n /\ j \in DOMAIN maps
        BY <1>1
      <4>3. CASE i = n + 1
        BY <2>7, <2>8, <4>2, <4>3
      <4>4. CASE j = n + 1
        BY <2>7, <2>8, <4>1, <4>4
      <4>5. CASE i # n + 1 /\ j # n + 1
        <5>1. OfMap(i) \cap OfMap(j) = {}
          BY <4>1, <4>2, <4>5 DEF MemInv, MapInv
        <5>2. QED BY <2>8, <4>5, <5>1
      <4>6. QED BY <4>3, <4>4, <4>5
    <3>4. Len(maps') <= Len(machine'.devices)
      BY <1>1, <2>1, <2>4
    <3>5. QED BY <1>1, <2>1, <2>3, <2>4, <3>1, <3>2, <3>3, <3>4 DEF MapInv
  <2>10. bytes = [b \in {} |-> 0] /\ access = NoLoad /\ \A o \in 0 .. (IO_SPACE_MAX - 1) : host["io"][o] = 0
    BY <1>1 DEF MemInv, Fresh
  <2>11. \A p, a : Stored(p, a) = 0
    BY <2>10 DEF Stored
  <2>12. MapsAgree'
    <3>1. ASSUME NEW i \in DOMAIN maps', NEW a \in OfMap(i)'
          PROVE  host["io"][maps'[i].space + a - maps'[i].low] = 0
      <4>1. /\ maps'[i].low \in Nat /\ maps'[i].high \in Nat /\ maps'[i].space \in Nat
            /\ a \in maps'[i].low .. maps'[i].high
        BY <2>9, RegionsNext DEF OfMap, RegionsTyped
      <4>2. maps'[i].space + (maps'[i].high - maps'[i].low) < p_space'
        BY <2>9 DEF MapInv
      <4>3. maps'[i].space + a - maps'[i].low \in 0 .. (IO_SPACE_MAX - 1)
        <5>1. p_space' \in Nat /\ p_space' <= IO_SPACE_MAX
          BY <2>3
        <5> HIDE DEF d, n
        <5>2. QED BY <4>1, <4>2, <5>1, IoAssumption
      <4>4. QED BY <2>10, <4>3
    <3>2. UNCHANGED <<host, bytes, machine>>
      BY <2>1
    <3>3. QED BY <2>11, <3>1, <3>2 DEF MapsAgree, Stored
  <2>13. HostType' /\ SramAgrees' /\ FlashAgrees' /\ Loaded' /\ Fresh'
    BY <2>1, <2>10 DEF MemInv, HostType, SramAgrees, FlashAgrees, Loaded, Fresh, Stored
  <2>14. QED BY <2>9, <2>12, <2>13 DEF MemInv
<1>5. QED BY <1>3, <1>4

\* The bytes of an access that reaches anything lie one after another in the sram,
\* in the flash, or in the piece of one device.
ToSram(port, addr, len) ==
  /\ port = FALSE /\ HostOf(port, addr) = <<"sram", addr - SRAM_BASE>>
  /\ \A k \in 0 .. (len - 1) : InSram(addr + k)
ToFlash(port, addr, len) ==
  /\ port = FALSE /\ HostOf(port, addr) = <<"flash", addr - MBASE>>
  /\ \A k \in 0 .. (len - 1) : addr + k \in MBASE .. (MBASE + MSIZE - 1)
ToDevice(port, addr, len, i) ==
  /\ port = machine.port_io /\ HostOf(port, addr) = <<"io", maps[i].space + addr - maps[i].low>>
  /\ \A k \in 0 .. (len - 1) : addr + k \in OfMap(i)

LEMMA OneAnswers ==
  ASSUME MapInv, NEW addr \in Nat, NEW i \in Answering(addr)
  PROVE  map_host(addr) = <<"io", maps[i].space + addr - maps[i].low>>
<1>1. /\ DOMAIN maps \subseteq Nat
      /\ \A m, n \in DOMAIN maps : m # n => OfMap(m) \cap OfMap(n) = {}
  BY Regions DEF MapInv, RegionsTyped
<1>2. Answering(addr) = {i}
  BY <1>1 DEF Answering, OfMap
<1>3. (CHOOSE j \in Answering(addr) : \A k \in Answering(addr) : j <= k) = i
  BY <1>1, <1>2 DEF Answering
<1>4. QED BY <1>3 DEF map_host

LEMMA Targets ==
  ASSUME MemInv, NEW port \in {FALSE, machine.port_io}, NEW addr \in Nat, NEW len \in Lens,
         Within(port, addr, len), Reaches(port, addr, len)
  PROVE  \/ ToSram(port, addr, len) \/ ToFlash(port, addr, len)
         \/ \E i \in DOMAIN maps : ToDevice(port, addr, len, i)
<1>1. /\ MapInv /\ len \in Nat /\ len >= 1 /\ machine.port_io \in BOOLEAN
      /\ \A k \in 0 .. (len - 1) : addr + k \in Nat /\ ((k = 0 /\ addr + k = addr) \/ k \in 1 .. (len - 1))
  BY IoAssumption, Devices DEF MemInv, MapInv
<1>2. ASSUME port = machine.port_io, Answering(addr) # {}, HostOf(port, addr) = map_host(addr)
      PROVE  \E i \in DOMAIN maps : ToDevice(port, addr, len, i)
  <2>1. PICK i \in Answering(addr) : TRUE
    BY <1>2
  <2>2. i \in DOMAIN maps /\ addr \in OfMap(i)
    BY <2>1 DEF Answering, OfMap
  <2>3. HostOf(port, addr) = <<"io", maps[i].space + addr - maps[i].low>>
    BY <1>1, <1>2, <2>1, OneAnswers
  <2>4. ASSUME NEW k \in 0 .. (len - 1) PROVE addr + k \in OfMap(i)
    <3>1. CASE k = 0
      BY <2>2, <3>1
    <3>2. CASE k \in 1 .. (len - 1)
      BY <2>1, <3>2 DEF Within, Answering, OfMap
    <3>3. QED BY <1>1, <3>1, <3>2
  <2>5. QED BY <1>2, <2>2, <2>3, <2>4 DEF ToDevice
<1>3. CASE port = TRUE
  <2>1. port = machine.port_io
    BY <1>1, <1>3
  <2>2. Answering(addr) # {} /\ HostOf(port, addr) = map_host(addr)
    BY <1>3 DEF Reaches, HostOf
  <2>3. QED BY <1>2, <2>1, <2>2
<1>4. CASE port = FALSE
  <2>1. InWindow(addr) /\ (in_pmem(addr) \/ (~machine.port_io /\ Answering(addr) # {}))
    BY <1>4 DEF Reaches
  <2>2. ASSUME NEW k \in 1 .. (len - 1)
        PROVE  InSram(addr + k) = InSram(addr) /\ InFlashMemory(addr + k) = InFlashMemory(addr)
    BY <1>4 DEF Within
  <2>3. CASE in_pmem(addr) /\ InSram(addr)
    <3>1. \A k \in 0 .. (len - 1) : InSram(addr + k)
      BY <1>1, <2>2, <2>3
    <3>2. HostOf(port, addr) = <<"sram", addr - SRAM_BASE>>
      BY <1>4, <2>3 DEF HostOf, guest_to_host
    <3>3. QED BY <1>4, <3>1, <3>2 DEF ToSram
  <2>4. CASE in_pmem(addr) /\ ~InSram(addr)
    <3>1. InFlashMemory(addr)
      BY <2>1, <2>4 DEF InWindow, InFlashMemory
    <3>2. \A k \in 0 .. (len - 1) : InFlashMemory(addr + k)
      BY <1>1, <2>2, <3>1
    <3>3. \A k \in 0 .. (len - 1) : addr + k \in MBASE .. (MBASE + MSIZE - 1)
      BY <1>1, <3>2, WindowsApart, WindowAssumption DEF InFlashMemory, InFlash
    <3>4. HostOf(port, addr) = <<"flash", addr - MBASE>>
      BY <1>4, <2>4, WindowAssumption DEF HostOf, guest_to_host
    <3>5. QED BY <1>4, <3>3, <3>4 DEF ToFlash
  <2>5. CASE ~in_pmem(addr)
    <3>1. port = machine.port_io
      BY <1>1, <1>4, <2>1, <2>5
    <3>2. Answering(addr) # {} /\ HostOf(port, addr) = map_host(addr)
      BY <2>1, <2>5 DEF HostOf
    <3>3. QED BY <1>2, <3>1, <3>2
  <2>6. QED BY <2>3, <2>4, <2>5
<1>5. QED BY <1>1, <1>3, <1>4

\* A load finds at each byte what was stored there.
LEMMA Reads ==
  ASSUME MemInv, NEW port \in {FALSE, machine.port_io}, NEW addr \in Nat, NEW len \in Lens,
         Within(port, addr, len), Reaches(port, addr, len), NEW k \in 0 .. (len - 1)
  PROVE  host[HostOf(port, addr)[1]][HostOf(port, addr)[2] + k] = Stored(port, addr + k)
<1>1. len \in Nat /\ k \in Nat /\ MBASE \in Nat /\ SRAM_BASE \in Nat
  BY IoAssumption, WindowAssumption
<1>2. CASE ToSram(port, addr, len)
  <2>1. HostOf(port, addr) = <<"sram", addr - SRAM_BASE>> /\ InSram(addr + k) /\ port = FALSE
    BY <1>2 DEF ToSram
  <2>2. host["sram"][(addr + k) - SRAM_BASE] = Stored(FALSE, addr + k)
    BY <2>1 DEF MemInv, SramAgrees, InSram
  <2>3. HostOf(port, addr)[1] = "sram" /\ HostOf(port, addr)[2] + k = (addr + k) - SRAM_BASE
    BY <1>1, <2>1
  <2>4. QED BY <2>1, <2>2, <2>3, Zenon
<1>3. CASE ToFlash(port, addr, len)
  <2>1. /\ HostOf(port, addr) = <<"flash", addr - MBASE>> /\ port = FALSE
        /\ addr + k \in MBASE .. (MBASE + MSIZE - 1)
    BY <1>3 DEF ToFlash
  <2>2. host["flash"][(addr + k) - MBASE] = Stored(FALSE, addr + k)
    BY <2>1 DEF MemInv, FlashAgrees
  <2>3. HostOf(port, addr)[1] = "flash" /\ HostOf(port, addr)[2] + k = (addr + k) - MBASE
    BY <1>1, <2>1
  <2>4. QED BY <2>1, <2>2, <2>3, Zenon
<1>4. ASSUME NEW i \in DOMAIN maps, ToDevice(port, addr, len, i)
      PROVE  host[HostOf(port, addr)[1]][HostOf(port, addr)[2] + k] = Stored(port, addr + k)
  <2>1. /\ HostOf(port, addr) = <<"io", maps[i].space + addr - maps[i].low>> /\ port = machine.port_io
        /\ addr + k \in OfMap(i)
    BY <1>4 DEF ToDevice
  <2>2. host["io"][maps[i].space + (addr + k) - maps[i].low] = Stored(machine.port_io, addr + k)
    BY <2>1 DEF MemInv, MapsAgree
  <2>3. maps[i].space \in Nat /\ maps[i].low \in Nat
    BY Regions DEF MemInv, RegionsTyped
  <2>4. /\ HostOf(port, addr)[1] = "io"
        /\ HostOf(port, addr)[2] + k = maps[i].space + (addr + k) - maps[i].low
    BY <1>1, <2>1, <2>3
  <2>5. QED BY <2>1, <2>2, <2>4, Zenon
<1>5. QED BY <1>2, <1>3, <1>4, Targets

LEMMA LoadStep ==
  ASSUME MemInv, NEW port \in {FALSE, machine.port_io}, NEW addr \in Nat, NEW len \in Lens,
         Load(port, addr, len)
  PROVE  MemInv'
<1>1. CASE Dies
  BY <1>1, StaysStill DEF Dies
<1>2. CASE ~Dies
  <2> DEFINE data == host_read(HostOf(port, addr), len)
  <2>1. /\ Within(port, addr, len) /\ Reaches(port, addr, len)
        /\ UNCHANGED <<machine, up, host, maps, p_space, bytes>>
        /\ access' = [access EXCEPT !.port = port, !.addr = addr, !.len = len, !.count = @ + 1,
                                    !.data = data]
        /\ Len(maps) = Len(machine.devices)
    BY <1>2 DEF Load, Running
  <2>2. len \in Nat /\ len <= WordBytes /\ WordBytes \in Nat
    BY IoAssumption
  <2>3. ASSUME NEW k \in 1 .. len PROVE data[k] = Stored(port, addr + k - 1)
    <3>1. k - 1 \in 0 .. (len - 1) /\ k \in 1 .. WordBytes /\ k <= len
      BY <2>2
    <3>2. host[HostOf(port, addr)[1]][HostOf(port, addr)[2] + (k - 1)] = Stored(port, addr + (k - 1))
      BY <2>1, <3>1, Reads
    <3>3. data[k] = host[HostOf(port, addr)[1]][HostOf(port, addr)[2] + k - 1]
      BY <3>1 DEF host_read
    <3>4. addr + (k - 1) = addr + k - 1
      BY <3>1
    <3>5. HostOf(port, addr)[2] + k - 1 = HostOf(port, addr)[2] + (k - 1)
      BY <3>1
    <3>6. QED BY <3>2, <3>3, <3>4, <3>5
  <2> HIDE DEF data
  <2>4. /\ access' = [port |-> port, addr |-> addr, len |-> len, data |-> data, count |-> access.count + 1]
    BY <2>1 DEF MemInv, Loaded
  <2>5. Loaded'
    BY <2>1, <2>2, <2>3, <2>4 DEF Loaded, Stored
  <2>6. Fresh'
    BY <2>1 DEF Fresh, MemInv, MapInv
  <2>7. QED BY <2>1, <2>5, <2>6 DEF MemInv, MapInv, HostType, SramAgrees, FlashAgrees, MapsAgree,
                                   Stored, OfMap
<1>3. QED BY <1>1, <1>2

\* What a store leaves in the object of the host it goes to, and in the others.
Wrote(h, len, data) ==
  /\ DOMAIN host' = DOMAIN host
  /\ DOMAIN host'[h[1]] = DOMAIN host[h[1]]
  /\ \A o \in DOMAIN host[h[1]] :
       host'[h[1]][o] = IF o - h[2] \in 0 .. (len - 1) THEN data[o - h[2] + 1] ELSE host[h[1]][o]
  /\ \A x \in DOMAIN host : x # h[1] => host'[x] = host[x]

LEMMA HostNext ==
  ASSUME HostType, NEW h, h[1] \in DOMAIN host, NEW len, NEW data, host_write(h, len, data)
  PROVE  Wrote(h, len, data)
<1> DEFINE x == h[1]
           row == [o \in DOMAIN host[x] |->
                     IF o - h[2] \in 0 .. (len - 1) THEN data[o - h[2] + 1] ELSE host[x][o]]
<1>1. host' = [host EXCEPT ![x] = row]
  BY DEF host_write
<1>2. /\ DOMAIN row = DOMAIN host[x]
      /\ \A o \in DOMAIN host[x] :
           row[o] = IF o - h[2] \in 0 .. (len - 1) THEN data[o - h[2] + 1] ELSE host[x][o]
  OBVIOUS
<1> HIDE DEF row
<1>3. DOMAIN host' = DOMAIN host /\ host'[x] = row /\ \A y \in DOMAIN host : y # x => host'[y] = host[y]
  BY <1>1
<1>4. QED BY <1>2, <1>3 DEF Wrote

\* What the guest stored last at an address, after one more store.
BytesAfter(port, addr, len, data) ==
  [b \in DOMAIN bytes \cup {<<port, addr + k>> : k \in 0 .. (len - 1)} |->
     IF b[1] = port /\ b[2] - addr \in 0 .. (len - 1) THEN data[b[2] - addr + 1] ELSE bytes[b]]

Hit(addr, len, a) == a - addr \in 0 .. (len - 1)

LEMMA StoredNext ==
  ASSUME NEW port, NEW addr \in Nat, NEW len \in Nat, NEW data,
         bytes' = BytesAfter(port, addr, len, data), NEW p, NEW a \in Int
  PROVE  /\ p = port /\ Hit(addr, len, a) => (Stored(p, a))' = data[a - addr + 1]
         /\ ~(p = port /\ Hit(addr, len, a)) => (Stored(p, a))' = Stored(p, a)
<1> DEFINE new == {<<port, addr + k>> : k \in 0 .. (len - 1)}
           b == <<p, a>>
<1>1. b[1] = p /\ b[2] = a
  OBVIOUS
<1>2. b \in new <=> p = port /\ a - addr \in 0 .. (len - 1)
  <2>1. ASSUME b \in new PROVE p = port /\ a - addr \in 0 .. (len - 1)
    <3>1. PICK k \in 0 .. (len - 1) : b = <<port, addr + k>>
      BY <2>1
    <3>2. QED BY <3>1
  <2>2. ASSUME p = port, a - addr \in 0 .. (len - 1) PROVE b \in new
    <3>1. a = addr + (a - addr)
      OBVIOUS
    <3>2. QED BY <2>2, <3>1
  <2>3. QED BY <2>1, <2>2
<1> HIDE DEF new
<1>3. DOMAIN bytes' = DOMAIN bytes \cup new
  BY DEF new, BytesAfter
<1>4. b \in DOMAIN bytes \cup new =>
        bytes'[b] = IF b[1] = port /\ b[2] - addr \in 0 .. (len - 1) THEN data[b[2] - addr + 1]
                    ELSE bytes[b]
  BY DEF new, BytesAfter
<1> HIDE DEF b
<1>5. (Stored(p, a))' = IF b \in DOMAIN bytes' THEN bytes'[b] ELSE 0
  BY DEF Stored, b
<1>6. Stored(p, a) = IF b \in DOMAIN bytes THEN bytes[b] ELSE 0
  BY DEF Stored, b
<1>7. ASSUME p = port /\ Hit(addr, len, a) PROVE (Stored(p, a))' = data[a - addr + 1]
  BY <1>1, <1>2, <1>3, <1>4, <1>5, <1>7 DEF Hit
<1>8. ASSUME ~(p = port /\ Hit(addr, len, a)) PROVE (Stored(p, a))' = Stored(p, a)
  BY <1>1, <1>2, <1>3, <1>4, <1>5, <1>6, <1>8 DEF Hit
<1>9. QED BY <1>7, <1>8

LEMMA StoreStep ==
  ASSUME MemInv, NEW port \in {FALSE, machine.port_io}, NEW addr \in Nat, NEW len \in Lens,
         Store(port, addr, len)
  PROVE  MemInv'
<1>1. CASE Dies
  BY <1>1, StaysStill DEF Dies
<1>2. CASE ~Dies
  <2> DEFINE data == [k \in 1 .. WordBytes |-> access.count + k]
             h == HostOf(port, addr)
  <2>1. /\ Within(port, addr, len) /\ Reaches(port, addr, len) /\ host_write(h, len, data)
        /\ bytes' = BytesAfter(port, addr, len, data)
        /\ access' = [NoLoad EXCEPT !.count = access.count + 1]
        /\ UNCHANGED <<machine, up, maps, p_space>>
        /\ Len(maps) = Len(machine.devices)
    BY <1>2 DEF Store, Running, BytesAfter
  <2> HIDE DEF data
  <2>2. /\ len \in Nat /\ MBASE \in Nat /\ MSIZE \in Nat /\ SRAM_BASE \in Nat /\ SRAM_SIZE \in Nat
        /\ IO_SPACE_MAX \in Nat /\ MBASE = FLASH_BASE
    BY IoAssumption, WindowAssumption
  <2>3. ASSUME NEW p, NEW a \in Int
        PROVE  /\ p = port /\ Hit(addr, len, a) => (Stored(p, a))' = data[a - addr + 1]
               /\ ~(p = port /\ Hit(addr, len, a)) => (Stored(p, a))' = Stored(p, a)
    <3>1. bytes' = BytesAfter(port, addr, len, data) /\ len \in Nat
      BY <2>1, <2>2
    <3> HIDE DEF h
    <3>2. QED BY <3>1, StoredNext
  <2>4. PICK m \in BOOLEAN : m = machine.port_io /\ m = machine'.port_io
    BY <2>1, Devices DEF MemInv, MapInv
  <2>5. /\ DOMAIN maps = 1 .. Len(maps)
        /\ \A i \in DOMAIN maps : maps[i].low \in Nat /\ maps[i].high \in Nat /\ maps[i].space \in Nat
        /\ RegionsTyped
    BY Regions DEF MemInv, RegionsTyped
  <2>6. MapInv /\ HostType /\ MapInv'
    BY <2>1 DEF MemInv, MapInv, OfMap
  <2>7. \A i \in DOMAIN maps : ~m => \A a \in OfMap(i) :
          a \notin MBASE .. (MBASE + MSIZE - 1) /\ ~InSram(a)
    <3>1. ASSUME NEW i \in DOMAIN maps, ~m, NEW a \in OfMap(i)
          PROVE  a \notin MBASE .. (MBASE + MSIZE - 1) /\ ~InSram(a)
      <4>1. Beyond(maps[i].low) /\ Beyond(maps[i].high)
        BY <2>4, <2>6, <3>1 DEF MapInv
      <4>2. maps[i].low \in Nat /\ maps[i].high \in Nat /\ a \in maps[i].low .. maps[i].high
        BY <2>5 DEF OfMap
      <4>3. Beyond(a) /\ a \in Int
        BY <2>2, <4>1, <4>2, WindowAssumption DEF Beyond
      <4>4. QED BY <2>2, <4>3, WindowAssumption DEF Beyond, InSram
    <3>2. QED BY <3>1
  <2>8. ASSUME HostType', \A a \in SRAM_BASE .. (SRAM_BASE + SRAM_SIZE - 1) :
                            host'["sram"][a - SRAM_BASE] = (Stored(FALSE, a))',
               \A a \in MBASE .. (MBASE + MSIZE - 1) :
                 host'["flash"][a - MBASE] = (Stored(FALSE, a))',
               \A i \in DOMAIN maps : \A a \in OfMap(i) :
                 host'["io"][maps[i].space + a - maps[i].low] = (Stored(m, a))'
        PROVE  MemInv'
    <3>1. SramAgrees' /\ FlashAgrees'
      BY <2>8 DEF SramAgrees, FlashAgrees
    <3>2. MapsAgree'
      <4>1. ASSUME NEW i \in DOMAIN maps', NEW a \in OfMap(i)'
            PROVE  host'["io"][maps'[i].space + a - maps'[i].low] = (Stored(machine.port_io, a))'
        <5>1. i \in DOMAIN maps /\ a \in OfMap(i) /\ maps' = maps
          BY <2>1 DEF OfMap
        <5>2. host'["io"][maps[i].space + a - maps[i].low] = (Stored(m, a))'
          BY <2>8, <5>1
        <5>3. (Stored(m, a))' = (Stored(machine.port_io, a))'
          BY <2>4 DEF Stored
        <5>4. QED BY <5>1, <5>2, <5>3
      <4>2. QED BY <4>1 DEF MapsAgree
    <3>3. Loaded'
      <4>1. access' = [port |-> FALSE, addr |-> 0, len |-> 0, data |-> <<>>, count |-> access.count + 1]
        BY <2>1 DEF NoLoad
      <4>2. access'.len = 0 /\ 1 .. 0 = {}
        BY <4>1
      <4>3. QED BY <4>1, <4>2 DEF Loaded
    <3>4. Fresh'
      <4>1. ~(Len(maps') < Len(machine'.devices))
        BY <2>1, <2>5 DEF RegionsTyped
      <4>2. QED BY <4>1 DEF Fresh
    <3>5. QED BY <2>6, <2>8, <3>1, <3>2, <3>3, <3>4 DEF MemInv
  <2>9. CASE ToSram(port, addr, len)
    <3>1. h[1] = "sram" /\ h[2] = addr - SRAM_BASE /\ port = FALSE
      BY <2>9 DEF ToSram
    <3>2. Wrote(h, len, data)
      BY <2>1, <2>6, <3>1, HostNext DEF HostType
    <3>3. ASSUME NEW a \in Int, Hit(addr, len, a) PROVE InSram(a)
      <4>1. a - addr \in 0 .. (len - 1) /\ addr + (a - addr) = a
        BY <3>3 DEF Hit
      <4>2. QED BY <2>9, <4>1 DEF ToSram
    <3>4. HostType' /\ host'["flash"] = host["flash"] /\ host'["io"] = host["io"]
      BY <2>6, <3>1, <3>2 DEF HostType, Wrote
    <3>5. ASSUME NEW a \in SRAM_BASE .. (SRAM_BASE + SRAM_SIZE - 1)
          PROVE  host'["sram"][a - SRAM_BASE] = (Stored(FALSE, a))'
      <4>1. /\ a - SRAM_BASE \in DOMAIN host["sram"]
            /\ (a - SRAM_BASE) - (addr - SRAM_BASE) = a - addr
        BY <2>2, <2>6 DEF HostType
      <4>2. host'["sram"][a - SRAM_BASE] = IF Hit(addr, len, a) THEN data[a - addr + 1]
                                           ELSE host["sram"][a - SRAM_BASE]
        BY <3>1, <3>2, <4>1 DEF Wrote, Hit
      <4>3. host["sram"][a - SRAM_BASE] = Stored(FALSE, a)
        BY DEF MemInv, SramAgrees
      <4>4. a \in Int /\ FALSE = port
        BY <2>2, <3>1
      <4>5. CASE Hit(addr, len, a)
        BY <2>3, <4>2, <4>4, <4>5
      <4>6. CASE ~Hit(addr, len, a)
        BY <2>3, <4>2, <4>3, <4>4, <4>6
      <4>7. QED BY <4>5, <4>6
    <3>6. ASSUME NEW a \in MBASE .. (MBASE + MSIZE - 1)
          PROVE  host'["flash"][a - MBASE] = (Stored(FALSE, a))'
      <4>1. ~Hit(addr, len, a) /\ a \in Int
        BY <2>2, <3>3, WindowAssumption DEF InSram
      <4>2. host["flash"][a - MBASE] = Stored(FALSE, a)
        BY DEF MemInv, FlashAgrees
      <4>3. QED BY <2>3, <3>4, <4>1, <4>2
    <3>7. ASSUME NEW i \in DOMAIN maps, NEW a \in OfMap(i)
          PROVE  host'["io"][maps[i].space + a - maps[i].low] = (Stored(m, a))'
      <4>1. a \in Int /\ ~(m = port /\ Hit(addr, len, a))
        BY <2>5, <2>7, <3>1, <3>3 DEF OfMap
      <4>2. host["io"][maps[i].space + a - maps[i].low] = Stored(m, a)
        BY <2>4 DEF MemInv, MapsAgree
      <4>3. QED BY <2>3, <3>4, <4>1, <4>2
    <3>8. QED BY <2>8, <3>4, <3>5, <3>6, <3>7
  <2>10. CASE ToFlash(port, addr, len)
    <3>1. h[1] = "flash" /\ h[2] = addr - MBASE /\ port = FALSE
      BY <2>10 DEF ToFlash
    <3>2. Wrote(h, len, data)
      BY <2>1, <2>6, <3>1, HostNext DEF HostType
    <3>3. ASSUME NEW a \in Int, Hit(addr, len, a) PROVE a \in MBASE .. (MBASE + MSIZE - 1)
      <4>1. a - addr \in 0 .. (len - 1) /\ addr + (a - addr) = a
        BY <3>3 DEF Hit
      <4>2. QED BY <2>10, <4>1 DEF ToFlash
    <3>4. HostType' /\ host'["sram"] = host["sram"] /\ host'["io"] = host["io"]
      BY <2>6, <3>1, <3>2 DEF HostType, Wrote
    <3>5. ASSUME NEW a \in MBASE .. (MBASE + MSIZE - 1)
          PROVE  host'["flash"][a - MBASE] = (Stored(FALSE, a))'
      <4>1. /\ a - MBASE \in DOMAIN host["flash"]
            /\ (a - MBASE) - (addr - MBASE) = a - addr
        BY <2>2, <2>6 DEF HostType
      <4>2. host'["flash"][a - MBASE] = IF Hit(addr, len, a) THEN data[a - addr + 1]
                                        ELSE host["flash"][a - MBASE]
        BY <3>1, <3>2, <4>1 DEF Wrote, Hit
      <4>3. host["flash"][a - MBASE] = Stored(FALSE, a)
        BY DEF MemInv, FlashAgrees
      <4>4. a \in Int /\ FALSE = port
        BY <2>2, <3>1
      <4>5. CASE Hit(addr, len, a)
        BY <2>3, <4>2, <4>4, <4>5
      <4>6. CASE ~Hit(addr, len, a)
        BY <2>3, <4>2, <4>3, <4>4, <4>6
      <4>7. QED BY <4>5, <4>6
    <3>6. ASSUME NEW a \in SRAM_BASE .. (SRAM_BASE + SRAM_SIZE - 1)
          PROVE  host'["sram"][a - SRAM_BASE] = (Stored(FALSE, a))'
      <4>1. ~Hit(addr, len, a) /\ a \in Int
        BY <2>2, <3>3, WindowAssumption
      <4>2. host["sram"][a - SRAM_BASE] = Stored(FALSE, a)
        BY DEF MemInv, SramAgrees
      <4>3. QED BY <2>3, <3>4, <4>1, <4>2
    <3>7. ASSUME NEW i \in DOMAIN maps, NEW a \in OfMap(i)
          PROVE  host'["io"][maps[i].space + a - maps[i].low] = (Stored(m, a))'
      <4>1. a \in Int /\ ~(m = port /\ Hit(addr, len, a))
        BY <2>5, <2>7, <3>1, <3>3 DEF OfMap
      <4>2. host["io"][maps[i].space + a - maps[i].low] = Stored(m, a)
        BY <2>4 DEF MemInv, MapsAgree
      <4>3. QED BY <2>3, <3>4, <4>1, <4>2
    <3>8. QED BY <2>8, <3>4, <3>5, <3>6, <3>7
  <2>11. ASSUME NEW i \in DOMAIN maps, ToDevice(port, addr, len, i) PROVE MemInv'
    <3>1. h[1] = "io" /\ h[2] = maps[i].space + addr - maps[i].low /\ port = m
      <4>1. h = <<"io", maps[i].space + addr - maps[i].low>>
        BY <2>11 DEF ToDevice
      <4>2. port = m
        BY <2>4, <2>11, Zenon DEF ToDevice
      <4>3. QED BY <4>1, <4>2
    <3>2. Wrote(h, len, data)
      BY <2>1, <2>6, <3>1, HostNext DEF HostType
    <3>3. ASSUME NEW a \in Int, Hit(addr, len, a) PROVE a \in OfMap(i)
      <4>1. a - addr \in 0 .. (len - 1) /\ addr + (a - addr) = a
        BY <3>3 DEF Hit
      <4>2. QED BY <2>11, <4>1 DEF ToDevice
    <3>4. HostType' /\ host'["sram"] = host["sram"] /\ host'["flash"] = host["flash"]
      BY <2>6, <3>1, <3>2 DEF HostType, Wrote
    <3>5. ASSUME NEW a \in SRAM_BASE .. (SRAM_BASE + SRAM_SIZE - 1)
          PROVE  host'["sram"][a - SRAM_BASE] = (Stored(FALSE, a))'
      <4>1. host["sram"][a - SRAM_BASE] = Stored(FALSE, a)
        BY DEF MemInv, SramAgrees
      <4>2. InSram(a) /\ a \in Int
        BY <2>2 DEF InSram
      <4>3. ~(FALSE = port /\ Hit(addr, len, a))
        BY <2>7, <3>1, <3>3, <4>2
      <4>4. QED BY <2>3, <3>4, <4>1, <4>2, <4>3
    <3>6. ASSUME NEW a \in MBASE .. (MBASE + MSIZE - 1)
          PROVE  host'["flash"][a - MBASE] = (Stored(FALSE, a))'
      <4>1. host["flash"][a - MBASE] = Stored(FALSE, a)
        BY DEF MemInv, FlashAgrees
      <4>2. a \in Int
        BY <2>2
      <4>3. ~(FALSE = port /\ Hit(addr, len, a))
        BY <2>7, <3>1, <3>3, <4>2
      <4>4. QED BY <2>3, <3>4, <4>1, <4>2, <4>3
    <3>7. ASSUME NEW j \in DOMAIN maps, NEW a \in OfMap(j)
          PROVE  host'["io"][maps[j].space + a - maps[j].low] = (Stored(m, a))'
      <4> DEFINE o == maps[j].space + a - maps[j].low
      <4>1. /\ maps[j].low \in Nat /\ maps[j].high \in Nat /\ maps[j].space \in Nat
            /\ maps[i].low \in Nat /\ maps[i].high \in Nat /\ maps[i].space \in Nat
            /\ a \in maps[j].low .. maps[j].high /\ a \in Int
        BY <2>5 DEF OfMap
      <4>2. /\ maps[j].space + (maps[j].high - maps[j].low) < p_space
            /\ p_space \in Nat /\ p_space <= IO_SPACE_MAX
        BY <2>6 DEF MapInv
      <4>3. o \in DOMAIN host["io"] /\ o \in Int
        <5>1. o \in 0 .. (IO_SPACE_MAX - 1) /\ o \in Int
          BY <2>2, <4>1, <4>2
        <5>2. QED BY <2>6, <5>1 DEF HostType
      <4>4. host'["io"][o] = IF o - h[2] \in 0 .. (len - 1) THEN data[o - h[2] + 1] ELSE host["io"][o]
        BY <3>1, <3>2, <4>3 DEF Wrote
      <4>5. host["io"][o] = Stored(m, a)
        BY <2>4 DEF MemInv, MapsAgree
      <4>6. CASE j = i
        <5>1. o - h[2] = a - addr
          BY <3>1, <4>1, <4>6
        <5>2. CASE Hit(addr, len, a)
          <6>1. host'["io"][o] = data[a - addr + 1]
            BY <4>4, <5>1, <5>2 DEF Hit
          <6>2. QED BY <2>3, <3>1, <4>1, <5>2, <6>1
        <5>3. CASE ~Hit(addr, len, a)
          <6>1. host'["io"][o] = host["io"][o]
            BY <4>4, <5>1, <5>3 DEF Hit
          <6>2. QED BY <2>3, <4>1, <4>5, <5>3, <6>1
        <5>4. QED BY <5>2, <5>3
      <4>7. CASE j # i
        <5>1. ~Hit(addr, len, a)
          BY <2>6, <3>3, <4>1, <4>7 DEF MapInv
        <5>2. ASSUME o - h[2] \in 0 .. (len - 1) PROVE FALSE
          <6> DEFINE k == o - h[2]
          <6>1. addr + k \in maps[i].low .. maps[i].high
            BY <2>11, <5>2 DEF ToDevice, OfMap
          <6>2. o = maps[i].space + (addr + k) - maps[i].low
            BY <3>1, <4>1, <4>3
          <6>3. \/ maps[i].space + (maps[i].high - maps[i].low) < maps[j].space
                \/ maps[j].space + (maps[j].high - maps[j].low) < maps[i].space
            <7>1. i < j \/ j < i
              BY <2>5, <4>7
            <7>2. QED BY <2>6, <7>1 DEF MapInv
          <6> HIDE DEF k
          <6>4. QED BY <4>1, <6>1, <6>2, <6>3
        <5>3. QED BY <2>3, <4>1, <4>4, <4>5, <5>1, <5>2
      <4>8. QED BY <4>6, <4>7
    <3>8. QED BY <2>8, <3>4, <3>5, <3>6, <3>7
  <2>12. QED BY <2>1, <2>9, <2>10, <2>11, Targets
<1>3. QED BY <1>1, <1>2

LEMMA MemInvNext == MemInv /\ [MemoryNext]_memoryVars => MemInv'
<1> SUFFICES ASSUME MemInv, [MemoryNext]_memoryVars PROVE MemInv'
  OBVIOUS
<1>1. CASE init_device
  BY <1>1, InitDeviceStep
<1>2. ASSUME NEW port \in {FALSE, machine.port_io}, NEW addr \in 0 .. (AddrSize - WordBytes),
             NEW len \in Lens, Load(port, addr, len) \/ Store(port, addr, len)
      PROVE  MemInv'
  <2>1. addr \in Nat
    BY WindowAssumption, IoAssumption
  <2>2. QED BY <1>2, <2>1, LoadStep, StoreStep
<1>3. CASE UNCHANGED memoryVars
  BY <1>3, StaysStill DEF memoryVars
<1>4. QED BY <1>1, <1>2, <1>3 DEF MemoryNext

\* What is stored at an address is found there, by a load and by the device the address
\* is of, whatever the windows of the memory, the pages and the devices that were
\* added are (paddr_read, paddr_write, add_mmio_map, new_space).
THEOREM MemoryIsApart == MemorySpec => []RegionsAreApart
<1>1. MemInv => RegionsAreApart
  <2> SUFFICES ASSUME MemInv PROVE RegionsAreApart
    OBVIOUS
  <2>1. \A k \in 1 .. access.len : access.data[k] = Stored(access.port, access.addr + k - 1)
    BY DEF MemInv, Loaded
  <2>2. \A i \in DOMAIN maps : \A a \in maps[i].low .. maps[i].high :
          host["io"][maps[i].space + a - maps[i].low] = Stored(machine.port_io, a)
    BY DEF MemInv, MapsAgree, OfMap
  <2>3. ASSUME NEW o \in DOMAIN host["flash"]
        PROVE  LET a == host_to_guest(<<"flash", o>>)
               IN  guest_to_host(a) = <<"flash", o>> /\ host["flash"][o] = Stored(FALSE, a)
    <3> DEFINE a == o + MBASE
    <3>1. o \in 0 .. (MSIZE - 1) /\ MBASE \in Nat /\ MBASE = FLASH_BASE
      BY WindowAssumption DEF MemInv, HostType
    <3>2. /\ a \in MBASE .. (MBASE + MSIZE - 1) /\ a \in Int /\ a - MBASE = o /\ ~InSram(a)
      BY <3>1, WindowAssumption DEF InSram
    <3>3. host_to_guest(<<"flash", o>>) = a
      BY DEF host_to_guest
    <3> HIDE DEF a
    <3>4. host["flash"][o] = Stored(FALSE, a)
      <4>1. host["flash"][a - MBASE] = Stored(FALSE, a)
        BY <3>2 DEF MemInv, FlashAgrees
      <4>2. QED BY <3>2, <4>1
    <3>5. guest_to_host(a) = <<"flash", o>>
      BY <3>1, <3>2 DEF guest_to_host
    <3>6. QED BY <3>3, <3>4, <3>5
  <2>4. QED BY <2>1, <2>2, <2>3 DEF RegionsAreApart
<1>2. QED BY <1>1, MemInvInit, MemInvNext, PTL DEF MemorySpec
=============================================================================
