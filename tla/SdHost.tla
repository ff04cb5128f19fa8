------------------------------ MODULE SdHost ------------------------------
(***************************************************************************)
(* The SD card of NEMU (nemu/src/device/sdcard.c) and the host driver for  *)
(* it that the repository gives to Linux (nemu/resource/sdcard/nemu.c).    *)
(*                                                                         *)
(* The driver handles one request at a time, under a mutex and without     *)
(* interrupts: it sends up to three commands (the block count, the actual  *)
(* command, a stop) and moves the data word by word as soon as the command *)
(* is written.  The requests come from the MMC core of the kernel.         *)
(***************************************************************************)
EXTENDS Integers, Sequences

CONSTANTS
  Values,        \* what a word of 32 bits may hold
  SectorWords,   \* 512 / 4
  NrSectors,     \* sectors of the image file
  ext_csd,       \* the extended CSD: a sequence of SectorWords values
  Requests       \* the requests of the core

\* A request: the operation, where, how many blocks of which size, whether the
\* core supplies a block count (sbc) and a stop command, how many words its
\* scatter list holds, and the data of a write.  The extended CSD is one block.
Operations == {"read", "write", "read_one", "ext_csd", "status"}
RequestSet == [op : Operations, sector : Nat, blocks : Nat, sbc : BOOLEAN, stop : BOOLEAN,
               sg : Nat, buf : Seq(Values), oddsize : BOOLEAN, error : BOOLEAN]
ASSUME SdAssumption ==
  /\ SectorWords \in Nat \ {0} /\ NrSectors \in Nat \ {0}
  /\ ext_csd \in [1 .. SectorWords -> Values]
  /\ Requests \subseteq RequestSet
  /\ \A r \in Requests :
       /\ r.sector + r.blocks <= NrSectors
       /\ IF r.op = "write" THEN r.sg <= Len(r.buf) ELSE r.buf = <<>>
       /\ r.op = "ext_csd" => r.blocks = 1

VARIABLES
  card,     \* registers and state of the card
  file,     \* the image file: word -> value
  host,     \* struct nemu_host
  step,     \* the function the driver is in, "idle" between requests
  answer,   \* history: the last request, as the core got it back
  disk,     \* history: what the file should hold after the requests so far
  csd_cut   \* history: a read of the extended CSD has failed

sdVars == <<card, file, host, step, answer, disk, csd_cut>>

Image    == 0 .. (NrSectors * SectorWords - 1)
HasData(r) == r.op # "status"
Reads(r)   == r.op \in {"read", "read_one", "ext_csd"}
NoRequest  == [op |-> "none"]

SdInit ==
  /\ card = [arg |-> 0, data |-> CHOOSE v \in Values : TRUE, pos |-> 0, addr |-> 0,
             write_cmd |-> FALSE, read_ext_csd |-> FALSE]
  /\ \E v \in Values : file = [w \in Image |-> v]
  /\ host = [mrq |-> NoRequest, cmd |-> "none", data |-> FALSE, data_complete |-> FALSE,
             use_sbc |-> FALSE, left |-> 0, blocks |-> 0, moved |-> 0, buf |-> <<>>,
             error |-> FALSE, warned |-> FALSE]
  /\ step = "idle" /\ answer = NoRequest /\ disk = file /\ csd_cut = FALSE

(***************************************************************************)
(* The card.                                                               *)
(***************************************************************************)

prepare_rw(c, is_write) ==
  [c EXCEPT !.pos = c.arg * SectorWords, !.addr = 0, !.write_cmd = is_write]

\* The commands whose effect on the data the driver can see.  The card knows
\* neither a read nor a write of a single block: it panics.
Unhandled(command) == command = "read_one"
sdcard_handle_cmd(c, command) ==
  CASE command = "ext_csd" -> [c EXCEPT !.read_ext_csd = TRUE, !.addr = 0]
    [] command = "read"    -> prepare_rw(c, FALSE)
    [] command = "write"   -> prepare_rw(c, TRUE)
    [] OTHER               -> c    \* SET_BLOCK_COUNT, SEND_STATUS, STOP

\* Mutant: the flag of the CSD outlives its last word.
csd_word_Sticky(c) ==
  [c EXCEPT !.data = ext_csd[(c.addr % SectorWords) + 1], !.addr = @ + 1]

\* sdcard_io_handler for the data register, loaded or stored alike: the CSD
\* while it is being read, otherwise the next word of the file.  A value stored
\* is in the register before the handler runs, and a value loaded is taken from
\* it afterwards.
csd_word(c) ==
  [c EXCEPT !.data = ext_csd[c.addr + 1], !.addr = @ + 1,
            !.read_ext_csd = c.addr # SectorWords - 1]
DataAccess(c) ==
  IF c.read_ext_csd THEN csd_word(c)
  ELSE [c EXCEPT !.data = IF c.pos \in Image /\ ~c.write_cmd THEN file[c.pos] ELSE @,
                 !.pos = @ + 1, !.addr = @ + 1]
FileAfter(c) ==
  IF ~c.read_ext_csd /\ c.write_cmd /\ c.pos \in Image
  THEN [file EXCEPT ![c.pos] = c.data] ELSE file

(***************************************************************************)
(* The driver.                                                             *)
(***************************************************************************)
\* nemu_send_command with nemu_prepare_data: the two WARN_ONs, the argument,
\* the command, and the data of the request if this is its actual command.
send_command(h, which) ==
  [h EXCEPT !.warned = @ \/ h.cmd # "none" \/ h.data,
            !.cmd = which,
            !.data = which = "cmd" /\ HasData(h.mrq),
            !.data_complete = @ /\ ~(which = "cmd" /\ HasData(h.mrq)),
            !.blocks = IF which = "cmd" THEN h.mrq.blocks ELSE @,
            !.left = IF which = "cmd" THEN SectorWords ELSE @]

CommandOf(h, which) == IF which = "cmd" THEN h.mrq.op ELSE which
\* The core puts the number of blocks in the argument of the block count.
ArgumentOf(h, which) ==
  CASE which = "sbc" -> h.mrq.blocks [] which = "cmd" -> h.mrq.sector [] OTHER -> 0

Send(h, which) ==
  /\ host' = send_command(h, which)
  /\ card' = sdcard_handle_cmd([card EXCEPT !.arg = ArgumentOf(h, which)], CommandOf(h, which))
  /\ step' = IF Unhandled(CommandOf(h, which)) THEN "panic"
             ELSE IF host'.data THEN "transfer" ELSE "finish_command"

\* nemu_request.  A request with a block size that is no power of two comes
\* back at once.
nemu_request(r) ==
  /\ step = "idle"
  /\ IF HasData(r) /\ r.oddsize
     THEN /\ answer' = [r EXCEPT !.error = TRUE]
          /\ UNCHANGED <<card, host, step>>
     ELSE LET h == [host EXCEPT !.mrq = r, !.buf = r.buf, !.moved = 0, !.error = FALSE,
                                !.warned = @ \/ host.mrq # NoRequest,
                                !.use_sbc = r.sbc /\ HasData(r) /\ Reads(r)]
          IN  /\ Send(h, IF h.use_sbc THEN "sbc" ELSE "cmd")
              /\ answer' = NoRequest
  /\ UNCHANGED <<file, disk, csd_cut>>

\* nemu_transfer_block_pio, one word of it.
transfer_word ==
  /\ step = "transfer" /\ host.blocks > 0 /\ host.left > 0 /\ host.moved < host.mrq.sg
  /\ IF Reads(host.mrq)
     THEN /\ card' = DataAccess(card)
          /\ file' = FileAfter(card)
          /\ host' = [host EXCEPT !.left = @ - 1, !.moved = @ + 1, !.buf = Append(@, card'.data)]
     ELSE LET c == [card EXCEPT !.data = host.mrq.buf[host.moved + 1]]
          IN  /\ card' = DataAccess(c)
              /\ file' = FileAfter(c)
              /\ host' = [host EXCEPT !.left = @ - 1, !.moved = @ + 1]
  /\ UNCHANGED <<step, answer, disk, csd_cut>>

\* The scatter list is at its end: this block fails, the next is still tried.
transfer_fails ==
  /\ step = "transfer" /\ host.blocks > 0 /\ host.left > 0 /\ host.moved >= host.mrq.sg
  /\ host' = [host EXCEPT !.left = 0, !.error = TRUE]
  /\ UNCHANGED <<card, file, step, answer, disk, csd_cut>>

transfer_next_block ==
  /\ step = "transfer" /\ host.blocks > 0 /\ host.left = 0
  /\ host' = [host EXCEPT !.blocks = @ - 1, !.left = SectorWords]
  /\ UNCHANGED <<card, file, step, answer, disk, csd_cut>>

\* nemu_finish_request: the request goes back to the core.
finish_request(h) ==
  /\ host' = [h EXCEPT !.mrq = NoRequest, !.cmd = "none", !.data = FALSE]
  /\ answer' = [h.mrq EXCEPT !.error = h.error, !.buf = h.buf]
  /\ step' = "idle"
  /\ disk' = IF h.mrq.op # "write" THEN disk
             ELSE LET first == h.mrq.sector * SectorWords
                  IN  [w \in Image |->
                        IF w \notin first .. (first + h.mrq.blocks * SectorWords - 1) THEN disk[w]
                        ELSE IF h.error THEN file[w] ELSE h.mrq.buf[w - first + 1]]
  /\ csd_cut' = (csd_cut \/ (h.mrq.op = "ext_csd" /\ h.error))
  /\ UNCHANGED card

\* nemu_transfer_complete: a stop command if the transfer was open-ended or
\* failed, otherwise the end.
NeedsStop(h) == h.mrq.stop /\ (h.error \/ ~h.use_sbc)

transfer_complete(h) ==
  LET done == [h EXCEPT !.data = FALSE, !.warned = @ \/ ~h.data_complete]
  IN  IF NeedsStop(h)
      THEN Send(done, "stop") /\ UNCHANGED <<answer, disk, csd_cut>>
      ELSE finish_request(done)

\* nemu_finish_data: the data may be there before the command is finished.
finish_data ==
  /\ step = "transfer" /\ host.blocks = 0
  /\ LET h == [host EXCEPT !.data_complete = TRUE]
     IN  IF h.cmd = "none" THEN transfer_complete(h)
         ELSE /\ host' = h /\ step' = "finish_command"
              /\ UNCHANGED <<card, answer, disk, csd_cut>>
  /\ UNCHANGED file

\* nemu_finish_command.
finish_command ==
  /\ step = "finish_command"
  /\ LET h == [host EXCEPT !.cmd = "none"]
     IN  \/ /\ host.cmd = "sbc"
            /\ Send(h, "cmd")
            /\ UNCHANGED <<answer, disk, csd_cut>>
         \/ /\ host.cmd = "stop"
            /\ finish_request(host)
         \/ /\ host.cmd = "cmd" /\ ~host.data
            /\ finish_request(h)
         \/ /\ host.cmd = "cmd" /\ host.data /\ host.data_complete
            /\ transfer_complete(h)
  /\ UNCHANGED file

SdStep == transfer_word \/ transfer_fails \/ transfer_next_block \/ finish_data \/ finish_command
SdNext == (\E r \in Requests : nemu_request(r)) \/ SdStep

\* A request is a call: once begun, the driver runs on.
SdSpec == SdInit /\ [][SdNext]_sdVars /\ WF_sdVars(SdStep)

----------------------------------------------------------------------------
(* What the driver and the card together owe the kernel. *)

Slice(first, n) == [i \in 1 .. n |-> disk[first * SectorWords + i - 1]]

\* A read that reports no error has brought the words that earlier requests
\* left in those sectors, and a read of the extended CSD the CSD: the flag of
\* the CSD, the position in the file and the direction of the card are never
\* left over from another request.  The exception is a read of the CSD that
\* failed: its flag stays set in the card.
ReadsAreExact ==
  (step = "idle" /\ ~csd_cut /\ answer.op \in {"read", "ext_csd"} /\ ~answer.error) =>
    answer.buf = IF answer.op = "read" THEN Slice(answer.sector, answer.blocks * SectorWords)
                 ELSE ext_csd

\* Between requests the file is what the writes so far say it is: every word of
\* a write is in its place, and no other request has changed the file.  On the
\* way the driver's own WARN_ONs never fire: no command, data or request is
\* still there when the next is sent, whether a transfer failed or not.
DiskIsModel ==
  /\ step = "idle" /\ ~csd_cut => file = disk
  /\ ~host.warned

\* The card and the driver are a disk.
SdIsADisk == ReadsAreExact /\ DiskIsModel
=============================================================================
